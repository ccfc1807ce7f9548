--------------------------- MODULE MCServerProcess ---------------------------
\* One address prefix, two NAS, and a scene for each part.
EXTENDS ServerProcess

MCKey == [c \in Clients |-> "p"]
MCDurs == <<2, 0>>
Scene(p, t, c, e, b) == [part |-> p, time |-> t, clients |-> c, edits |-> e, boots |-> b]
MCScenes ==
    {Scene("bans", 2, {"a"}, 0, 1), Scene("bans", 1, {"a", "b"}, 0, 1), Scene("limits", 3, {}, 0, 1),
     Scene("life", 0, {}, 0, 2), Scene("nas", 5, {}, 0, 2), Scene("nas", 1, {}, 1, 1),
     Scene("nas", 0, {}, 2, 1), Scene("daily", 14, {}, 2, 1), Scene("pace", 7, {}, 3, 1)}
MCRows == {Row(Config(TRUE, "n1", "n1", 1))}
=============================================================================
