---------------------------- MODULE MCConnection ----------------------------
(* Small instances of Connection: settings and banners.                       *)
EXTENDS Connection, MCSession

Full(over) == [transport |-> over, hostKey |-> TRUE, ack |-> TRUE, allowEmpty |-> FALSE,
               username |-> "set", password |-> "set", enable |-> "set"]
NoEnable == [Full("ssh") EXCEPT !.enable = "empty"]
Unpinned == [Full("ssh") EXCEPT !.hostKey = FALSE]
Unacknowledged == [Full("telnet") EXCEPT !.ack = FALSE]
SomeSettings == {Full("telnet"), NoEnable, Full("ssh"), Unpinned, Unacknowledged}

Text(kind) == [kind |-> kind, line |-> "", ok |-> TRUE]
\* "Last login: never", then a line that ends in "password:", then more text.
LastLogin == <<Text("likeUser"), Text("likePass"), Text("text")>>
LastPassword == <<Text("likePass"), Text("text")>>
SomeBanners == {<<>>, LastLogin, LastPassword}
=============================================================================
