----------------------------- MODULE MCService -----------------------------
EXTENDS Service

Line(token, role) == [kind |-> "entry", token |-> token, role |-> role]
Comment == [kind |-> "comment"]
Short == [kind |-> "short"]

Config(tokens, dev) == [tokens |-> tokens, dev |-> dev]
MCConfigs == { Config(<<Comment, Line("t1", "client"), Line("t1", "admin")>>, "none"),
               Config(<<Line("t1", "admin"), Line("t1", "client")>>, ""),
               Config(<<Line("t1", "client"), Short>>, "none"),
               Config(<<Line("t1", "keeper")>>, "none") }

Caller(bearer, hop, named, adminGroup) ==
  [bearer |-> bearer, hop |-> hop, named |-> named, adminGroup |-> adminGroup]

ByHeader == Caller("none", "proxy", TRUE, TRUE)
ByToken == Caller("t1", "proxy", TRUE, FALSE)
Client == Caller("none", "proxy", TRUE, FALSE)
Unheard == Caller("none", "elsewhere", TRUE, TRUE)
MCCallers == { ByHeader, ByToken, Client, Unheard, Caller("t2", "proxy", TRUE, TRUE),
               Caller("none", "proxy", FALSE, TRUE) }

Call(op, ui, from, body, hold, wait) ==
  [op |-> op, ui |-> ui, from |-> from, body |-> body, hold |-> hold, wait |-> wait]

MCCalls ==
  UNION { { Call("take", ui, c, "fine", "none", FALSE) : ui \in BOOLEAN, c \in MCCallers },
          { Call("release", ui, c, "fine", "old", FALSE) :
              ui \in BOOLEAN, c \in {ByHeader, Client, Unheard} },
          { Call("wake", TRUE, c, "fine", "none", FALSE) : c \in {ByHeader, Client} },
          { Call("wake", FALSE, c, "fine", "none", TRUE) : c \in {ByToken, Unheard} },
          { Call("take", ui, ByHeader, body, "none", FALSE) :
              ui \in BOOLEAN, body \in {"undeclared", "no reason"} },
          { Call("wake", ui, ByHeader, "undeclared", "none", FALSE) : ui \in BOOLEAN },
          { Call(op, FALSE, ByHeader, "garbled", "none", TRUE) : op \in {"take", "wake"} } }
=============================================================================
