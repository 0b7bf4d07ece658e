-------------------------------- MODULE Auth --------------------------------
(***************************************************************************)
(* Who is calling.  Nobody is authenticated here: a machine shows a token  *)
(* that the tokens file names, a person is named by the headers of a       *)
(* trusted proxy, and a developer may have everybody taken for somebody.   *)
(*                                                                         *)
(* A caller is [bearer, hop, named, adminGroup]: the token it shows or     *)
(* NoBearer, the address the request comes from, whether the user header   *)
(* is set, and whether one of the groups is an admin group.                *)
(***************************************************************************)
EXTENDS Naturals, SequencesExt

CONSTANTS
  Tokens,          \* what a caller may show
  NoBearer,        \* it shows nothing
  TrustedProxies   \* the hops that may name a user

ASSUME AuthAssumption == NoBearer \notin Tokens

Roles == {"admin", "client"}
Nobody == ""

\* loadTokens, one line: comments are skipped, a line that is not
\* name:role:token or has another role is refused, and a token named again
\* means what the last line says.
ReadLine(read, line) ==
  CASE ~read.ok \/ line.kind = "comment" -> read
    [] read.ok /\ line.kind = "entry" /\ line.role \in Roles ->
         [read EXCEPT !.of = [t \in DOMAIN @ \union {line.token} |->
                                IF t = line.token THEN line.role ELSE @[t]]]
    [] OTHER -> [read EXCEPT !.ok = FALSE]

NothingRead == [ok |-> TRUE, of |-> [t \in {} |-> Nobody]]

\* What is read of the file after each of its lines, and in the end.
Reading(file) ==
  LET read[n \in 0..Len(file)] ==
        IF n = 0 THEN NothingRead ELSE ReadLine(read[n - 1], file[n])
  IN read
LoadTokens(file) == Reading(file)[Len(file)]

Trusted(c) == c.hop \in TrustedProxies

HeaderRole(c) == IF c.adminGroup THEN "admin" ELSE "client"
\* What dev_user and dev_role make of those nobody names; "none" is no dev_user.
UnnamedRole(dev) == CASE dev = "none" -> Nobody
                      [] dev = ""     -> "admin"
                      [] OTHER        -> dev

IdentifyByHeadersToo(c, tokens, dev) ==
  IF c.bearer \in DOMAIN tokens THEN tokens[c.bearer]
  ELSE IF Trusted(c) /\ c.named THEN HeaderRole(c) ELSE UnnamedRole(dev)
\* Identify: the role of the caller.  A token settles it, known or not; next
\* what a trusted proxy says, if it names anybody.
Identify(c, tokens, dev) ==
  IF c.bearer # NoBearer
  THEN IF c.bearer \in DOMAIN tokens THEN tokens[c.bearer] ELSE Nobody
  ELSE IF Trusted(c) /\ c.named THEN HeaderRole(c) ELSE UnnamedRole(dev)
=============================================================================
