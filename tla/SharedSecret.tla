----------------------------- MODULE SharedSecret -----------------------------
(***************************************************************************)
(* What the processes of an installation may rely on when they share the   *)
(* secret that links are derived from: it is chosen once, whoever needs it *)
(* first; whoever holds a secret holds that one, and every link that is    *)
(* out is signed with it.  It is lost only while nobody holds it, and its  *)
(* links are lost with it.                                                 *)
(***************************************************************************)
CONSTANTS
  Secrets,
  Holders,   \* the processes that share the secret
  Nothing    \* no secret

VARIABLES
  secret,    \* the secret, or Nothing
  held,      \* [Holders -> what the process holds]
  signed     \* the secrets that the links which are out are signed with

Init ==
  /\ secret = Nothing
  /\ held = [h \in Holders |-> Nothing]
  /\ signed = {}

Hold(h, s) == held' = [held EXCEPT ![h] = s]

Choose(h, s) == secret = Nothing /\ secret' = s /\ Hold(h, s) /\ UNCHANGED signed

Learn(h) == secret # Nothing /\ Hold(h, secret) /\ UNCHANGED <<secret, signed>>

Sign(h) ==
  /\ held[h] = secret /\ secret # Nothing
  /\ signed' = signed \cup {secret}
  /\ UNCHANGED <<secret, held>>

Forget(h) == Hold(h, Nothing) /\ UNCHANGED <<secret, signed>>

Lose ==
  /\ \A h \in Holders : held[h] = Nothing
  /\ secret' = Nothing /\ signed' = {}
  /\ UNCHANGED held

Next ==
  \/ \E h \in Holders : \/ \E s \in Secrets : Choose(h, s)
                        \/ Learn(h) \/ Sign(h) \/ Forget(h)
  \/ Lose

Spec == Init /\ [][Next]_<<secret, held, signed>>
=============================================================================
