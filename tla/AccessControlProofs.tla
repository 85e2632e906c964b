------------------------- MODULE AccessControlProofs -------------------------
(***************************************************************************)
(* What a runner decides, for any number of runners, people, agents and    *)
(* policies: app/policy.py and app/agent_identity.py against the manager's *)
(* routes and an editor that write between any two of a call's reads.      *)
(*                                                                         *)
(* The rules themselves (UserEntry, Denied, Granted) are never expanded:   *)
(* what is proved holds because of when the files are read and what is     *)
(* done with the answers, whatever a policy says.                          *)
(***************************************************************************)
EXTENDS AccessControl, TLAPS

-----------------------------------------------------------------------------
(***************************************************************************)
(* The files and the copies                                                *)
(***************************************************************************)
AgentRecord == [token : 1..issued, role : Roles]

\* The files, the copies the runners keep of them, and the manager's request.
FilesInv ==
  /\ writes \in 0..MaxWrites /\ issued \in 0..MaxTokens /\ env \in BOOLEAN
  /\ agents \in [Agents -> AgentRecord \cup {None}]
  /\ rules \in [Servers -> {None, policy}]
  /\ names \in [Servers -> {None, agents}]
  /\ reset = [at |-> reset.at, sub |-> reset.sub, rules |-> reset.rules]

LEMMA FilesInit == Init => FilesInv
<1> SUFFICES ASSUME Init PROVE FilesInv
  OBVIOUS
<1>1. agents \in [Agents -> AgentRecord \cup {None}]
  <2>1. CASE env
    <3>1. PICK a \in Agents, r \in Roles :
             agents = [b \in Agents |-> IF b = a THEN [token |-> 1, role |-> r] ELSE None]
      BY <2>1 DEF Init
    <3>2. [token |-> 1, role |-> r] \in AgentRecord
      BY <2>1 DEF Init, AgentRecord
    <3>. QED
      BY <3>1, <3>2
  <2>2. CASE ~env
    BY <2>2 DEF Init
  <2>. QED
    BY <2>1, <2>2 DEF Init
<1>. QED
  BY <1>1, Bounds DEF Init, FilesInv, NoReset

\* Any write of the agent file that leaves records empties the runners' copies.
LEMMA AgentsWritten ==
  ASSUME FilesInv, NEW recs, AgentsBecome(recs), recs \in [Agents -> (AgentRecord \cup {None})'],
         UNCHANGED <<policy, rules, writes, env>>, issued' \in 0..MaxTokens,
         reset' = [at |-> reset'.at, sub |-> reset'.sub, rules |-> reset'.rules]
  PROVE  FilesInv'
  BY DEF FilesInv, AgentsBecome, Unkept

\* Records stay records when tokens are issued.
LEMMA RecordsStay ==
  ASSUME FilesInv, issued' \in 0..MaxTokens, issued <= issued'
  PROVE  agents \in [Agents -> (AgentRecord \cup {None})']
<1>1. AgentRecord \subseteq AgentRecord'
  BY DEF FilesInv, AgentRecord
<1>. QED
  BY <1>1 DEF FilesInv

LEMMA FilesStep == FilesInv /\ [Next]_vars => FilesInv'
<1> SUFFICES ASSUME FilesInv, [Next]_vars PROVE FilesInv'
  OBVIOUS
<1> USE DEF AgentRecord
<1>1. ASSUME NEW s \in Servers, NEW user, NEW bearer, Receive(s, user, bearer) PROVE FilesInv'
  BY <1>1 DEF Receive, Records, FilesInv
<1>2. ASSUME NEW s \in Servers, Identify(s) PROVE FilesInv'
  BY <1>2 DEF Identify, Records, FilesInv
<1>3. ASSUME NEW s \in Servers, ReadDefault(s) \/ ReadBan(s) \/ ReadRules(s) PROVE FilesInv'
  BY <1>3 DEF ReadDefault, ReadBan, ReadRules, Reads, Kept, Loaded, FilesInv
<1>4. ASSUME NEW s \in Servers, Return(s) PROVE FilesInv'
  BY <1>4 DEF Return, FilesInv
<1>5. ASSUME NEW pol, PutPolicy(pol) \/ EditByHand(pol) PROVE FilesInv'
  BY <1>5, Bounds DEF PutPolicy, EditByHand, PolicyBecomes, Unkept, FilesInv
<1>6. ASSUME NEW sub, ResetBlocks(sub) PROVE FilesInv'
  <2>1. reset' = [at |-> "blocked", sub |-> sub, rules |-> None]
    BY <1>6 DEF ResetBlocks, NoReset
  <2>2. /\ writes' \in 0..MaxWrites /\ rules' \in [Servers -> {None, policy'}]
        /\ UNCHANGED <<agents, names, env, issued>>
    BY <1>6, Bounds DEF ResetBlocks, PolicyBecomes, Unkept, FilesInv
  <2>. QED
    BY <2>1, <2>2 DEF FilesInv
<1>7. ASSUME NEW sub, ResetRefused(sub) PROVE FilesInv'
  BY <1>7 DEF ResetRefused, NoReset, FilesInv
<1>8. CASE ResetRevokes
  <2>1. CASE Listed(reset.sub) /\ ~env
    <3>1. Without(reset.sub) \in [Agents -> AgentRecord \cup {None}]
      BY DEF Without, FilesInv
    <3>. QED
      BY <1>8, <2>1, <3>1 DEF ResetRevokes, AgentsBecome, Unkept, FilesInv
  <2>2. CASE ~(Listed(reset.sub) /\ ~env)
    BY <1>8, <2>2 DEF ResetRevokes, FilesInv
  <2>. QED
    BY <2>1, <2>2
<1>9. ASSUME NEW back \in [Agents -> Archived \cup {None}], NEW pol, RestoreAgents(back, pol)
      PROVE  FilesInv'
  <2>1. Rejoined(back) \in [Agents -> AgentRecord \cup {None}]
    BY DEF Rejoined, Archived, FilesInv
  <2>. QED
    BY <1>9, <2>1 DEF RestoreAgents, AgentsBecome, Unkept, NoReset, FilesInv
<1>10. CASE RestoreRules
  BY <1>10, Bounds DEF RestoreRules, PolicyBecomes, Unkept, NoReset, FilesInv
<1>11. ASSUME NEW a \in Agents, Regenerate(a) PROVE FilesInv'
  <2>1. issued' = issued + 1 /\ issued' \in 0..MaxTokens
    BY <1>11, Bounds DEF Regenerate, Write, FilesInv
  <2>2. agents \in [Agents -> (AgentRecord \cup {None})'] /\ agents[a] \in AgentRecord
    BY <1>11, <2>1, RecordsStay DEF Regenerate, FilesInv
  <2>3. [agents[a] EXCEPT !.token = issued + 1] \in AgentRecord'
    BY <2>1, <2>2 DEF FilesInv
  <2>4. [agents EXCEPT ![a].token = issued + 1] \in [Agents -> (AgentRecord \cup {None})']
    <3>1. [agents EXCEPT ![a].token = issued + 1]
            = [agents EXCEPT ![a] = [agents[a] EXCEPT !.token = issued + 1]]
      OBVIOUS
    <3>. QED
      BY <2>2, <2>3, <3>1
  <2>. QED
    BY <1>11, <2>1, <2>4, AgentsWritten DEF Regenerate, Write, NoReset
<1>12. ASSUME NEW a \in Agents, Revoke(a) PROVE FilesInv'
  BY <1>12 DEF Revoke, Write, AgentsBecome, Unkept, NoReset, FilesInv
<1>13. ASSUME NEW a \in Agents, NEW r \in Roles, Create(a, r) PROVE FilesInv'
  <2>1. issued' = issued + 1 /\ issued' \in 0..MaxTokens
    BY <1>13, Bounds DEF Create, Write, FilesInv
  <2>2. agents \in [Agents -> (AgentRecord \cup {None})']
    BY <2>1, RecordsStay DEF FilesInv
  <2>3. [token |-> issued + 1, role |-> r] \in AgentRecord'
    BY <2>1 DEF FilesInv
  <2>4. [agents EXCEPT ![a] = [token |-> issued + 1, role |-> r]]
          \in [Agents -> (AgentRecord \cup {None})']
    BY <2>2, <2>3
  <2>. QED
    BY <1>13, <2>1, <2>4, AgentsWritten DEF Create, Write, NoReset
<1>14. ASSUME NEW a \in Agents, NEW r \in Roles, Rerole(a, r) PROVE FilesInv'
  <2>1. [agents EXCEPT ![a].role = r] \in [Agents -> AgentRecord \cup {None}]
    BY <1>14 DEF Rerole, FilesInv
  <2>. QED
    BY <1>14, <2>1 DEF Rerole, Write, AgentsBecome, Unkept, NoReset, FilesInv
<1>15. CASE UNCHANGED vars
  BY <1>15 DEF vars, FilesInv
<1>. QED
  BY <1>1, <1>2, <1>3, <1>4, <1>5, <1>6, <1>7, <1>8, <1>9, <1>10, <1>11, <1>12, <1>13, <1>14,
     <1>15 DEF Next

-----------------------------------------------------------------------------
(***************************************************************************)
(* A call in flight                                                        *)
(***************************************************************************)
Stages == {"idle", "gated", "named", "opened", "unbanned", "answered"}

\* The calls are records, at one of the stages, and remember every version of
\* the two files since they arrived.
CallShape(c) ==
  DOMAIN c = {"at", "user", "bearer", "id", "open", "granted", "during", "stores"}

CallOK(s) ==
  /\ CallShape(call[s]) /\ call[s].at \in Stages
  /\ InFlight(s) => policy \in call[s].during /\ agents \in call[s].stores

CallInv == DOMAIN call = Servers /\ \A s \in Servers : CallOK(s)

\* The runner's own steps.
Own(s) ==
  \/ \E user \in People \cup {None, Broken}, bearer \in 0..issued : Receive(s, user, bearer)
  \/ Identify(s) \/ ReadDefault(s) \/ ReadBan(s) \/ ReadRules(s) \/ Return(s)

\* To a call, anybody else's step means at most another version of a file.
OthersAdd(s) ==
  /\ call'[s].at = call[s].at /\ call'[s].user = call[s].user
  /\ call'[s].bearer = call[s].bearer /\ call'[s].id = call[s].id
  /\ call'[s].open = call[s].open /\ call'[s].granted = call[s].granted
  /\ call[s].during \subseteq call'[s].during /\ call[s].stores \subseteq call'[s].stores
  /\ CallShape(call'[s])
  /\ InFlight(s) => policy' \in call'[s].during /\ agents' \in call'[s].stores

LEMMA PolicyAdds ==
  ASSUME CallInv, NEW pol, PolicyBecomes(pol), agents' = agents
  PROVE  DOMAIN call' = Servers /\ \A s \in Servers : OthersAdd(s)
  BY DEF CallInv, CallOK, CallShape, PolicyBecomes, OthersAdd, InFlight

LEMMA AgentsAdd ==
  ASSUME CallInv, NEW recs, AgentsBecome(recs), policy' = policy
  PROVE  DOMAIN call' = Servers /\ \A s \in Servers : OthersAdd(s)
  BY DEF CallInv, CallOK, CallShape, AgentsBecome, OthersAdd, InFlight

LEMMA NobodyAdds ==
  ASSUME CallInv, call' = call, policy' = policy, agents' = agents
  PROVE  DOMAIN call' = Servers /\ \A s \in Servers : OthersAdd(s)
<1>1. ASSUME NEW s \in Servers PROVE OthersAdd(s)
  <2>1. CallShape(call[s]) /\ call'[s] = call[s] /\ (InFlight(s) => policy' \in call'[s].during /\ agents' \in call'[s].stores)
    BY DEF CallInv, CallOK
  <2>2. CallShape(call'[s])
    BY <2>1
  <2>. QED
    BY <2>1, <2>2 DEF OthersAdd
<1>. QED
  BY <1>1 DEF CallInv

\* A runner's step is about its own call and no file.
LEMMA OwnIsLocal ==
  ASSUME CallInv, NEW t \in Servers, Own(t)
  PROVE  /\ DOMAIN call' = Servers
         /\ UNCHANGED <<policy, agents, mode>>
         /\ \A s \in Servers \ {t} : call'[s] = call[s]
  BY DEF CallInv, Own, Receive, Identify, ReadDefault, ReadBan, ReadRules, Reads, Return

\* A step is one runner's own, and to everybody else's call somebody else's.
LEMMA OwnOrOthers ==
  ASSUME CallInv, [Next]_vars
  PROVE  /\ DOMAIN call' = Servers /\ mode' = mode
         /\ \A s \in Servers : Own(s) \/ OthersAdd(s)
<1>1. ASSUME NEW t \in Servers, Own(t)
      PROVE  DOMAIN call' = Servers /\ mode' = mode /\ \A s \in Servers \ {t} : OthersAdd(s)
  BY <1>1, OwnIsLocal DEF CallInv, CallOK, CallShape, OthersAdd, InFlight
<1>2. ASSUME NEW pol, PutPolicy(pol) \/ EditByHand(pol) \/ \E sub \in Subs : ResetBlocks(sub)
      PROVE  DOMAIN call' = Servers /\ mode' = mode /\ \A s \in Servers : OthersAdd(s)
  BY <1>2, PolicyAdds DEF PutPolicy, EditByHand, ResetBlocks
<1>3. ASSUME NEW sub, ResetRefused(sub)
      PROVE  DOMAIN call' = Servers /\ mode' = mode /\ \A s \in Servers : OthersAdd(s)
  BY <1>3, NobodyAdds DEF ResetRefused
<1>4. CASE ResetRevokes
  BY <1>4, AgentsAdd, NobodyAdds DEF ResetRevokes
<1>5. ASSUME NEW back, NEW pol, RestoreAgents(back, pol)
      PROVE  DOMAIN call' = Servers /\ mode' = mode /\ \A s \in Servers : OthersAdd(s)
  BY <1>5, AgentsAdd, NobodyAdds DEF RestoreAgents
<1>6. CASE RestoreRules
  BY <1>6, PolicyAdds, NobodyAdds DEF RestoreRules
<1>7. ASSUME NEW recs, NEW token, Write(recs, token)
      PROVE  DOMAIN call' = Servers /\ mode' = mode /\ \A s \in Servers : OthersAdd(s)
  BY <1>7, AgentsAdd DEF Write
<1>8. CASE UNCHANGED vars
  BY <1>8, NobodyAdds DEF vars
<1>. QED
  BY <1>1, <1>2, <1>3, <1>4, <1>5, <1>6, <1>7, <1>8
     DEF Next, Own, Create, Regenerate, Rerole, Revoke

\* What the steps of a decision leave alone.
Same(c, d) ==
  CallShape(d) /\ d.user = c.user /\ d.bearer = c.bearer /\ d.during = c.during /\ d.stores = c.stores

LEMMA AnsweredIs ==
  ASSUME NEW c, CallShape(c), NEW granted
  PROVE  /\ Same(c, Answered(c, granted)) /\ Answered(c, granted).id = c.id
         /\ Answered(c, granted).at = "answered" /\ Answered(c, granted).granted = granted
  BY DEF CallShape, Same, Answered

LEMMA AfterDefaultIs ==
  ASSUME NEW c, CallShape(c), NEW pol
  PROVE  /\ Same(c, AfterDefault(c, pol)) /\ AfterDefault(c, pol).id = c.id
         /\ AfterDefault(c, pol).at = "opened"
  BY DEF CallShape, Same, AfterDefault

LEMMA AfterBanIs ==
  ASSUME NEW c, CallShape(c), NEW pol
  PROVE  /\ Same(c, AfterBan(c, pol)) /\ AfterBan(c, pol).id = c.id
         /\ \/ Denied(pol, c.id) /\ AfterBan(c, pol).at = "answered" /\ AfterBan(c, pol).granted = {}
            \/ ~Denied(pol, c.id) /\ AfterBan(c, pol).at = "unbanned"
<1>1. CASE Denied(pol, c.id)
  BY <1>1, AnsweredIs DEF AfterBan
<1>2. CASE ~Denied(pol, c.id)
  BY <1>2 DEF CallShape, Same, AfterBan
<1>. QED
  BY <1>1, <1>2

\* Only the mode "required" applies the rules, and to somebody.
NamedAs(s, c, d, id) ==
  /\ Same(c, d) /\ d.id = id
  /\ \/ mode[s] # "required" /\ d.at = "answered"
     \/ mode[s] = "required" /\ id = None /\ d.at = "answered" /\ d.granted = {}
     \/ mode[s] = "required" /\ id # None /\ d.at = "named"

LEMMA NamedIs ==
  ASSUME NEW s, NEW c, CallShape(c), NEW id
  PROVE  NamedAs(s, c, Named(s, c, id), id)
<1> USE DEF NamedAs
<1> DEFINE known == [c EXCEPT !.id = id]
<1>1. CallShape(known) /\ Same(c, known) /\ known.id = id
  BY DEF CallShape, Same
<1>2. CASE mode[s] # "required"
  <2>1. Named(s, c, id) = Answered(known, Tools)
    BY <1>2 DEF Named
  <2>2. Same(known, Answered(known, Tools)) /\ Answered(known, Tools).id = known.id
        /\ Answered(known, Tools).at = "answered" /\ Answered(known, Tools).granted = Tools
    BY <1>1, AnsweredIs
  <2>. QED
    BY <1>1, <1>2, <2>1, <2>2 DEF Same
<1>3. CASE mode[s] = "required" /\ id = None
  <2>1. Named(s, c, id) = Answered(known, {})
    BY <1>3 DEF Named
  <2>2. Same(known, Answered(known, {})) /\ Answered(known, {}).id = known.id
        /\ Answered(known, {}).at = "answered" /\ Answered(known, {}).granted = {}
    BY <1>1, AnsweredIs
  <2>. QED
    BY <1>1, <1>3, <2>1, <2>2 DEF Same
<1>4. CASE mode[s] = "required" /\ id # None
  <2>1. Named(s, c, id) = [known EXCEPT !.at = "named"]
    BY <1>4 DEF Named
  <2>. QED
    BY <1>1, <1>4, <2>1 DEF Same, CallShape
<1>. QED
  BY <1>2, <1>3, <1>4

\* A read shows the file as it is, or no rules where there is none.
LEMMA LoadedIs ==
  ASSUME FilesInv, NEW s \in Servers
  PROVE  Loaded(s) = IF policy = Missing THEN Empty ELSE policy
  BY DEF FilesInv, Loaded

\* What a read makes of the call: no tools if the file cannot be used.
LEMMA ReadIs ==
  ASSUME CallInv, FilesInv, NEW s \in Servers
  PROVE  /\ ReadDefault(s) =>
              call[s].at = "named"
              /\ call'[s] = IF Loaded(s) = Unusable THEN Answered(call[s], {})
                            ELSE AfterDefault(call[s], Loaded(s))
         /\ ReadBan(s) =>
              call[s].at = "opened"
              /\ call'[s] = IF Loaded(s) = Unusable THEN Answered(call[s], {})
                            ELSE AfterBan(call[s], Loaded(s))
         /\ ReadRules(s) =>
              call[s].at = "unbanned" /\ \E granted : call'[s] = Answered(call[s], granted)
  BY DEF CallInv, ReadDefault, ReadBan, ReadRules, Reads

LEMMA IdentifiedIs ==
  ASSUME CallInv, NEW s \in Servers, Identify(s)
  PROVE  NamedAs(s, call[s], call'[s], Identity(s, call[s])) /\ InFlight(s)
<1>1. call'[s] = Named(s, call[s], Identity(s, call[s])) /\ InFlight(s) /\ CallShape(call[s])
  BY DEF Identify, InFlight, CallInv, CallOK
<1>2. NamedAs(s, call[s], Named(s, call[s], Identity(s, call[s])), Identity(s, call[s]))
  BY <1>1, NamedIs
<1>. QED
  BY <1>1, <1>2

LEMMA CallInit == Init => CallInv
<1>1. CallShape(NoCall)
  BY DEF CallShape, NoCall
<1>. QED
  BY <1>1 DEF Init, CallInv, CallOK, NoCall, InFlight, Stages

LEMMA CallStep == CallInv /\ FilesInv /\ [Next]_vars => CallInv'
<1> SUFFICES ASSUME CallInv, FilesInv, [Next]_vars PROVE CallInv'
  OBVIOUS
<1>1. DOMAIN call' = Servers /\ \A s \in Servers : Own(s) \/ OthersAdd(s)
  BY OwnOrOthers
<1>2. ASSUME NEW s \in Servers, OthersAdd(s) PROVE CallOK(s)'
  BY <1>2 DEF CallInv, CallOK, OthersAdd, InFlight
<1>3. ASSUME NEW s \in Servers, Own(s) PROVE CallOK(s)'
  <2>1. UNCHANGED <<policy, agents>> /\ CallShape(call[s]) /\ DOMAIN call = Servers
    BY <1>3, OwnIsLocal DEF CallInv, CallOK
  <2>2. ASSUME NEW user, NEW bearer, Receive(s, user, bearer) PROVE CallOK(s)'
    <3>1. call'[s] = [NoCall EXCEPT !.at = "gated", !.user = user, !.bearer = bearer,
                                    !.during = {policy}, !.stores = {agents}]
      BY <2>1, <2>2 DEF Receive
    <3>. QED
      BY <2>1, <3>1 DEF NoCall, CallOK, CallShape, InFlight, Stages
  <2>3. ASSUME NEW c, Same(call[s], c), c.at \in Stages, call'[s] = c, InFlight(s)
        PROVE  CallOK(s)'
    BY <2>1, <2>3 DEF CallInv, CallOK, Same
  <2>4. CASE Identify(s)
    BY <2>3, <2>4, IdentifiedIs DEF NamedAs, Stages
  <2>5. CASE ReadDefault(s) \/ ReadBan(s) \/ ReadRules(s)
    BY <2>1, <2>3, <2>5, ReadIs, AnsweredIs, AfterDefaultIs, AfterBanIs DEF InFlight, Stages
  <2>6. CASE Return(s)
    BY <2>1, <2>6 DEF Return, NoCall, CallOK, CallShape, InFlight, Stages
  <2>. QED
    BY <1>3, <2>2, <2>4, <2>5, <2>6 DEF Own
<1>. QED
  BY <1>1, <1>2, <1>3 DEF CallInv

LEMMA CallsAreWellFormed == Spec => [](FilesInv /\ CallInv)
  BY FilesInit, FilesStep, CallInit, CallStep, PTL DEF Spec

-----------------------------------------------------------------------------
(***************************************************************************)
(* A ban                                                                   *)
(***************************************************************************)

\* Whoever came past the reading of the ban was not banned by what was read.
Unbanned(s) ==
  call[s].at = "unbanned" \/ (Decided(s) /\ call[s].id # None /\ call[s].granted # {})
    => \E pol \in call[s].during : ~Bans(pol, call[s].id)

BanInv == \A s \in Servers : Unbanned(s)

LEMMA BanStep == FilesInv /\ CallInv /\ BanInv /\ [Next]_vars => BanInv'
<1> SUFFICES ASSUME FilesInv, CallInv, BanInv, [Next]_vars, NEW s \in Servers
             PROVE  Unbanned(s)'
  BY DEF BanInv
<1>0. mode' = mode /\ CallShape(call[s]) /\ DOMAIN call = Servers
  BY OwnOrOthers DEF CallInv, CallOK
<1>1. CASE OthersAdd(s)
  BY <1>0, <1>1 DEF BanInv, Unbanned, OthersAdd, Decided
<1>2. ASSUME NEW user, NEW bearer, Receive(s, user, bearer) PROVE Unbanned(s)'
  BY <1>0, <1>2 DEF Receive, NoCall, Unbanned, Decided
<1>3. CASE Identify(s)
  BY <1>0, <1>3, IdentifiedIs DEF NamedAs, Unbanned, Decided
<1>4. CASE ReadDefault(s)
  BY <1>0, <1>4, ReadIs, AnsweredIs, AfterDefaultIs DEF Unbanned, Decided
<1>5. CASE ReadBan(s)
  <2>1. CASE Loaded(s) = Unusable
    BY <1>0, <1>5, <2>1, ReadIs, AnsweredIs DEF Unbanned, Decided
  <2>2. CASE Loaded(s) # Unusable
    <3>1. call'[s] = AfterBan(call[s], Loaded(s))
      BY <1>5, <2>2, ReadIs
    <3>2. CASE Denied(Loaded(s), call[s].id)
      BY <1>0, <3>1, <3>2, AfterBanIs DEF Unbanned, Decided
    <3>3. CASE ~Denied(Loaded(s), call[s].id)
      <4>1. policy \in call[s].during
        BY <1>5, ReadIs DEF CallInv, CallOK, InFlight
      <4>2. ~Bans(policy, call[s].id)
        BY <2>2, <3>3, LoadedIs DEF Bans
      <4>. QED
        BY <1>0, <3>1, <4>1, <4>2, AfterBanIs DEF Unbanned, Same
    <3>. QED
      BY <3>2, <3>3
  <2>. QED
    BY <2>1, <2>2
<1>6. CASE ReadRules(s)
  BY <1>0, <1>6, ReadIs, AnsweredIs DEF BanInv, Unbanned, Same
<1>7. CASE Return(s)
  BY <1>0, <1>7 DEF Return, NoCall, Unbanned, Decided
<1>. QED
  BY <1>1, <1>2, <1>3, <1>4, <1>5, <1>6, <1>7, OwnOrOthers DEF Own

\* A caller whom every policy of the call's duration bans is given no tool,
\* whatever the rules say, whoever writes them, and whichever of them the three
\* reads of allowed_tools saw.
THEOREM BansHold == Spec => []BannedIsRefused
<1>1. Init => BanInv
  BY DEF Init, NoCall, BanInv, Unbanned, Decided
<1>2. BanInv => BannedIsRefused
  BY DEF BanInv, Unbanned, BannedIsRefused
<1>. QED
  BY <1>1, <1>2, BanStep, CallsAreWellFormed, PTL DEF Spec

-----------------------------------------------------------------------------
(***************************************************************************)
(* A decision                                                              *)
(***************************************************************************)

\* A call that nobody wrote a policy during is decided by the file as it is.
QuietCallsAreDecidedByTheFile ==
  \A s \in Servers :
    Decided(s) /\ call[s].id # None /\ call[s].during = {policy} =>
      call[s].granted = AnswerOf(policy, policy, policy, call[s].id, s)

\* What was read so far is what some version of the file says.
Opened(s) ==
  \E pol \in call[s].during :
    Shown(pol) # Unusable /\ call[s].open = Shown(pol).open
NotBanned(s) ==
  \E pol \in call[s].during :
    Shown(pol) # Unusable /\ ~Denied(Shown(pol), call[s].id)
Dated(s) ==
  /\ call[s].at \in {"opened", "unbanned"} => Opened(s)
  /\ call[s].at = "unbanned" => NotBanned(s)
  /\ Decided(s) /\ call[s].id # None =>
       \E first, second, third \in call[s].during :
         call[s].granted = AnswerOf(first, second, third, call[s].id, s)

DecisionInv == \A s \in Servers : Dated(s)

LEMMA RulesReadIs ==
  ASSUME CallInv, FilesInv, NEW s \in Servers, ReadRules(s)
  PROVE  /\ call[s].at = "unbanned"
         /\ call'[s] = Answered(call[s],
              IF Loaded(s) = Unusable THEN {}
              ELSE Granted(call[s].open, Loaded(s), call[s].id, s))
  BY DEF CallInv, ReadRules, Reads

LEMMA OpenIs ==
  ASSUME NEW c, CallShape(c), NEW pol
  PROVE  AfterDefault(c, pol).open = pol.open
  BY DEF CallShape, AfterDefault

LEMMA UnbannedKeepsOpen ==
  ASSUME NEW c, CallShape(c), NEW pol, ~Denied(pol, c.id)
  PROVE  AfterBan(c, pol).open = c.open
  BY DEF CallShape, AfterBan

\* A file that cannot be used ends the decision with no tools.
LEMMA UnusableAnswers ==
  ASSUME CallInv, FilesInv, NEW s \in Servers, InFlight(s), Loaded(s) = Unusable,
         call'[s] = Answered(call[s], {})
  PROVE  Dated(s)'
<1>1. CallShape(call[s]) /\ policy \in call[s].during
  BY DEF CallInv, CallOK
<1>2. Same(call[s], call'[s]) /\ call'[s].at = "answered" /\ call'[s].granted = {}
  BY <1>1, AnsweredIs
<1>3. AnswerOf(policy, policy, policy, call'[s].id, s) = {}
  BY LoadedIs DEF AnswerOf, Shown
<1>. QED
  BY <1>1, <1>2, <1>3 DEF Dated, Same

LEMMA DecisionStep == FilesInv /\ CallInv /\ DecisionInv /\ [Next]_vars => DecisionInv'
<1> SUFFICES ASSUME FilesInv, CallInv, DecisionInv, [Next]_vars, NEW s \in Servers
             PROVE  Dated(s)'
  BY DEF DecisionInv
<1>0. mode' = mode /\ CallShape(call[s]) /\ DOMAIN call = Servers /\ Dated(s)
  BY OwnOrOthers DEF CallInv, CallOK, DecisionInv
<1>1. CASE OthersAdd(s)
  BY <1>0, <1>1 DEF Dated, Opened, NotBanned, OthersAdd, Decided
<1>2. ASSUME NEW user, NEW bearer, Receive(s, user, bearer) PROVE Dated(s)'
  BY <1>0, <1>2 DEF Receive, NoCall, Dated, Decided
<1>3. CASE Identify(s)
  BY <1>0, <1>3, IdentifiedIs DEF NamedAs, Dated, Decided
<1>4. CASE ReadDefault(s) \/ ReadBan(s) \/ ReadRules(s)
  <2>1. InFlight(s) /\ policy \in call[s].during /\ Loaded(s) = Shown(policy)
    BY <1>4, ReadIs, LoadedIs DEF CallInv, CallOK, InFlight, Shown
  <2>2. CASE Loaded(s) = Unusable
    BY <1>4, <2>1, <2>2, ReadIs, RulesReadIs, UnusableAnswers
  <2>3. CASE ReadDefault(s) /\ Loaded(s) # Unusable
    <3>1. call'[s] = AfterDefault(call[s], Loaded(s))
      BY <2>3, ReadIs
    <3>2. Same(call[s], call'[s]) /\ call'[s].at = "opened" /\ call'[s].open = Loaded(s).open
      BY <1>0, <3>1, AfterDefaultIs, OpenIs
    <3>. QED
      BY <2>1, <2>3, <3>2 DEF Dated, Opened, Same, Decided
  <2>4. CASE ReadBan(s) /\ Loaded(s) # Unusable
    <3>1. call[s].at = "opened" /\ call'[s] = AfterBan(call[s], Loaded(s))
      BY <2>4, ReadIs
    <3>2. CASE Denied(Loaded(s), call[s].id)
      <4>1. /\ Same(call[s], call'[s]) /\ call'[s].id = call[s].id
            /\ call'[s].at = "answered" /\ call'[s].granted = {}
        BY <1>0, <3>1, <3>2, AfterBanIs
      <4>2. AnswerOf(policy, policy, policy, call[s].id, s) = {}
        BY <2>1, <3>2 DEF AnswerOf
      <4>. QED
        BY <2>1, <4>1, <4>2 DEF Dated, Same
    <3>3. CASE ~Denied(Loaded(s), call[s].id)
      <4>1. /\ Same(call[s], call'[s]) /\ call'[s].id = call[s].id
            /\ call'[s].at = "unbanned" /\ call'[s].open = call[s].open
        BY <1>0, <3>1, <3>3, AfterBanIs, UnbannedKeepsOpen
      <4>2. Opened(s)
        BY <1>0, <3>1 DEF Dated
      <4>. QED
        BY <2>1, <2>4, <3>3, <4>1, <4>2 DEF Dated, Opened, NotBanned, Same, Decided
    <3>. QED
      BY <3>2, <3>3
  <2>5. CASE ReadRules(s) /\ Loaded(s) # Unusable
    <3>1. /\ call[s].at = "unbanned"
          /\ call'[s] = Answered(call[s], Granted(call[s].open, Loaded(s), call[s].id, s))
      BY <2>5, RulesReadIs
    <3>2. /\ Same(call[s], call'[s]) /\ call'[s].id = call[s].id /\ call'[s].at = "answered"
          /\ call'[s].granted = Granted(call[s].open, Loaded(s), call[s].id, s)
      BY <1>0, <3>1, AnsweredIs
    <3>3. PICK first \in call[s].during :
            Shown(first) # Unusable /\ call[s].open = Shown(first).open
      BY <1>0, <3>1 DEF Dated, Opened
    <3>4. PICK second \in call[s].during :
            Shown(second) # Unusable /\ ~Denied(Shown(second), call[s].id)
      BY <1>0, <3>1 DEF Dated, NotBanned
    <3>5. call'[s].granted = AnswerOf(first, second, policy, call[s].id, s)
      BY <2>1, <2>5, <3>2, <3>3, <3>4 DEF AnswerOf
    <3>. QED
      BY <2>1, <3>2, <3>5 DEF Dated, Same
  <2>. QED
    BY <1>4, <2>2, <2>3, <2>4, <2>5
<1>5. CASE Return(s)
  BY <1>0, <1>5 DEF Return, NoCall, Dated, Decided
<1>. QED
  BY <1>1, <1>2, <1>3, <1>4, <1>5, OwnOrOthers DEF Own

LEMMA DecisionsAreDated == Spec => [](FilesInv /\ CallInv /\ DecisionInv)
<1>1. Init => DecisionInv
  BY DEF Init, NoCall, DecisionInv, Dated, Decided
<1>. QED
  BY <1>1, DecisionStep, CallsAreWellFormed, PTL DEF Spec

\* The runners' copies of the policy file never outlive it: what allowed_tools
\* answers is made of a default, a ban and rules that were in the file while the
\* call was under way, however often it was written, broken or removed meanwhile.
THEOREM DecisionsAreOfTheirTime == Spec => []AnswersAreOfTheirTime
<1>1. DecisionInv => AnswersAreOfTheirTime
  BY DEF DecisionInv, Dated, AnswersAreOfTheirTime
<1>. QED
  BY <1>1, DecisionsAreDated, PTL

\* The torn reads matter only to a call that meets a write: any other call gets
\* the answer that allowed_tools would compute from the file in one go.
THEOREM UndisturbedDecisionsAreWhole == Spec => []QuietCallsAreDecidedByTheFile
<1>1. DecisionInv => QuietCallsAreDecidedByTheFile
  BY DEF DecisionInv, Dated, QuietCallsAreDecidedByTheFile
<1>. QED
  BY <1>1, DecisionsAreDated, PTL
-----------------------------------------------------------------------------
(***************************************************************************)
(* Who calls                                                               *)
(***************************************************************************)

\* From _resolve_identity on, a call is its user token's, if it came with one,
\* and gets tools as somebody or not at all.
Proven(s) ==
  /\ call[s].at \notin {"idle", "gated"} /\ mode[s] # "off" =>
       /\ call[s].user = Broken => call[s].id = None
       /\ call[s].user \in People => call[s].id = call[s].user
  /\ call[s].at \in {"named", "opened", "unbanned"} => call[s].id # None
  /\ Decided(s) /\ call[s].granted # {} => call[s].id # None

CallerInv == \A s \in Servers : Proven(s)

LEMMA CallerStep == FilesInv /\ CallInv /\ CallerInv /\ [Next]_vars => CallerInv'
<1> SUFFICES ASSUME FilesInv, CallInv, CallerInv, [Next]_vars, NEW s \in Servers
             PROVE  Proven(s)'
  BY DEF CallerInv
<1>0. mode' = mode /\ CallShape(call[s]) /\ DOMAIN call = Servers
  BY OwnOrOthers DEF CallInv, CallOK
<1>1. CASE OthersAdd(s)
  BY <1>0, <1>1 DEF CallerInv, Proven, OthersAdd, Decided
<1>2. ASSUME NEW user, NEW bearer, Receive(s, user, bearer) PROVE Proven(s)'
  BY <1>0, <1>2 DEF Receive, NoCall, Proven, Decided
<1>3. CASE Identify(s)
  <2> DEFINE id == Identity(s, call[s])
  <2>1. NamedAs(s, call[s], call'[s], id)
    BY <1>3, IdentifiedIs
  <2>2. mode[s] # "off" => /\ call[s].user = Broken => id = None
                           /\ call[s].user \in People => id = call[s].user
    BY Distinct DEF Identity
  <2> HIDE DEF id
  <2>. QED
    BY <1>0, <2>1, <2>2 DEF NamedAs, Proven, Decided, Same
<1>4. CASE ReadDefault(s) \/ ReadBan(s) \/ ReadRules(s)
  BY <1>0, <1>4, ReadIs, AnsweredIs, AfterDefaultIs, AfterBanIs
     DEF CallerInv, Proven, Decided, Same
<1>5. CASE Return(s)
  BY <1>0, <1>5 DEF Return, NoCall, Proven, Decided
<1>. QED
  BY <1>1, <1>2, <1>3, <1>4, <1>5, OwnOrOthers DEF Own

\* A runner that requires a user gives tools to a known caller only; a user
\* token decides alone, and a broken one is not made up for by an agent's
\* token or the machine's identity.
THEOREM CallersAreKnown == Spec => []GrantsNameTheirCaller
<1>1. Init => CallerInv
  BY DEF Init, NoCall, CallerInv, Proven, Decided
<1>2. CallerInv => GrantsNameTheirCaller
  BY DEF CallerInv, Proven, Decided, GrantsNameTheirCaller
<1>. QED
  BY <1>1, <1>2, CallerStep, CallsAreWellFormed, PTL DEF Spec

-----------------------------------------------------------------------------
(***************************************************************************)
(* Agents                                                                  *)
(***************************************************************************)

\* identify: an agent is found by a record of its token.
LEMMA AgentOfIs ==
  ASSUME NEW recs \in [Agents -> AgentRecord \cup {None}], NEW token,
         AgentOf(recs, token) # None
  PROVE  LET id == AgentOf(recs, token)
         IN  recs[id.sub] = [token |-> token, role |-> id.role]
<1> DEFINE hits == {a \in Agents : recs[a] # None /\ recs[a].token = token}
           a == CHOOSE h \in hits : TRUE
<1>1. hits # {} /\ AgentOf(recs, token) = [sub |-> a, email |-> None, name |-> None, role |-> recs[a].role, by |-> "agent"]
  BY DEF AgentOf
<1>2. a \in Agents /\ recs[a] # None /\ recs[a].token = token
  BY <1>1
<1>3. recs[a] = [token |-> token, role |-> recs[a].role]
  BY <1>2 DEF AgentRecord
<1> HIDE DEF a
<1>. QED
  BY <1>1, <1>3

AgentCurrent(s) ==
  call[s].id # None /\ call[s].id.by = "agent" =>
    \E recs \in call[s].stores :
      recs[call[s].id.sub] = [token |-> call[s].bearer, role |-> call[s].id.role]

LEMMA AgentStep == FilesInv /\ CallInv /\ AgentsAreCurrent /\ [Next]_vars => AgentsAreCurrent'
<1> SUFFICES ASSUME FilesInv, CallInv, AgentsAreCurrent, [Next]_vars, NEW s \in Servers
             PROVE  AgentCurrent(s)'
  BY DEF AgentsAreCurrent, AgentCurrent
<1>0. CallShape(call[s]) /\ DOMAIN call = Servers /\ AgentCurrent(s)
  BY DEF CallInv, CallOK, AgentsAreCurrent, AgentCurrent
<1>1. CASE OthersAdd(s)
  BY <1>0, <1>1 DEF AgentCurrent, OthersAdd
<1>2. ASSUME NEW user, NEW bearer, Receive(s, user, bearer) PROVE AgentCurrent(s)'
  BY <1>0, <1>2 DEF Receive, NoCall, AgentCurrent
<1>3. CASE Identify(s)
  <2> DEFINE id == Identity(s, call[s])
             known == AgentOf(Records(s), call[s].bearer)
  <2>1. NamedAs(s, call[s], call'[s], id) /\ agents \in call[s].stores
    BY <1>3, IdentifiedIs DEF CallInv, CallOK
  <2>2. Records(s) = agents
    BY DEF Records, FilesInv
  <2>3. id # None /\ id.by = "agent" => id = known
    BY Provenance DEF Identity
  <2>4. known # None => agents[known.sub] = [token |-> call[s].bearer, role |-> known.role]
    BY <2>2, AgentOfIs DEF FilesInv
  <2> HIDE DEF id, known
  <2>. QED
    BY <2>1, <2>3, <2>4 DEF NamedAs, AgentCurrent, Same
<1>4. CASE ReadDefault(s) \/ ReadBan(s) \/ ReadRules(s)
  BY <1>0, <1>4, ReadIs, AnsweredIs, AfterDefaultIs, AfterBanIs DEF AgentCurrent, Same
<1>5. CASE Return(s)
  BY <1>0, <1>5 DEF Return, NoCall, AgentCurrent
<1>. QED
  BY <1>1, <1>2, <1>3, <1>4, <1>5, OwnOrOthers DEF Own

\* No call is decided for an agent by a token that was revoked or replaced, or
\* under a role that was changed, before the call arrived.
THEOREM AgentsCountAsTheyAre == Spec => []AgentsAreCurrent
<1>1. Init => AgentsAreCurrent
  BY DEF Init, NoCall, AgentsAreCurrent
<1>. QED
  BY <1>1, AgentStep, CallsAreWellFormed, PTL DEF Spec
=============================================================================
