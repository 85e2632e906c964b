--------------------------- MODULE AccessControl ---------------------------
(***************************************************************************)
(* Who may use what.  Every runner is a process of its own and decides each *)
(* call from two files the manager (or a person with an editor) writes: the *)
(* access rules, runtime/identity_policy.json (app/policy.py), and the      *)
(* agent identities, runtime/agent_identities.json (app/agent_identity.py). *)
(* A decision reads the first three times and the second twice; the        *)
(* manager writes them between any two of these reads.                      *)
(*                                                                         *)
(* A runner keeps what it read last, keyed by the file's mtime and size.  A *)
(* copy whose key is not the file's is never looked at again, so it is None *)
(* here: a write empties the runners' copies.  The manager's own copies are *)
(* left out: each of its handlers below reads the files afresh.             *)
(***************************************************************************)
EXTENDS FiniteSets, Integers, Sequences, Functions, TLC

CONSTANTS
  Servers,       \* the runners
  MachineOf,     \* [Servers -> identities or None]: machine_identity
  Tools,         \* the tools a runner advertises
  Subs,          \* the ids a rule can be written for
  Agents,        \* the ids an agent identity can be issued for
  Roles,         \* the roles of agents
  People,        \* the identities a user token can prove
  Policies,      \* the policies the dialog may save
  Handmade,      \* what an editor may leave in the file besides: save_policy
                 \* would refuse it, load_policy reads it
  Archives,      \* the policies that backups hold: saved ones
  MaxWrites,     \* bound: how often the policy file is written
  MaxTokens,     \* bound: how many agent tokens are issued
  None, All, Broken, Unusable, Missing

ASSUME Sets ==
  /\ Agents \subseteq Subs /\ {p.sub : p \in People} \subseteq Subs
  /\ Archives \subseteq Policies
ASSUME Bounds == MaxWrites \in Nat /\ MaxTokens \in Nat \ {0}
ASSUME Distinct == {None, Broken, Unusable, Missing} \cap (People \cup Policies \cup Handmade) = {}
ASSUME Provenance ==
  /\ \A p \in People : p.by # "agent"
  /\ \A s \in Servers : MachineOf[s] # None => MachineOf[s].by # "agent"

VARIABLES
  mode,      \* [Servers -> {"off", "optional", "required"}], read when a runner starts
  policy,    \* the policy file: a policy, Unusable or Missing
  rules,     \* [Servers -> the policy a runner keeps for the file as it is, or None]
  agents,    \* the agent file: [Agents -> [token, role] or None]
  names,     \* [Servers -> the agents a runner keeps for the file as it is, or None]
  env,       \* MCP_AGENT_IDENTITIES is set: the agents cannot be written
  call,      \* [Servers -> the call the runner is deciding]
  reset,     \* the manager's DELETE /api/identities/{sub}/reset, or its restore
  writes, issued   \* how often the policy was written, the last token issued

vars == <<mode, policy, rules, agents, names, env, call, reset, writes, issued>>

---------------------------------------------------------------------------
\* The rules.  A policy is [users, roles, open, match, shape]: an entry (or
\* None) per id and per role, a default that lets everybody in, what an entry may
\* be found by besides its id, and whether save_policy accepts the object.  An
\* entry is [deny, email, name, instances], instances being All, None or a
\* function from some runners to sets of tools.

Empty == [users |-> [s \in Subs |-> None], roles |-> [r \in Roles |-> None],
          open |-> FALSE, match |-> {}, shape |-> TRUE]

Ban == [deny |-> TRUE, email |-> None, name |-> None, instances |-> None]

Hits(pol, field, id) ==
  IF field \in pol.match /\ id[field] # None
  THEN {s \in Subs : pol.users[s] # None /\ pol.users[s][field] = id[field]} ELSE {}

\* The personal entry: by id, else by an e-mail, else by a name, that one entry
\* alone gives.
UserEntry(pol, id) ==
  LET fields == SelectSeq(<<"email", "name">>, LAMBDA f : Cardinality(Hits(pol, f, id)) = 1)
  IN  IF pol.users[id.sub] # None THEN pol.users[id.sub]
      ELSE IF fields = <<>> THEN None
      ELSE pol.users[CHOOSE s \in Hits(pol, Head(fields), id) : TRUE]

\* The rules of the role, if the identity has one; the personal entry goes on
\* top of it, per runner where both list runners.
RoleEntry(pol, id) == IF id.role = None THEN None ELSE pol.roles[id.role]

IsDict(instances) == instances \notin {None, All}

Merged(base, extra) ==
  [extra EXCEPT !.instances =
     IF IsDict(base.instances) /\ IsDict(extra.instances)
     THEN extra.instances @@ base.instances
     ELSE IF extra.instances = None THEN base.instances ELSE extra.instances]

\* is_explicitly_denied.
Denied(pol, id) ==
  id # None /\ UserEntry(pol, id) # None /\ UserEntry(pol, id).deny

\* rules_for.
RulesFor(pol, id) ==
  IF id = None \/ Denied(pol, id) THEN None
  ELSE LET entry == UserEntry(pol, id)
           base  == RoleEntry(pol, id)
       IN  IF entry = None THEN base
           ELSE IF base = None THEN entry ELSE Merged(base, entry)

\* What a call may use once its three reads are done: the default was read
\* from one policy, the ban from a second, the rules from a third.
Granted(open, pol, id, s) ==
  LET found == RulesFor(pol, id)
  IN  IF found = None THEN (IF open THEN Tools ELSE {})
      ELSE IF found.instances = All THEN Tools
      ELSE IF IsDict(found.instances) /\ s \in DOMAIN found.instances
      THEN found.instances[s] ELSE {}

Bans(pol, id) == pol \notin {Missing, Unusable} /\ Denied(pol, id)

---------------------------------------------------------------------------
\* Who calls.  A request carries a user token that proves somebody, a broken
\* one or none, and a bearer credential: 0 is the shared MCP token, anything
\* else the number of an agent token.

NoCall == [at |-> "idle", user |-> None, bearer |-> 0, id |-> None,
           open |-> FALSE, granted |-> {}, during |-> {}, stores |-> {}]

\* The agents a runner sees: its copy of the file if that is the file's.
Records(s) == IF names[s] # None THEN names[s] ELSE agents

AgentOf(recs, token) ==
  LET hits == {a \in Agents : recs[a] # None /\ recs[a].token = token}
  IN  IF hits = {} THEN None
      ELSE LET a == CHOOSE h \in hits : TRUE
           IN  [sub |-> a, email |-> None, name |-> None, role |-> recs[a].role, by |-> "agent"]

\* Fault: a broken user token counts as none.
IdentityOfTheBroken(s, c) ==
  LET known == AgentOf(Records(s), c.bearer)
  IN  IF mode[s] = "off" THEN None
      ELSE IF c.user \in People THEN c.user
      ELSE IF known # None THEN known ELSE MachineOf[s]

\* signed user token > agent identity > machine identity; a broken user
\* token is nobody.
Identity(s, c) ==
  LET known == AgentOf(Records(s), c.bearer)
  IN  IF mode[s] = "off" \/ c.user = Broken THEN None
      ELSE IF c.user \in People THEN c.user
      ELSE IF known # None THEN known ELSE MachineOf[s]

Answered(c, granted) == [c EXCEPT !.at = "answered", !.granted = granted]

\* What the call is after _resolve_identity: only the mode "required" asks
\* for somebody and applies the rules.
Named(s, c, id) ==
  LET known == [c EXCEPT !.id = id]
  IN  IF mode[s] # "required" THEN Answered(known, Tools)
      ELSE IF id = None THEN Answered(known, {})
      ELSE [known EXCEPT !.at = "named"]

NoReset == [at |-> "idle", sub |-> None, rules |-> None]

Init ==
  /\ mode \in [Servers -> {"off", "optional", "required"}]
  /\ policy = Missing
  /\ rules = [s \in Servers |-> None]
  /\ names = [s \in Servers |-> None]
  /\ env \in BOOLEAN
  /\ IF env THEN \E a \in Agents, r \in Roles :
                   agents = [b \in Agents |->
                     IF b = a THEN [token |-> 1, role |-> r] ELSE None]
            ELSE agents = [a \in Agents |-> None]
  /\ issued = IF env THEN 1 ELSE 0
  /\ call = [s \in Servers |-> NoCall]
  /\ reset = NoReset
  /\ writes = 0

\* The bearer gate in front of a runner: the shared token or any agent's.
Receive(s, user, bearer) ==
  /\ call[s].at = "idle"
  /\ bearer = 0 \/ AgentOf(Records(s), bearer) # None
  /\ names' = [names EXCEPT ![s] = Records(s)]
  /\ call' = [call EXCEPT ![s] =
       [NoCall EXCEPT !.at = "gated", !.user = user, !.bearer = bearer,
                      !.during = {policy}, !.stores = {agents}]]
  /\ UNCHANGED <<mode, policy, rules, agents, env, reset, writes, issued>>

\* handle_list_tools and handle_call_tool establish the caller.
Identify(s) ==
  /\ call[s].at = "gated"
  /\ names' = [names EXCEPT ![s] = Records(s)]
  /\ call' = [call EXCEPT ![s] = Named(s, @, Identity(s, @))]
  /\ UNCHANGED <<mode, policy, rules, agents, env, reset, writes, issued>>

\* load_policy: the copy while it is the file's; a missing file is no rules;
\* a file that cannot be used denies the call.
Loaded(s) == IF policy = Missing THEN Empty
             ELSE IF rules[s] # None THEN rules[s] ELSE policy

Kept(s) == IF policy \in {Missing, Unusable} THEN None ELSE Loaded(s)

Reads(s, at, Next(_, _)) ==
  /\ call[s].at = at
  /\ rules' = [rules EXCEPT ![s] = Kept(s)]
  /\ call' = [call EXCEPT ![s] = IF Loaded(s) = Unusable THEN Answered(@, {})
                                 ELSE Next(@, Loaded(s))]
  /\ UNCHANGED <<mode, policy, agents, names, env, reset, writes, issued>>

AfterDefault(c, pol) == [c EXCEPT !.at = "opened", !.open = pol.open]

\* Fault: no entry and a ban are the same answer.
AfterBanUnchecked(c, pol) == [c EXCEPT !.at = "unbanned"]

AfterBan(c, pol) == IF Denied(pol, c.id) THEN Answered(c, {})
                    ELSE [c EXCEPT !.at = "unbanned"]

ReadDefault(s) == Reads(s, "named", AfterDefault)
ReadBan(s)     == Reads(s, "opened", AfterBan)
ReadRules(s)   == Reads(s, "unbanned",
                    LAMBDA c, pol : Answered(c, Granted(c.open, pol, c.id, s)))

Return(s) ==
  /\ call[s].at = "answered"
  /\ call' = [call EXCEPT ![s] = NoCall]
  /\ UNCHANGED <<mode, policy, rules, agents, names, env, reset, writes, issued>>

---------------------------------------------------------------------------
\* Who writes.  A call in flight lives through every file written meanwhile.

InFlight(s) == call[s].at # "idle"

\* Fault: what was read once is kept.
StillKept(copies) == copies

\* The runners notice: their copies are not the file's any more.
Unkept(copies) == [s \in DOMAIN copies |-> None]

PolicyBecomes(pol) ==
  /\ writes < MaxWrites
  /\ writes' = writes + 1
  /\ policy' = pol
  /\ rules' = Unkept(rules)
  /\ call' = [s \in Servers |-> IF InFlight(s)
                THEN [call[s] EXCEPT !.during = @ \cup {pol}] ELSE call[s]]

AgentsBecome(recs) ==
  /\ agents' = recs
  /\ names' = Unkept(names)
  /\ call' = [s \in Servers |-> IF InFlight(s)
                THEN [call[s] EXCEPT !.stores = @ \cup {recs}] ELSE call[s]]

\* The handlers of the manager run one after the other.
Free == reset.at \notin {"blocked", "restoring"}

\* PUT /api/policy.
PutPolicy(pol) ==
  /\ Free /\ pol \in Policies
  /\ PolicyBecomes(pol)
  /\ UNCHANGED <<mode, agents, names, env, reset, issued>>

\* Somebody edits the file by hand, breaks it or removes it.
EditByHand(pol) ==
  /\ pol # policy
  /\ PolicyBecomes(pol)
  /\ UNCHANGED <<mode, agents, names, env, reset, issued>>

\* DELETE /api/identities/{sub}/reset reads the rules, puts a ban in the place
\* of the entry and saves.  A file that cannot be read, and one save_policy
\* refuses, end it with 422.
Blocked(sub) ==
  [(IF policy = Missing THEN Empty ELSE policy) EXCEPT !.users[sub] = Ban]

Editable == policy # Unusable /\ (policy # Missing => policy.shape)

ResetBlocks(sub) ==
  /\ Free /\ Editable
  /\ PolicyBecomes(Blocked(sub))
  /\ reset' = [NoReset EXCEPT !.at = "blocked", !.sub = sub]
  /\ UNCHANGED <<mode, agents, names, env, issued>>

ResetRefused(sub) ==
  /\ Free /\ ~Editable
  /\ reset' = [NoReset EXCEPT !.at = "refused", !.sub = sub]
  /\ UNCHANGED <<mode, policy, rules, agents, names, env, call, writes, issued>>

Listed(sub) == sub \in Agents /\ agents[sub] # None

Without(sub) == [agents EXCEPT ![sub] = None]

\* ... and then takes the token of an agent of that id, unless the agents
\* come from the environment (409).
ResetRevokes ==
  /\ reset.at = "blocked"
  /\ IF Listed(reset.sub) /\ ~env
     THEN AgentsBecome(Without(reset.sub)) ELSE UNCHANGED <<agents, names, call>>
  /\ reset' = [reset EXCEPT !.at =
                 IF Listed(reset.sub) /\ env THEN "kept" ELSE "ok"]
  /\ UNCHANGED <<mode, policy, rules, env, writes, issued>>

\* The routes of the agent identities; all refuse when the environment has them.
Write(recs, token) ==
  /\ Free /\ ~env
  /\ AgentsBecome(recs)
  /\ issued' = token
  /\ reset' = NoReset
  /\ UNCHANGED <<mode, policy, rules, env, writes>>

Create(a, role) ==
  /\ issued < MaxTokens /\ agents[a] = None
  /\ Write([agents EXCEPT ![a] = [token |-> issued + 1, role |-> role]], issued + 1)

Regenerate(a) ==
  /\ issued < MaxTokens /\ agents[a] # None
  /\ Write([agents EXCEPT ![a].token = issued + 1], issued + 1)

Rerole(a, role) ==
  /\ agents[a] # None
  /\ Write([agents EXCEPT ![a].role = role], issued)

Revoke(a) ==
  /\ agents[a] # None
  /\ Write([agents EXCEPT ![a] = None], issued)

\* A restore brings back agents and then rules; what is there stays.  The
\* archive holds agents of earlier, with the tokens they had, and the rules of
\* some saved policy.
Archived == [token : 1..issued, role : Roles]

Rejoined(back) == [a \in Agents |-> IF agents[a] # None THEN agents[a] ELSE back[a]]

TokensDiffer(recs) ==
  \A a, b \in Agents :
    a # b /\ recs[a] # None /\ recs[b] # None => recs[a].token # recs[b].token

RestoreAgents(back, pol) ==
  /\ Free /\ writes < MaxWrites
  /\ TokensDiffer(Rejoined(back))
  /\ IF env \/ Rejoined(back) = agents THEN UNCHANGED <<agents, names, call>>
     ELSE AgentsBecome(Rejoined(back))
  /\ reset' = [NoReset EXCEPT !.at = "restoring", !.rules = pol]
  /\ UNCHANGED <<mode, policy, rules, env, writes, issued>>

\* The policy with the archived one under it.  A default or a switch stays if
\* the file has one; FALSE stands for a file without it as well, which takes
\* the archived one.  The switch that matches by name is not among those restored.
Restored == {"email"}
Underlaid(own, other) == [k \in DOMAIN own |-> IF own[k] # None THEN own[k] ELSE other[k]]
Switch(own, other) == IF own THEN {TRUE} ELSE {FALSE, other}
Switches(own, other) == {own \cup more : more \in SUBSET (other \cap Restored)}

Joined(pol) ==
  IF policy = Missing THEN {[pol EXCEPT !.match = @ \cap Restored]}
  ELSE {[policy EXCEPT !.users = Underlaid(@, pol.users),
                       !.roles = Underlaid(@, pol.roles),
                       !.open = open, !.match = match] :
          open \in Switch(policy.open, pol.open),
          match \in Switches(policy.match, pol.match)}

\* A file that cannot be read, or that save_policy would refuse, is left alone.
RestoreRules ==
  /\ reset.at = "restoring"
  /\ IF Editable
     THEN \E pol \in Joined(reset.rules) :
            IF pol = policy THEN UNCHANGED <<policy, rules, call, writes>>
            ELSE PolicyBecomes(pol)
     ELSE UNCHANGED <<policy, rules, call, writes>>
  /\ reset' = NoReset
  /\ UNCHANGED <<mode, agents, names, env, issued>>

Next ==
  \/ \E s \in Servers :
       \/ \E user \in People \cup {None, Broken}, bearer \in 0..issued :
            Receive(s, user, bearer)
       \/ Identify(s) \/ ReadDefault(s) \/ ReadBan(s) \/ ReadRules(s) \/ Return(s)
  \/ \E pol \in Policies : PutPolicy(pol)
  \/ \E pol \in Handmade \cup {Unusable, Missing} : EditByHand(pol)
  \/ \E sub \in Subs : ResetBlocks(sub) \/ ResetRefused(sub)
  \/ ResetRevokes
  \/ \E back \in [Agents -> Archived \cup {None}], pol \in Archives :
       RestoreAgents(back, pol)
  \/ RestoreRules
  \/ \E a \in Agents : Regenerate(a) \/ Revoke(a)
  \/ \E a \in Agents, r \in Roles : Create(a, r) \/ Rerole(a, r)

Spec == Init /\ [][Next]_vars

---------------------------------------------------------------------------
\* Every call is somebody's or nobody's, every answer a set of tools, and the
\* copies the runners keep are copies of the files.
TypeOK ==
  /\ env \in BOOLEAN /\ writes \in 0..MaxWrites /\ issued \in 0..MaxTokens
  /\ \A a \in Agents : agents[a] # None =>
       agents[a].token \in 1..issued /\ agents[a].role \in Roles
  /\ \A s \in Servers :
       /\ rules[s] \in {None, policy}
       /\ names[s] \in {None, agents}
       /\ call[s].at \in {"idle", "gated", "named", "opened", "unbanned", "answered"}
       /\ call[s].granted \subseteq Tools
       /\ InFlight(s) => policy \in call[s].during /\ agents \in call[s].stores
  /\ reset.at \in {"idle", "blocked", "ok", "kept", "refused", "restoring"}

Decided(s) == mode[s] = "required" /\ call[s].at = "answered"

\* A ban outranks the role, the default and a match by e-mail or name: a caller whom
\* every policy of the call's duration bans is given no tool, whichever of
\* those policies its three reads saw.
BannedIsRefused ==
  \A s \in Servers :
    Decided(s) /\ call[s].id # None
      /\ (\A pol \in call[s].during : Bans(pol, call[s].id))
    => call[s].granted = {}

\* What a version of the file says when it is read.
Shown(pol) == IF pol = Missing THEN Empty ELSE pol

\* The answer of allowed_tools when its three reads see three versions: the
\* default of the first, the ban of the second, the rules of the third.
AnswerOf(first, second, third, id, s) ==
  IF Unusable \in {Shown(first), Shown(second), Shown(third)} \/ Denied(Shown(second), id)
  THEN {}
  ELSE Granted(Shown(first).open, Shown(third), id, s)

\* A runner's copy of the rules never outlives the file: what allowed_tools answers
\* is made of a default, a ban and rules that the file held while the call was under
\* way, and a read of a file that cannot be used grants nothing.
AnswersAreOfTheirTime ==
  \A s \in Servers :
    Decided(s) /\ call[s].id # None =>
      \E first, second, third \in call[s].during :
        call[s].granted = AnswerOf(first, second, third, call[s].id, s)

\* An agent's token and role count as they are now: no call is decided for an
\* agent by a token that was revoked or replaced, or under a role that was
\* changed, before the call arrived.
AgentsAreCurrent ==
  \A s \in Servers :
    call[s].id # None /\ call[s].id.by = "agent" =>
      \E recs \in call[s].stores :
        recs[call[s].id.sub] = [token |-> call[s].bearer, role |-> call[s].id.role]

\* A runner that requires a user gives tools to a known caller only, and a user
\* token decides alone: a good one whatever stands beside it, a broken one
\* refuses although an agent's or the machine's identity would be at hand.
GrantsNameTheirCaller ==
  \A s \in Servers :
    Decided(s) /\ call[s].granted # {} =>
      /\ call[s].id # None
      /\ call[s].user # Broken
      /\ call[s].user \in People => call[s].id = call[s].user

\* A reset takes away and never gives back: whoever was banned is banned still.
ResetUnblocksNobody ==
  [][\A sub \in Subs : ResetBlocks(sub) =>
       \A id \in People : Bans(policy, id) => Bans(policy', id)]_vars
=============================================================================
