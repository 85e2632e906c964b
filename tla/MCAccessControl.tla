-------------------------- MODULE MCAccessControl --------------------------
(***************************************************************************)
(* One runner with a machine identity, a person with an e-mail address and  *)
(* a role, an agent, and an id ("label") under which a rule was written for *)
(* the person's address, or name.                                           *)
(***************************************************************************)
EXTENDS AccessControl

CONSTANTS x, y, t1, t2, anna, label, bot, mail, called, user, agent

Machines ==
  [s \in Servers |-> [sub |-> bot, email |-> None, name |-> None, role |-> agent, by |-> "machine"]]

Anna == [sub |-> anna, email |-> mail, name |-> called, role |-> user, by |-> "token"]
Known == {Anna}

Entry(instances) == [deny |-> FALSE, email |-> None, name |-> None, instances |-> instances]
OnX(tools) == [s \in {x} |-> tools]

\* The default lets everybody in, anna has one tool.
Relaxed == [Empty EXCEPT !.open = TRUE, !.users[anna] = Entry(OnX({t1}))]

\* Matching by e-mail: the entry "label" bans whoever has the address; the
\* role may use everything.
ByMail == [Empty EXCEPT !.match = {"email"}, !.roles[user] = Entry(All),
             !.users[label] = [Ban EXCEPT !.email = mail]]

\* Role and personal entries, side by side.
Strict == [Empty EXCEPT !.roles[user] = Entry(OnX({t2})),
             !.users[anna] = Entry([s \in {y} |-> {t1}]),
             !.users[bot] = Entry(All)]

\* An editor left something save_policy would refuse.  It matches by either: two
\* entries give the address, so the name decides.
ByName == [Empty EXCEPT !.shape = FALSE, !.match = {"email", "name"}, !.roles[user] = Entry(All),
             !.users[bot] = [Entry(All) EXCEPT !.email = mail],
             !.users[label] = [Ban EXCEPT !.email = mail, !.name = called]]

Saved == {Relaxed, ByMail, Strict}
Edited == {ByName}
Backups == {Relaxed}
=============================================================================
