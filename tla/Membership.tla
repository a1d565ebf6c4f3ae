----------------------------- MODULE Membership -----------------------------
(***************************************************************************)
(* Members and roles (org.service). Every change is one transaction under  *)
(* the organization's lock, which also takes away what the member may no   *)
(* longer hold (assignment.service, clearIssueAssignments).                *)
(***************************************************************************)
EXTENDS DeskState

\* assertActorCanAssignRole, assertActorCanManageTargetRole: the owner's role
\* is protected, and administrators stay among themselves.
MayGrant(actor, r)  == r # "OWNER" /\ (actor = "OWNER" \/ (actor = "ADMIN" /\ r # "ADMIN"))
MayManage(actor, r) == r \notin {"OWNER", "none"} /\ (actor = "OWNER" \/ (actor = "ADMIN" /\ r # "ADMIN"))

\* The active tickets and all issues of a user go back to nobody.
Holds(u, t) == ticket[t].assignee = u /\ ticket[t].status \in Active
ReleaseTicketsOnly(u) ==          \* mutant: issues are forgotten
  /\ \A t \in Tickets : Holds(u, t) => Writable(t)
  /\ ticket' = [t \in Tickets |-> IF Holds(u, t) THEN Touched([ticket[t] EXCEPT !.assignee = None])
                                  ELSE ticket[t]]
  /\ UNCHANGED issueAssignee
Release(u) ==
  /\ \A t \in Tickets : Holds(u, t) => Writable(t)
  /\ ticket' = [t \in Tickets |-> IF Holds(u, t) THEN Touched([ticket[t] EXCEPT !.assignee = None])
                                  ELSE ticket[t]]
  /\ issueAssignee' = [i \in Issues |-> IF issueAssignee[i] = u THEN None ELSE issueAssignee[i]]

AddMember(a, u, r) ==
  /\ MayGrant(role[a], r) /\ role[u] = "none"
  /\ role' = [role EXCEPT ![u] = r]
  /\ UNCHANGED <<ticket, thread, issueAssignee, request>>

ChangeRole(a, u, r) ==
  /\ MayGrant(role[a], r) /\ MayManage(role[a], role[u])
  /\ role' = [role EXCEPT ![u] = r]
  /\ IF r \in Staff THEN UNCHANGED <<ticket, issueAssignee>> ELSE Release(u)
  /\ UNCHANGED <<thread, request>>

RemoveMember(a, u) ==
  /\ MayManage(role[a], role[u])
  /\ role' = [role EXCEPT ![u] = "none"]
  /\ Release(u)
  /\ UNCHANGED <<thread, request>>

\* The assignment of an issue (updateIssue; its review is in Lab).
AssignIssue(a, i, u) ==
  /\ role[a] \in Managers /\ (u # None => role[u] \in Staff)
  /\ issueAssignee' = [issueAssignee EXCEPT ![i] = u]
  /\ UNCHANGED <<role, ticket, thread, request>>

Members ==
  \/ \E a \in Users, u \in Users, r \in Roles : AddMember(a, u, r) \/ ChangeRole(a, u, r)
  \/ \E a \in Users, u \in Users : RemoveMember(a, u)
  \/ \E a \in Users, i \in Issues, u \in Users \cup {None} : AssignIssue(a, i, u)
=============================================================================
