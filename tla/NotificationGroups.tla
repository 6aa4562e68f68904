------------------------- MODULE NotificationGroups -------------------------
(***************************************************************************)
(* Notification groups (harness/db/_notification_groups.py), the routes    *)
(* that edit them (web/routes/api.py), and the recipients of an alert's    *)
(* mail (dispatch_alerts of harness/alerts.py). An app lists groups by     *)
(* name or id; nothing keeps that list in step with the groups.            *)
(***************************************************************************)
EXTENDS Naturals, FiniteSets

CONSTANTS
    Group,      \* ids
    NoGroup,
    GroupName,
    SameGroup,  \* each name as COLLATE NOCASE sees it
    Member,     \* valid addresses, in lower case
    Configured  \* what alerts.email.to may name: sets of recipients, or none

ASSUME GroupAssumption ==
    /\ Group \cap GroupName = {} /\ NoGroup \notin Group
    /\ DOMAIN SameGroup = GroupName

VARIABLE groups

Groups == {g \in Group : groups[g] # NoGroup}

GroupsInit == groups = [g \in Group |-> NoGroup]

-----------------------------------------------------------------------------
(* The routes. Addresses without "@" are dropped before they are counted.  *)

Taken(name, g) == \E h \in Groups \ {g} : groups[h].name = name

CreateGroup(g, name, members) ==
    /\ groups[g] = NoGroup
    /\ members # {} /\ ~Taken(name, g)
    /\ groups' = [groups EXCEPT ![g] = [name |-> name, members |-> members]]

(* PUT /api/notification-groups/{g}: what is not given stays.              *)
UpdateGroup(g, name, members) ==
    /\ g \in Groups
    /\ members # {} /\ ~Taken(name, g)
    /\ groups' = [groups EXCEPT ![g] = [name |-> name, members |-> members]]

DeleteGroup(g) ==
    /\ g \in Groups
    /\ groups' = [groups EXCEPT ![g] = NoGroup]

GroupsNext ==
    \E g \in Group :
        \/ \E n \in GroupName, m \in SUBSET Member : CreateGroup(g, n, m) \/ UpdateGroup(g, n, m)
        \/ DeleteGroup(g)

GroupsSpec == GroupsInit /\ [][GroupsNext]_groups

-----------------------------------------------------------------------------
(* The recipients.                                                         *)

(* Mutant: names are compared as they stand.                               *)
MatchesExactly(ident) == {g \in Groups : ident = g \/ ident = groups[g].name}

(* Rows that SELECT finds for an entry of the app's list.                  *)
Matches(ident) ==
    {g \in Groups : ident = g \/
        (ident \in GroupName /\ SameGroup[ident] = SameGroup[groups[g].name])}

(* resolve_emails_for_groups takes one row of each entry, whichever comes  *)
(* first.                                                                  *)
Resolved(listed) ==
    {UNION {groups[pick[i]].members : i \in DOMAIN pick} :
        pick \in {p \in [{i \in listed : Matches(i) # {}} -> Groups] :
                     \A i \in DOMAIN p : p[i] \in Matches(i)}}

(* dispatch_alerts: the configured recipients stand in for nobody. Nothing *)
(* requires the configuration to name any; without them no mail is sent.   *)
Recipients(listed, to) == {IF r = {} THEN to ELSE r : r \in Resolved(listed)}

(* The groups that a list of an app's means, in any spelling; and whether  *)
(* no other group shares the spelling of one.                              *)
Listed(listed) ==
    {g \in Groups : g \in listed \/
        \E n \in listed \cap GroupName : SameGroup[n] = SameGroup[groups[g].name]}
ToldApart(g) ==
    \A h \in Groups \ {g} : SameGroup[groups[h].name] # SameGroup[groups[g].name]

(* What must hold: however groups were renamed, emptied or deleted since   *)
(* the app was written, its alerts reach somebody as long as one of the    *)
(* groups it lists is left in any spelling; every member of such a group   *)
(* if no other one shares that spelling; nobody who is in none of them.    *)
(* If none is left they go to the recipients of the configuration, and to  *)
(* nobody, without an error, if it names none.                             *)
AlertsReachTheirGroups ==
    \A listed \in SUBSET (Group \cup GroupName), to \in Configured :
    \A r \in Recipients(listed, to) :
        /\ Listed(listed) # {} => r # {}
        /\ \A g \in Listed(listed) : ToldApart(g) => groups[g].members \subseteq r
        /\ IF Listed(listed) = {} THEN r = to
           ELSE \A a \in r : \E g \in Listed(listed) : a \in groups[g].members

=============================================================================
