-------------------------- MODULE PermissionGrants --------------------------
(***************************************************************************)
(* updatePermissions and getPermissions (app/api/groups) for one item, one *)
(* group and one source group: what a manager may write into the row of    *)
(* permissions_granted, how the levels of a row are kept consistent with   *)
(* each other, and whom the group is told it may ask for help against whom *)
(* it may really ask (User.CanRequestHelpTo).  Levels are the indexes of   *)
(* the database enums (db_enums.go).                                       *)
(***************************************************************************)
EXTENDS Integers, FiniteSetsExt

CONSTANTS
  ViewLevels, GrantViewLevels, WatchLevels, EditLevels, \* levels that occur
  GrantingManagers,     \* generated permissions of the managers who call
  EnterTimes,   \* instants of can_enter_from and can_enter_until
  HelpGroups,   \* groups help can be asked to
  AncestorOrigins, \* origins of the rows of the group's ancestors on the item
  NoGroup,      \* NULL
  Unset         \* a field absent from the request

ASSUME GrantsAssumption ==
  /\ ViewLevels \subseteq 1..5 /\ GrantViewLevels \subseteq 1..6
  /\ WatchLevels \subseteq 1..4 /\ EditLevels \subseteq 1..4
  /\ 1 \in ViewLevels \cap GrantViewLevels \cap WatchLevels \cap EditLevels
  /\ EnterTimes \subseteq Nat /\ \E last \in EnterTimes : \A t \in EnterTimes : t <= last
  /\ NoGroup \notin HelpGroups

VARIABLES
  granted,       \* the row of the source group: its permissions
  ancestorHelp,  \* origin -> can_request_help_to of an ancestor's row on the item
  parentHelp,    \* can_request_help_to of an ancestor's row on the parent item
  helpPropagates,\* items_items.request_help_propagation
  itemReach      \* the group sees the item or a parent of it, or the item is a
                 \* root of one of its ancestors

grantVars == <<granted, ancestorHelp, parentHelp, helpPropagates, itemReach>>

-----------------------------------------------------------------------------
(* The enums.                                                              *)

None == 1
Info == 2              \* can_view
Content == 3
Solution == 5
Enter == 2             \* can_grant_view
SolutionWithGrant == 6
AnswerWithGrant == 4   \* can_watch
AllWithGrant == 4      \* can_edit
Never == Max(EnterTimes) \* '9999-12-31 23:59:59'

\* Levels of can_grant_view and can_view stand for each other by index: 'enter'
\* for 'info', and 'solution' also for 'solution_with_grant'.
ViewNeededToGrant(level) == IF level = SolutionWithGrant THEN Solution ELSE level

NoRow == [can_view |-> None, can_grant_view |-> None, can_watch |-> None, can_edit |-> None,
          can_make_session_official |-> FALSE, is_owner |-> FALSE,
          can_enter_from |-> Never, can_enter_until |-> Never, can_request_help_to |-> NoGroup]

Fields == DOMAIN NoRow

GrantsInit ==
  /\ granted = NoRow
  /\ ancestorHelp = [o \in AncestorOrigins |-> NoGroup] /\ parentHelp = NoGroup
  /\ helpPropagates \in BOOLEAN /\ itemReach \in BOOLEAN

-----------------------------------------------------------------------------
(* The validators of updatePermissions, called in the order of the fields: *)
(* `row' is the row as the fields before have changed it.                  *)

MayModifyCanView(m, row, level) ==
  level <= row.can_view \/ level <= m.can_grant_view

MayModifyCanGrantView(m, row, level) ==
  \/ level <= row.can_grant_view
  \/ /\ row.can_view >= ViewNeededToGrant(level)
     /\ level = SolutionWithGrant => m.is_owner
     /\ m.can_grant_view = SolutionWithGrant

MayModifyCanWatch(m, row, level) ==
  \/ level <= row.can_watch
  \/ /\ row.can_view >= Content
     /\ level = AnswerWithGrant => m.is_owner
     /\ m.can_watch = AnswerWithGrant

MayModifyCanEdit(m, row, level) ==
  \/ level <= row.can_edit
  \/ /\ row.can_view >= Content
     /\ level = AllWithGrant => m.is_owner
     /\ m.can_edit = AllWithGrant

MayModifyOfficial(m, row, value) ==
  \/ ~value \/ value = row.can_make_session_official
  \/ row.can_view >= Info /\ m.is_owner

MayModifyIsOwner(m, row, value) == value => row.is_owner \/ m.is_owner

\* Entering is brought forward or prolonged only with can_grant_view >= 'enter'.
MayModifyEnterFrom(m, row, t) == row.can_enter_from <= t \/ m.can_grant_view >= Enter
MayModifyEnterUntil(m, row, t) == row.can_enter_until >= t \/ m.can_grant_view >= Enter

\* The new group is visible to the manager and to the group, or is the one
\* the row has already.
MayModifyHelp(m, row, g) ==
  /\ m.can_grant_view >= Content
  /\ g \in {NoGroup, row.can_request_help_to} \/ g \in m.visible

Replaced(row, request, fields) ==
  [f \in Fields |-> IF f \in fields /\ request[f] # Unset THEN request[f] ELSE row[f]]

\* can_view is validated first, and the validators after it see its new value.
Permitted(m, row, request) ==
  LET seen == Replaced(row, request, {"can_view"})
      Sets(f) == request[f] # Unset
  IN
  /\ Sets("is_owner") => MayModifyIsOwner(m, row, request.is_owner)
  /\ Sets("can_view") => MayModifyCanView(m, row, request.can_view)
  /\ Sets("can_grant_view") => MayModifyCanGrantView(m, seen, request.can_grant_view)
  /\ Sets("can_watch") => MayModifyCanWatch(m, seen, request.can_watch)
  /\ Sets("can_edit") => MayModifyCanEdit(m, seen, request.can_edit)
  /\ Sets("can_make_session_official") =>
       MayModifyOfficial(m, seen, request.can_make_session_official)
  /\ Sets("can_enter_from") => MayModifyEnterFrom(m, row, request.can_enter_from)
  /\ Sets("can_enter_until") => MayModifyEnterUntil(m, row, request.can_enter_until)
  /\ Sets("can_request_help_to") => MayModifyHelp(m, row, request.can_request_help_to)

\* Mutant: the levels of watching and editing are left when can_view goes down.
CorrectGrantViewOnly(row) ==
  IF row.can_view < ViewNeededToGrant(row.can_grant_view)
  THEN [row EXCEPT !.can_grant_view = row.can_view] ELSE row

\* correctPermissionsDataMap: lowers what the new can_view does not support.
correctPermissions(row) ==
  [row EXCEPT
     !.can_grant_view = IF \/ @ = SolutionWithGrant /\ row.can_view # Solution
                           \/ @ < SolutionWithGrant /\ row.can_view < @
                        THEN row.can_view ELSE @,
     !.can_watch = IF row.can_view < Content THEN None ELSE @,
     !.can_edit = IF row.can_view < Content THEN None ELSE @,
     !.can_make_session_official = @ /\ row.can_view >= Info]

\* The group sees the item or one of its parents, or the item is the root
\* activity or skill of one of its ancestors.
ItemOrParentIsVisibleOrRoot == itemReach

\* A request gives one field, or can_view, the field the checks of the others
\* look at, with another.
FieldValues ==
  [can_view |-> ViewLevels, can_grant_view |-> GrantViewLevels, can_watch |-> WatchLevels,
   can_edit |-> EditLevels, can_make_session_official |-> BOOLEAN, is_owner |-> BOOLEAN,
   can_enter_from |-> EnterTimes, can_enter_until |-> EnterTimes,
   can_request_help_to |-> HelpGroups \cup {NoGroup}]

PermissionRequests ==
  UNION {{[f \in Fields |-> IF f = field THEN vw[1] ELSE IF f = "can_view" THEN vw[2] ELSE Unset] :
            vw \in FieldValues[field] \X (ViewLevels \cup {Unset})} : field \in Fields}

\* updatePermissions by a manager of the source group with
\* can_grant_group_access; the row is locked from its reading to its writing.
UpdateGrant(m) ==
  /\ ItemOrParentIsVisibleOrRoot
  /\ \E request \in {r \in PermissionRequests : Permitted(m, granted, r)} :
       /\ Replaced(granted, request, Fields) # granted
       /\ granted' = correctPermissions(Replaced(granted, request, Fields))
  /\ UNCHANGED <<ancestorHelp, parentHelp, helpPropagates, itemReach>>

-----------------------------------------------------------------------------
(* Whom the group may ask for help.                                        *)

\* The rows: their origin, their can_request_help_to, whether they are on the
\* item itself, and whether it is the row this source group gave this group.
HelpRows ==
  {row \in {[origin |-> "group_membership", on_item |-> TRUE, direct |-> TRUE,
             to |-> granted.can_request_help_to],
            [origin |-> "group_membership", on_item |-> FALSE, direct |-> FALSE, to |-> parentHelp]}
           \cup {[origin |-> o, on_item |-> TRUE, direct |-> FALSE, to |-> ancestorHelp[o]] :
                 o \in AncestorOrigins} :
   row.to # NoGroup}

\* GetAncestorsRequestHelpPropagatedQuery: the item, and its parent if the
\* relation propagates.
OnPropagatingItem(row) == row.on_item \/ helpPropagates

\* Mutant: the row that goes into "granted" is left out of "computed".
ShouldBeAddedOnce(row, part) ==
  /\ part # "computed" => row.on_item
  /\ IF row.direct THEN part = "granted" ELSE part \in {row.origin, "computed"}

canRequestHelpToShouldBeAdded(row, part) ==
  /\ part # "computed" => row.on_item
  /\ IF row.direct THEN part \in {"granted", "computed"} ELSE part \in {row.origin, "computed"}

\* getPermissions: the groups listed in a part of its answer.
getCanRequestHelpTo(part) ==
  {row.to : row \in {r \in HelpRows : OnPropagatingItem(r) /\ canRequestHelpToShouldBeAdded(r, part)}}

\* User.CanRequestHelpTo without ownership, for groups none of which is under another.
CanRequestHelpTo(g) == \E row \in HelpRows : OnPropagatingItem(row) /\ row.to = g
HasCanRequestHelpTo == granted.is_owner \/ \E row \in HelpRows : OnPropagatingItem(row)

\* Other managers, item unlocking and the editors of the items.
ChangeAncestorHelp(o, g) ==
  /\ ancestorHelp' = [ancestorHelp EXCEPT ![o] = g]
  /\ UNCHANGED <<granted, parentHelp, helpPropagates, itemReach>>

ChangeParentHelp(g) ==
  /\ parentHelp' = g /\ UNCHANGED <<granted, ancestorHelp, helpPropagates, itemReach>>

-----------------------------------------------------------------------------

GrantsNext ==
  \/ \E m \in GrantingManagers : UpdateGrant(m)
  \/ \E g \in HelpGroups \cup {NoGroup} : \/ \E o \in AncestorOrigins : ChangeAncestorHelp(o, g)
                                          \/ ChangeParentHelp(g)

GrantsSpec == GrantsInit /\ [][GrantsNext]_grantVars

GrantsTypeOK ==
  /\ DOMAIN granted = Fields
  /\ granted.can_view \in 1..5 /\ granted.can_grant_view \in 1..6
  /\ granted.can_watch \in 1..4 /\ granted.can_edit \in 1..4
  /\ granted.can_make_session_official \in BOOLEAN /\ granted.is_owner \in BOOLEAN
  /\ {granted.can_enter_from, granted.can_enter_until} \subseteq EnterTimes
  /\ granted.can_request_help_to \in HelpGroups \cup {NoGroup}
  /\ ancestorHelp \in [AncestorOrigins -> HelpGroups \cup {NoGroup}]
  /\ parentHelp \in HelpGroups \cup {NoGroup} /\ {helpPropagates, itemReach} \subseteq BOOLEAN

\* The levels of a row support each other after any sequence of updates by
\* any managers: nothing is granted beyond what the row lets the group view,
\* watching and editing need the content, official sessions the information
\* (the validators and correctPermissionsDataMap together).
GrantedRowIsConsistent ==
  /\ granted.can_view >= ViewNeededToGrant(granted.can_grant_view)
  /\ granted.can_watch > None \/ granted.can_edit > None => granted.can_view >= Content
  /\ granted.can_make_session_official => granted.can_view >= Info

\* getPermissions lists under "computed" exactly the groups that updateThread
\* lets the group ask (getCanRequestHelpToByOrigin against CanRequestHelpTo),
\* all that its other parts list, and a group with somebody to ask has help.
HelpReportedIsHelpAllowed ==
  /\ getCanRequestHelpTo("computed") = {g \in HelpGroups : CanRequestHelpTo(g)}
  /\ UNION {getCanRequestHelpTo(o) : o \in AncestorOrigins \cup {"granted"}}
       \subseteq getCanRequestHelpTo("computed")
  /\ getCanRequestHelpTo("computed") # {} => HasCanRequestHelpTo

=============================================================================
