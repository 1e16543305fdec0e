----------------------------- MODULE TowerSetup ------------------------------
(* Floors and units of one tower: the wizard that creates the tower with     *)
(* them (components/super-admin/CreateCommunityModal.tsx), the pages of other *)
(* administrators (app/super-admin/communities/page.tsx), and create_floor,  *)
(* create_unit and delete_floor of communities/service.py.  A definition     *)
(* marked `faulty` is a plausible slip in the next one; Next never uses it.  *)
EXTENDS Naturals, FiniteSets

CONSTANTS
  Tabs,              \* pages open on the community
  Planned,           \* floors the wizard gives the tower
  PerFloor,          \* units the wizard gives a floor
  MaxFloor,          \* bound on floor numbers
  FloorPage,         \* floors the list answers without page_size (20 in the code)
  UnitPage,          \* units the page asks for (100 in the code)
  MaxEvents          \* bound on what the pages are asked to do and on what is lost, together

ASSUME SizesAssumption ==
  /\ {PerFloor, FloorPage, UnitPage, MaxEvents} \subseteq Nat
  /\ Planned \in Nat \ {0} /\ MaxFloor \in Nat /\ Planned <= MaxFloor
ASSUME TabsAssumption == "wizard" \notin Tabs

Numbers == 1..MaxFloor
Units == Numbers \X (1..PerFloor)       \* unit_number is the floor, then two digits
Clients == Tabs \cup {"wizard"}

VARIABLES
  tower,             \* the tower exists
  total,             \* its total_floors
  floors, units,     \* its floors and units
  gone,              \* history: floors deleted
  stale,             \* history: total_floors was written from a stale read
  ask,               \* client -> floor -> state of its create_floor
  seen,              \* client -> floor -> total_floors its transaction read
  unitAsk,           \* unit -> state of the wizard's create_unit
  wizard,            \* the wizard's fields
  tab,               \* page -> its fields
  jobs, lost         \* how many of each so far

vars == <<tower, total, floors, units, gone, stale, ask, seen, unitAsk, wizard, tab, jobs, lost>>
server == <<tower, total, floors, units, gone, stale>>
calls == <<ask, seen, unitAsk>>

States == {"none", "sent", "checked", "made", "refused"}
Settled == {"none", "made", "refused"}

Init ==
  /\ tower = FALSE /\ total = 0 /\ floors = {} /\ units = {} /\ gone = {} /\ stale = FALSE
  /\ ask = [c \in Clients |-> [f \in Numbers |-> "none"]]
  /\ seen = [c \in Clients |-> [f \in Numbers |-> 0]]
  /\ unitAsk = [u \in Units |-> "none"]
  /\ wizard = [step |-> "form", floor |-> 1, floors |-> {}, units |-> {}]
  /\ tab = [t \in Tabs |-> [job |-> "idle", total |-> 0, list |-> {}, units |-> {}, floor |-> 0,
                            num |-> 0, missed |-> {}]]
  /\ jobs = 0 /\ lost = 0

Event == jobs + lost < MaxEvents
Lose == Event /\ lost' = lost + 1

-----------------------------------------------------------------------------
(* The server                                                                *)

\* create_floor up to its insertion: the tower and the number are read
CheckFloor(c, f) ==
  /\ ask[c][f] = "sent"
  /\ IF f \in floors
     THEN ask' = [ask EXCEPT ![c][f] = "refused"] /\ UNCHANGED seen
     ELSE ask' = [ask EXCEPT ![c][f] = "checked"] /\ seen' = [seen EXCEPT ![c][f] = total]
  /\ UNCHANGED <<server, unitAsk, wizard, tab, jobs, lost>>

\* faulty
LastFloorCounts(c, f) == f

\* tower.total_floors = max(...), written when it changes what was read
Bumped(c, f) == IF f > seen[c][f] THEN f ELSE total

\* the rest of it: the unique constraint, the insertion and the commit
CommitFloor(c, f) ==
  /\ ask[c][f] = "checked"
  /\ IF f \in floors
     THEN /\ ask' = [ask EXCEPT ![c][f] = "refused"]
          /\ UNCHANGED <<total, floors, stale>>
     ELSE /\ ask' = [ask EXCEPT ![c][f] = "made"]
          /\ floors' = floors \cup {f}
          /\ total' = Bumped(c, f)
          /\ stale' = (stale \/ (f > seen[c][f] /\ total # seen[c][f]))
  /\ seen' = [seen EXCEPT ![c][f] = 0]
  /\ UNCHANGED <<tower, units, gone, unitAsk, wizard, tab, jobs, lost>>

\* create_unit
CommitUnit(u) ==
  /\ unitAsk[u] = "sent"
  /\ IF u[1] \in floors /\ u \notin units
     THEN units' = units \cup {u} /\ unitAsk' = [unitAsk EXCEPT ![u] = "made"]
     ELSE unitAsk' = [unitAsk EXCEPT ![u] = "refused"] /\ UNCHANGED units
  /\ UNCHANGED <<tower, total, floors, gone, stale, ask, seen, wizard, tab, jobs, lost>>

\* history: a floor that a page is generating is not made, or not there any more
Missed(p, f) == [p EXCEPT !.missed = IF p.job = "generating" THEN @ \cup {f} ELSE @]

\* a request, or the answer to it, never arrives
LoseFloor(c, f) ==
  /\ ask[c][f] \in {"sent", "made"} /\ Lose
  /\ ask' = [ask EXCEPT ![c][f] = "refused"]
  /\ tab' = [t \in Tabs |->
       IF t = c /\ ask[c][f] = "sent" THEN Missed(tab[t], f) ELSE tab[t]]
  /\ UNCHANGED <<server, seen, unitAsk, wizard, jobs>>

LoseUnit(u) ==
  /\ unitAsk[u] \in {"sent", "made"} /\ Lose
  /\ unitAsk' = [unitAsk EXCEPT ![u] = "refused"]
  /\ UNCHANGED <<server, ask, seen, wizard, tab, jobs>>

Answered(c) == \A f \in Numbers : ask[c][f] \in Settled

-----------------------------------------------------------------------------
(* The wizard                                                                *)

\* handleAddTower; a lost answer leaves a tower the wizard will never name
AddTower ==
  /\ wizard.step = "form" /\ ~tower
  /\ \/ wizard' = [wizard EXCEPT !.step = "floor"] /\ UNCHANGED lost
     \/ wizard' = [wizard EXCEPT !.step = "failed"] /\ Lose
  /\ tower' = TRUE /\ total' = Planned
  /\ UNCHANGED <<floors, units, gone, stale, calls, tab, jobs>>

\* autoCreateFloorsAndUnits: floor after floor
SendFloor ==
  LET f == wizard.floor IN
  /\ wizard.step = "floor"
  /\ ask' = [ask EXCEPT !["wizard"][f] = "sent"]
  /\ wizard' = [wizard EXCEPT !.step = "floorAsked"]
  /\ UNCHANGED <<server, seen, unitAsk, tab, jobs, lost>>

After(w) ==
  IF w.floor = Planned THEN [w EXCEPT !.step = "done"]
  ELSE [w EXCEPT !.step = "floor", !.floor = @ + 1]

\* its units, all at once; a floor that fails is logged and skipped, its units with it
FloorAnswered ==
  LET f == wizard.floor IN
  /\ wizard.step = "floorAsked" /\ ask["wizard"][f] \in {"made", "refused"}
  /\ ask' = [ask EXCEPT !["wizard"][f] = "none"]
  /\ IF ask["wizard"][f] = "made"
     THEN /\ wizard' = [wizard EXCEPT !.step = "unitsAsked", !.floors = @ \cup {f}]
          /\ unitAsk' = [u \in Units |-> IF u[1] = f THEN "sent" ELSE "none"]
     ELSE wizard' = After(wizard) /\ UNCHANGED unitAsk
  /\ UNCHANGED <<server, seen, tab, jobs, lost>>

\* faulty
AwaitFirstUnit ==
  /\ wizard.step = "unitsAsked"
  /\ \E u \in Units : unitAsk[u] \in {"made", "refused"}
  /\ wizard' = After([wizard EXCEPT !.units = @ \cup {u \in Units : unitAsk[u] = "made"}])
  /\ unitAsk' = [u \in Units |-> "none"]
  /\ UNCHANGED <<server, ask, seen, tab, jobs, lost>>

\* Promise.all of the units
UnitsAnswered ==
  /\ wizard.step = "unitsAsked"
  /\ \A u \in Units : unitAsk[u] \in Settled
  /\ wizard' = After([wizard EXCEPT !.units = @ \cup {u \in Units : unitAsk[u] = "made"}])
  /\ unitAsk' = [u \in Units |-> "none"]
  /\ UNCHANGED <<server, ask, seen, tab, jobs, lost>>

-----------------------------------------------------------------------------
(* A page                                                                    *)

Before(u, v) == u[1] < v[1] \/ (u[1] = v[1] /\ u[2] < v[2])
FirstFloors == {f \in floors : Cardinality({g \in floors : g < f}) < FloorPage}
FirstUnits == {u \in units : Cardinality({v \in units : Before(v, u)}) < UnitPage}

\* refreshCommunityDetails: the tower and then its floors, none when they do not load
Read(p) == [p EXCEPT !.total = total, !.list = FirstFloors]

\* also when a hint invalidates the lists (bound: between the page's jobs, none of which
\* looks at the lists again before it ends)
Refresh(t) ==
  /\ tower /\ tab[t].job = "idle"
  /\ \E p \in {Read(tab[t]), [Read(tab[t]) EXCEPT !.list = {}]} :
       p # tab[t] /\ tab' = [tab EXCEPT ![t] = p]
  /\ UNCHANGED <<server, calls, wizard, jobs, lost>>

\* refetchUnits, which nothing waits for
RefreshUnits(t) ==
  /\ tower /\ tab[t].job = "idle" /\ tab[t].units # FirstUnits
  /\ tab' = [tab EXCEPT ![t].units = FirstUnits]
  /\ UNCHANGED <<server, calls, wizard, jobs, lost>>

Job(t) == tower /\ tab[t].job = "idle" /\ Event /\ jobs' = jobs + 1

\* handleGenerateFloorsForTower: as many as the page's tower says, without those on the
\* first page of floors (or on none when it does not load), at once
Generate(t) ==
  /\ Job(t) /\ tab[t].total > 0
  /\ \E existing \in {FirstFloors, {}} :
       ask' = [ask EXCEPT ![t] =
         [f \in Numbers |-> IF f <= tab[t].total /\ f \notin existing THEN "sent" ELSE "none"]]
  /\ tab' = [tab EXCEPT ![t] = [@ EXCEPT !.job = "generating", !.num = tab[t].total]]
  /\ UNCHANGED <<server, seen, unitAsk, wizard, lost>>

\* faulty
GeneratedEarly(t) ==
  /\ tab[t].job = "generating" /\ \E f \in Numbers : ask[t][f] \in {"made", "refused"}
  /\ ask' = [ask EXCEPT ![t] = [f \in Numbers |-> "none"]]
  /\ tab' = [tab EXCEPT ![t] = [Read(@) EXCEPT !.job = "idle", !.num = 0, !.missed = {}]]
  /\ UNCHANGED <<server, seen, unitAsk, wizard, jobs, lost>>

\* Promise.all of the floors, whose failures are only logged
Generated(t) ==
  /\ tab[t].job = "generating" /\ Answered(t)
  /\ ask' = [ask EXCEPT ![t] = [f \in Numbers |-> "none"]]
  /\ tab' = [tab EXCEPT ![t] = [Read(@) EXCEPT !.job = "idle", !.num = 0, !.missed = {}]]
  /\ UNCHANGED <<server, seen, unitAsk, wizard, jobs, lost>>

\* handleOpenAddFloor offers the number after the highest listed; any other may be typed
SaveFloor(t, f) ==
  /\ Job(t)
  /\ ask' = [ask EXCEPT ![t] = [g \in Numbers |-> IF g = f THEN "sent" ELSE "none"]]
  /\ tab' = [tab EXCEPT ![t] = [@ EXCEPT !.job = "saving", !.floor = f]]
  /\ UNCHANGED <<server, seen, unitAsk, wizard, lost>>

FloorSaved(t) ==
  LET f == tab[t].floor IN
  /\ tab[t].job = "saving" /\ Answered(t)
  /\ tab' = [tab EXCEPT ![t] =
       IF ask[t][f] = "made" THEN [Read(@) EXCEPT !.job = "idle", !.floor = 0]
       ELSE [@ EXCEPT !.job = "idle", !.floor = 0]]
  /\ ask' = [ask EXCEPT ![t][f] = "none"]
  /\ UNCHANGED <<server, seen, unitAsk, wizard, jobs, lost>>

\* handleDeleteFloor: refused while the page lists units of the floor
DeleteFloor(t, f) ==
  /\ Job(t) /\ f \in tab[t].list /\ ~\E u \in tab[t].units : u[1] = f
  /\ tab' = [tab EXCEPT ![t] = [@ EXCEPT !.job = "deleting", !.floor = f]]
  /\ UNCHANGED <<server, calls, wizard, lost>>

\* delete_floor: the units go with their floor
FloorDeleted(t) ==
  LET f == tab[t].floor IN
  /\ tab[t].job = "deleting"
  /\ floors' = floors \ {f} /\ units' = {u \in units : u[1] # f} /\ gone' = gone \cup {f}
  /\ tab' = [p \in Tabs |->
       IF p = t THEN [tab[t] EXCEPT !.job = "idle", !.floor = 0]
       ELSE IF f \in floors THEN Missed(tab[p], f) ELSE tab[p]]
  /\ UNCHANGED <<tower, total, stale, calls, wizard, jobs, lost>>

\* handleSaveUnit
SaveUnit(t, u) ==
  /\ Job(t) /\ u[1] \in tab[t].list /\ u[1] \in floors /\ u \notin units
  /\ units' = units \cup {u}
  /\ UNCHANGED <<tower, total, floors, gone, stale, calls, wizard, tab, lost>>

Next ==
  \/ \E c \in Clients, f \in Numbers : CheckFloor(c, f) \/ CommitFloor(c, f) \/ LoseFloor(c, f)
  \/ \E u \in Units : CommitUnit(u) \/ LoseUnit(u)
  \/ AddTower \/ SendFloor \/ FloorAnswered \/ UnitsAnswered
  \/ \E t \in Tabs :
       \/ Refresh(t) \/ RefreshUnits(t) \/ Generate(t) \/ Generated(t)
       \/ FloorSaved(t) \/ FloorDeleted(t)
       \/ \E f \in Numbers : SaveFloor(t, f) \/ DeleteFloor(t, f)
       \/ \E u \in Units : SaveUnit(t, u)

Spec == Init /\ [][Next]_vars

-----------------------------------------------------------------------------
(* Properties                                                                *)

Wizards == [step : {"form", "failed", "floor", "floorAsked", "unitsAsked", "done"},
            floor : 1..Planned, floors : SUBSET Numbers, units : SUBSET Units]
Pages == [job : {"idle", "generating", "saving", "deleting"}, total : 0..MaxFloor,
          list : SUBSET Numbers, units : SUBSET Units, floor : 0..MaxFloor, num : 0..MaxFloor,
          missed : SUBSET Numbers]

\* The variables have the values the code gives them; a unit has its floor.
TypeOK ==
  /\ tower \in BOOLEAN /\ stale \in BOOLEAN /\ total \in 0..MaxFloor
  /\ floors \subseteq Numbers /\ gone \subseteq Numbers
  /\ units \subseteq Units /\ \A u \in units : u[1] \in floors
  /\ ask \in [Clients -> [Numbers -> States]] /\ seen \in [Clients -> [Numbers -> 0..MaxFloor]]
  /\ unitAsk \in [Units -> States]
  /\ wizard \in Wizards
  /\ tab \in [Tabs -> Pages]
  /\ jobs \in 0..MaxEvents /\ lost \in 0..MaxEvents

\* total_floors is bumped up as floors are added (module README): it covers every floor,
\* unless a creation wrote it over one that had raised it since it was read.
TotalCoversFloors == ~stale => \A f \in floors : f <= total

\* A page says it has generated the floors of the tower whatever became of its requests.
\* What it claims too much are the floors whose own request was lost or that were deleted
\* meanwhile: the failure of one, swallowed, costs no other, and none is missing because
\* others created floors at the same time or because the list it started from was short.
GeneratedMeansThere ==
  [][\A t \in Tabs :
       tab[t].job = "generating" /\ tab'[t].job = "idle" =>
         (1..tab[t].num) \ tab[t].missed \subseteq floors']_vars

\* What the wizard counts in its buttons was created, those of a floor deleted since included.
WizardCountsCreated ==
  /\ wizard.floors \subseteq floors \cup gone
  /\ \A u \in wizard.units : u \in units \/ u[1] \in gone
  /\ \A u \in wizard.units : u[1] \in wizard.floors

\* Undisturbed, it counts everything that was planned.
WizardCountsAll ==
  wizard.step = "done" /\ lost = 0 /\ jobs = 0 =>
    wizard.floors = 1..Planned /\ wizard.units = {u \in Units : u[1] <= Planned}

\* The floors and units the wizard counts in its buttons were created, no unit without its
\* floor, and unless a request was lost or a page worked on the tower meanwhile none is
\* left out, although the failure of each is only logged.
WizardCounts == WizardCountsCreated /\ WizardCountsAll

=============================================================================
