-------------------------- MODULE TowerSetupProofs ---------------------------
(***************************************************************************)
(* What the wizard and the pages may say of a tower, for any number of     *)
(* pages, floors and units and any length of the lists.  The argument: a   *)
(* floor or a unit that a request has made is there unless its floor was   *)
(* deleted (Made), and a page that generates floors has for each of them   *)
(* either the floor or a request under way (Generating).                   *)
(***************************************************************************)
EXTENDS TowerSetup, TLAPS

Pending == {"sent", "checked"}

\* Before the tower exists there is nothing in it.
NoTower ==
  ~ tower =>
    /\ floors = {} /\ total = 0 /\ jobs = 0 /\ lost = 0 /\ wizard.step = "form"
    /\ \A c \in Clients, f \in Numbers : ask[c][f] = "none" /\ seen[c][f] = 0

\* What a creation has read is covered still, unless a stale one wrote the count.
SeenCovered == ~ stale => \A c \in Clients, f \in Numbers : seen[c][f] <= total

Made ==
  /\ \A c \in Clients, f \in Numbers : ask[c][f] = "made" => f \in floors \cup gone
  /\ \A u \in Units : unitAsk[u] = "made" => u \in units \/ u[1] \in gone

\* The wizard asks for one floor at a time, and then for its units.
OneAtATime ==
  /\ \A f \in Numbers :
       ask["wizard"][f] # "none" => wizard.step = "floorAsked" /\ f = wizard.floor
  /\ \A u \in Units :
       unitAsk[u] # "none" => wizard.step = "unitsAsked" /\ u[1] = wizard.floor
  /\ wizard.step = "unitsAsked" => wizard.floor \in wizard.floors
  /\ wizard.step = "form" => wizard.floor = 1 /\ wizard.floors = {} /\ wizard.units = {}

Generating ==
  \A t \in Tabs : tab[t].job = "generating" =>
    \A f \in 1..tab[t].num : f \in floors \cup tab[t].missed \/ ask[t][f] \in Pending

Deleting == \A t \in Tabs : tab[t].job = "deleting" => tab[t].floor \in Numbers

UnitsUpTo(n) == {u \in Units : u[1] <= n}

\* Left alone, the wizard has made what it counts and nothing else is there.
PagesIdle ==
  /\ gone = {}
  /\ \A t \in Tabs : tab[t].job = "idle" /\ \A f \in Numbers : ask[t][f] = "none"

AskedAlone ==
  wizard.step \in {"floor", "floorAsked"} =>
    /\ wizard.floors = 1..(wizard.floor - 1)
    /\ wizard.units = UnitsUpTo(wizard.floor - 1) /\ units = wizard.units
    /\ floors = wizard.floors
         \cup {f \in Numbers : f = wizard.floor /\ ask["wizard"][f] = "made"}

FilledAlone ==
  wizard.step = "unitsAsked" =>
    /\ wizard.floors = 1..wizard.floor /\ floors = wizard.floors
    /\ wizard.units = UnitsUpTo(wizard.floor - 1)
    /\ units = wizard.units \cup {u \in Units : unitAsk[u] = "made"}
    /\ \A u \in Units : u[1] = wizard.floor => unitAsk[u] \in {"sent", "made"}

Counted ==
  /\ wizard.step # "failed"
  /\ wizard.step = "form" => floors = {} /\ units = {}
  /\ AskedAlone
  /\ wizard.step = "floorAsked" => ask["wizard"][wizard.floor] \in Pending \cup {"made"}
  /\ FilledAlone
  /\ wizard.step = "done" =>
       /\ wizard.floors = 1..Planned /\ floors = wizard.floors
       /\ wizard.units = UnitsUpTo(Planned) /\ units = wizard.units

Alone == jobs = 0 /\ lost = 0 => PagesIdle /\ Counted

IInv ==
  /\ TypeOK
  /\ NoTower
  /\ SeenCovered
  /\ TotalCoversFloors
  /\ Made
  /\ OneAtATime
  /\ WizardCountsCreated
  /\ Generating
  /\ Deleting
  /\ Alone

-----------------------------------------------------------------------------
(* The types                                                                 *)

LEMMA Sizes ==
  /\ PerFloor \in Nat /\ FloorPage \in Nat /\ UnitPage \in Nat /\ MaxEvents \in Nat
  /\ Planned \in Nat /\ Planned > 0 /\ MaxFloor \in Nat /\ Planned <= MaxFloor
  /\ Numbers \subseteq Nat /\ 1 \in Numbers /\ 1..Planned \subseteq Numbers
  /\ \A u \in Units : u[1] \in Numbers
  BY SizesAssumption DEF Numbers, Units

LEMMA EventType ==
  ASSUME TypeOK, Event
  PROVE  jobs + 1 \in 0..MaxEvents /\ lost + 1 \in 0..MaxEvents
  BY Sizes DEF TypeOK, Event

LEMMA InitIInv == Init => IInv
<1> SUFFICES ASSUME Init PROVE IInv
  OBVIOUS
<1>1. wizard \in Wizards
  BY Sizes DEF Init, Wizards
<1>2. \A t \in Tabs : tab[t] \in Pages
  BY Sizes DEF Init, Pages
<1>3. TypeOK
  <2>1. tab \in [Tabs -> Pages]
    BY <1>2 DEF Init
  <2>2. /\ ask \in [Clients -> [Numbers -> States]] /\ unitAsk \in [Units -> States]
        /\ seen \in [Clients -> [Numbers -> 0..MaxFloor]]
    BY Sizes DEF Init, States
  <2>3. total \in 0..MaxFloor /\ jobs \in 0..MaxEvents /\ lost \in 0..MaxEvents
    BY Sizes DEF Init
  <2>5. tower \in BOOLEAN /\ stale \in BOOLEAN
    BY DEF Init
  <2>4. floors \subseteq Numbers /\ gone \subseteq Numbers
        /\ units \subseteq Units /\ \A u \in units : u[1] \in floors
    BY DEF Init
  <2> QED
    BY <1>1, <2>1, <2>2, <2>3, <2>4, <2>5 DEF TypeOK
<1>4. NoTower /\ SeenCovered /\ TotalCoversFloors /\ Made
  BY DEF Init, NoTower, SeenCovered, TotalCoversFloors, Made
<1>5. OneAtATime /\ WizardCountsCreated /\ Generating /\ Deleting
  BY TabsAssumption DEF Init, OneAtATime, WizardCountsCreated, Generating, Deleting, Clients
<1>6. Alone
  BY DEF Init, Alone, PagesIdle, Counted, AskedAlone, FilledAlone, Clients
<1> QED
  BY <1>3, <1>4, <1>5, <1>6 DEF IInv

LEMMA ReadType ==
  ASSUME TypeOK, NEW t \in Tabs
  PROVE  Read(tab[t]) \in Pages /\ Read(tab[t]).job = tab[t].job
  BY DEF TypeOK, Pages, Read, FirstFloors, FirstUnits

\* Tables by client and floor keep their type.
LEMMA TableType ==
  ASSUME NEW S, NEW table \in [Clients -> [Numbers -> S]],
         NEW c \in Clients, NEW f \in Numbers, NEW v \in S
  PROVE  [table EXCEPT ![c][f] = v] \in [Clients -> [Numbers -> S]]
  OBVIOUS

LEMMA MissedType ==
  ASSUME NEW p \in Pages, NEW f \in Numbers
  PROVE  /\ Missed(p, f) \in Pages /\ Missed(p, f).job = p.job /\ Missed(p, f).num = p.num
         /\ Missed(p, f).floor = p.floor
         /\ p.missed \subseteq Missed(p, f).missed
         /\ p.job = "generating" => f \in Missed(p, f).missed
  BY DEF Pages, Missed

LEMMA FloorType ==
  ASSUME TypeOK, NEW c \in Clients, NEW f \in Numbers,
         CheckFloor(c, f) \/ CommitFloor(c, f) \/ LoseFloor(c, f)
  PROVE  TypeOK'
<1>4. /\ \A v \in States : [ask EXCEPT ![c][f] = v] \in [Clients -> [Numbers -> States]]
      /\ \A v \in 0..MaxFloor :
           [seen EXCEPT ![c][f] = v] \in [Clients -> [Numbers -> 0..MaxFloor]]
  BY TableType DEF TypeOK
<1>5. "checked" \in States /\ "made" \in States /\ "refused" \in States
  BY DEF States
<1>1. CASE CheckFloor(c, f)
  <2>1. ask' \in [Clients -> [Numbers -> States]]
    BY <1>1, <1>4, <1>5 DEF CheckFloor, TypeOK
  <2>2. seen' \in [Clients -> [Numbers -> 0..MaxFloor]]
    BY <1>1, <1>4 DEF CheckFloor, TypeOK
  <2> QED
    BY <1>1, <2>1, <2>2 DEF CheckFloor, TypeOK, server
<1>2. CASE CommitFloor(c, f)
  <2>1. f \in 0..MaxFloor /\ 0 \in 0..MaxFloor
    BY Sizes DEF Numbers
  <2>2. total' \in 0..MaxFloor
    BY <1>2, <2>1 DEF CommitFloor, Bumped, TypeOK
  <2>3. ask' \in [Clients -> [Numbers -> States]]
    BY <1>2, <1>4, <1>5 DEF CommitFloor, TypeOK
  <2>4. seen' \in [Clients -> [Numbers -> 0..MaxFloor]]
    BY <1>2, <2>1, <1>4 DEF CommitFloor, TypeOK
  <2>5. floors \subseteq floors' /\ floors' \subseteq Numbers
    BY <1>2 DEF CommitFloor, TypeOK
  <2>6. stale' \in BOOLEAN
    BY <1>2 DEF CommitFloor, TypeOK
  <2> QED
    BY <1>2, <2>2, <2>3, <2>4, <2>5, <2>6 DEF CommitFloor, TypeOK
<1>3. CASE LoseFloor(c, f)
  <2>1. \A t \in Tabs : tab'[t] \in Pages
    BY <1>3, MissedType DEF LoseFloor, TypeOK
  <2>2. tab' \in [Tabs -> Pages]
    BY <1>3, <2>1 DEF LoseFloor
  <2>3. lost' \in 0..MaxEvents
    BY <1>3, EventType DEF LoseFloor, Lose
  <2> QED
    BY <1>3, <2>2, <2>3 DEF LoseFloor, TypeOK, States, server
<1> QED
  BY <1>1, <1>2, <1>3

LEMMA UnitType ==
  ASSUME TypeOK, NEW u \in Units, CommitUnit(u) \/ LoseUnit(u)
  PROVE  TypeOK'
<1>1. CASE CommitUnit(u)
  BY <1>1 DEF CommitUnit, TypeOK, States
<1>2. CASE LoseUnit(u)
  <2>1. lost' \in 0..MaxEvents
    BY <1>2, EventType DEF LoseUnit, Lose
  <2> QED
    BY <1>2, <2>1 DEF LoseUnit, TypeOK, States, server
<1> QED
  BY <1>1, <1>2

LEMMA WizardType ==
  ASSUME TypeOK, AddTower \/ SendFloor \/ FloorAnswered \/ UnitsAnswered
  PROVE  TypeOK'
<1>1. wizard \in Wizards /\ wizard.floor \in Numbers /\ wizard.floor \in Nat
      /\ wizard.floor <= Planned
  BY Sizes DEF TypeOK, Wizards
<1>2. ASSUME NEW w \in Wizards PROVE After(w) \in Wizards
  <2>1. CASE w.floor = Planned
    BY <2>1 DEF After, Wizards
  <2>2. CASE w.floor # Planned
    <3>1. w.floor + 1 \in 1..Planned
      BY <2>2, Sizes DEF Wizards
    <3> QED
      BY <2>2, <3>1 DEF After, Wizards
  <2> QED
    BY <2>1, <2>2
<1>3. "wizard" \in Clients
  BY DEF Clients
<1>4. CASE AddTower
  <2>1. wizard' \in Wizards
    BY <1>1, <1>4 DEF AddTower, Wizards
  <2>2. lost' \in 0..MaxEvents
    BY <1>4, EventType DEF AddTower, Lose, TypeOK
  <2> QED
    BY <1>4, <2>1, <2>2, Sizes DEF AddTower, TypeOK, calls
<1>5. CASE SendFloor
  <2>1. wizard' \in Wizards
    BY <1>1, <1>5 DEF SendFloor, Wizards
  <2> QED
    BY <1>1, <1>3, <1>5, <2>1 DEF SendFloor, TypeOK, States, server
<1>6. CASE FloorAnswered
  <2>1. [wizard EXCEPT !.step = "unitsAsked", !.floors = @ \cup {wizard.floor}] \in Wizards
    BY <1>1 DEF Wizards
  <2>2. wizard' \in Wizards /\ unitAsk' \in [Units -> States]
    BY <1>1, <1>2, <1>6, <2>1 DEF FloorAnswered, TypeOK, States
  <2> QED
    BY <1>1, <1>3, <1>6, <2>2 DEF FloorAnswered, TypeOK, States, server
<1>7. CASE UnitsAnswered
  <2>1. [wizard EXCEPT !.units = @ \cup {u \in Units : unitAsk[u] = "made"}] \in Wizards
    BY <1>1 DEF Wizards
  <2> QED
    BY <1>2, <1>7, <2>1 DEF UnitsAnswered, TypeOK, States, server
<1> QED
  BY <1>4, <1>5, <1>6, <1>7

LEMMA PageType ==
  ASSUME TypeOK, Deleting, NEW t \in Tabs,
         \/ Refresh(t) \/ RefreshUnits(t) \/ Generate(t) \/ Generated(t) \/ FloorSaved(t)
         \/ FloorDeleted(t)
         \/ \E f \in Numbers : SaveFloor(t, f) \/ DeleteFloor(t, f)
         \/ \E u \in Units : SaveUnit(t, u)
  PROVE  TypeOK'
<1>1. /\ tab[t] \in Pages /\ Read(tab[t]) \in Pages /\ t \in Clients /\ 0 \in 0..MaxFloor
      /\ \A f \in Numbers : f \in 0..MaxFloor
  BY ReadType, Sizes DEF TypeOK, Clients, Numbers
<1>2. ASSUME Job(t) PROVE jobs' \in 0..MaxEvents
  BY <1>2, EventType DEF Job
<1>3. CASE Refresh(t)
  <2>1. [Read(tab[t]) EXCEPT !.list = {}] \in Pages
    BY <1>1 DEF Pages
  <2>2. tab' \in [Tabs -> Pages]
    BY <1>1, <1>3, <2>1 DEF Refresh, TypeOK
  <2> QED
    BY <1>3, <2>2 DEF Refresh, TypeOK, server, calls
<1>11. CASE RefreshUnits(t)
  <2>1. [tab[t] EXCEPT !.units = FirstUnits] \in Pages
    BY <1>1 DEF Pages, TypeOK, FirstUnits
  <2>2. tab' \in [Tabs -> Pages]
    BY <1>11, <2>1 DEF RefreshUnits, TypeOK
  <2> QED
    BY <1>11, <2>2 DEF RefreshUnits, TypeOK, server, calls
<1>4. CASE Generate(t)
  <2>1. [tab[t] EXCEPT !.job = "generating", !.num = tab[t].total] \in Pages
    BY <1>1 DEF Pages
  <2>2. tab' \in [Tabs -> Pages]
    BY <1>4, <2>1 DEF Generate, TypeOK
  <2>3. ask' \in [Clients -> [Numbers -> States]]
    BY <1>1, <1>4 DEF Generate, TypeOK, States
  <2> QED
    BY <1>2, <1>4, <2>2, <2>3 DEF Generate, TypeOK, server
<1>5. CASE Generated(t)
  <2>1. [Read(tab[t]) EXCEPT !.job = "idle", !.num = 0, !.missed = {}] \in Pages
    BY <1>1 DEF Pages
  <2>2. tab' \in [Tabs -> Pages]
    BY <1>5, <2>1 DEF Generated, TypeOK
  <2>3. ask' \in [Clients -> [Numbers -> States]]
    BY <1>1, <1>5 DEF Generated, TypeOK, States
  <2> QED
    BY <1>5, <2>2, <2>3 DEF Generated, TypeOK, server
<1>6. ASSUME NEW f \in Numbers, SaveFloor(t, f) PROVE TypeOK'
  <2>1. [tab[t] EXCEPT !.job = "saving", !.floor = f] \in Pages
    BY <1>1 DEF Pages
  <2>2. tab' \in [Tabs -> Pages]
    BY <1>6, <2>1 DEF SaveFloor, TypeOK
  <2>3. ask' \in [Clients -> [Numbers -> States]]
    BY <1>1, <1>6 DEF SaveFloor, TypeOK, States
  <2> QED
    BY <1>2, <1>6, <2>2, <2>3 DEF SaveFloor, TypeOK, server
<1>7. CASE FloorSaved(t)
  <2>1. /\ [Read(tab[t]) EXCEPT !.job = "idle", !.floor = 0] \in Pages
        /\ [tab[t] EXCEPT !.job = "idle", !.floor = 0] \in Pages
    BY <1>1 DEF Pages
  <2>2. tab' \in [Tabs -> Pages]
    BY <1>7, <2>1 DEF FloorSaved, TypeOK
  <2>3. ask' \in [Clients -> [Numbers -> States]]
    BY <1>1, <1>7 DEF FloorSaved, TypeOK, States
  <2> QED
    BY <1>7, <2>2, <2>3 DEF FloorSaved, TypeOK, server
<1>8. ASSUME NEW f \in Numbers, DeleteFloor(t, f) PROVE TypeOK'
  <2>1. [tab[t] EXCEPT !.job = "deleting", !.floor = f] \in Pages
    BY <1>1 DEF Pages
  <2>2. tab' \in [Tabs -> Pages]
    BY <1>8, <2>1 DEF DeleteFloor, TypeOK
  <2> QED
    BY <1>2, <1>8, <2>2 DEF DeleteFloor, TypeOK, server, calls
<1>9. CASE FloorDeleted(t)
  <2>1. \A p \in Tabs : tab'[p] \in Pages
    <3>1. [tab[t] EXCEPT !.job = "idle", !.floor = 0] \in Pages
      BY <1>1 DEF Pages
    <3> QED
      BY <1>9, <3>1, MissedType DEF FloorDeleted, TypeOK, Deleting
  <2>2. tab' \in [Tabs -> Pages]
    BY <1>9, <2>1 DEF FloorDeleted
  <2>3. gone' \subseteq Numbers
    BY <1>9 DEF FloorDeleted, TypeOK, Deleting
  <2>4. /\ floors' \subseteq Numbers /\ units' \subseteq Units
        /\ \A u \in units' : u[1] \in floors'
    BY <1>9 DEF FloorDeleted, TypeOK
  <2> QED
    BY <1>9, <2>2, <2>3, <2>4 DEF FloorDeleted, TypeOK, calls
<1>10. ASSUME NEW u \in Units, SaveUnit(t, u) PROVE TypeOK'
  BY <1>2, <1>10 DEF SaveUnit, TypeOK, calls
<1> QED
  BY <1>3, <1>4, <1>5, <1>6, <1>7, <1>8, <1>9, <1>10, <1>11

-----------------------------------------------------------------------------
(* What the requests for a floor do to the tables                            *)

LEMMA CheckEffect ==
  ASSUME TypeOK, NEW c \in Clients, NEW f \in Numbers, CheckFloor(c, f)
  PROVE  /\ ask[c][f] = "sent"
         /\ \A d \in Clients, g \in Numbers : d # c \/ g # f =>
              ask'[d][g] = ask[d][g] /\ seen'[d][g] = seen[d][g]
         /\ f \in floors => ask'[c][f] = "refused" /\ seen'[c][f] = seen[c][f]
         /\ f \notin floors => ask'[c][f] = "checked" /\ seen'[c][f] = total
         /\ UNCHANGED <<tower, total, floors, units, gone, stale, unitAsk, wizard, tab, jobs, lost>>
<1>1. CASE f \in floors
  BY <1>1 DEF TypeOK, CheckFloor, server
<1>2. CASE f \notin floors
  BY <1>2 DEF TypeOK, CheckFloor, server
<1> QED
  BY <1>1, <1>2

LEMMA CommitEffect ==
  ASSUME TypeOK, NEW c \in Clients, NEW f \in Numbers, CommitFloor(c, f)
  PROVE  /\ ask[c][f] = "checked"
         /\ \A d \in Clients, g \in Numbers : d # c \/ g # f =>
              ask'[d][g] = ask[d][g] /\ seen'[d][g] = seen[d][g]
         /\ seen'[c][f] = 0
         /\ f \in floors => ask'[c][f] = "refused" /\ UNCHANGED <<total, floors, stale>>
         /\ f \notin floors =>
              /\ ask'[c][f] = "made" /\ floors' = floors \cup {f} /\ total' = Bumped(c, f)
              /\ stale' = (stale \/ (f > seen[c][f] /\ total # seen[c][f]))
         /\ UNCHANGED <<tower, units, gone, unitAsk, wizard, tab, jobs, lost>>
<1>1. CASE f \in floors
  BY <1>1 DEF TypeOK, CommitFloor
<1>2. CASE f \notin floors
  BY <1>2 DEF TypeOK, CommitFloor
<1> QED
  BY <1>1, <1>2

LEMMA LoseEffect ==
  ASSUME TypeOK, NEW c \in Clients, NEW f \in Numbers, LoseFloor(c, f)
  PROVE  /\ ask[c][f] # "none" /\ ask'[c][f] = "refused" /\ lost' = lost + 1
         /\ \A d \in Clients, g \in Numbers : d # c \/ g # f => ask'[d][g] = ask[d][g]
         /\ \A t \in Tabs :
              tab'[t] = IF t = c /\ ask[c][f] = "sent" THEN Missed(tab[t], f) ELSE tab[t]
         /\ ask[c][f] \in {"sent", "made"}
         /\ UNCHANGED <<tower, total, floors, units, gone, stale, seen, unitAsk, wizard, jobs>>
  BY DEF TypeOK, LoseFloor, Lose, server

\* The steps of the pages.
PageStep(t) ==
  \/ Refresh(t) \/ RefreshUnits(t) \/ Generate(t) \/ Generated(t)
  \/ FloorSaved(t) \/ FloorDeleted(t)
  \/ \E f \in Numbers : SaveFloor(t, f) \/ DeleteFloor(t, f)
  \/ \E u \in Units : SaveUnit(t, u)

\* A page asks for floors in its own row of the table, and for nothing else.
LEMMA PageRow ==
  ASSUME TypeOK, NEW t \in Tabs, PageStep(t)
  PROVE  /\ \A c \in Clients, f \in Numbers :
              c # t => ask'[c][f] = ask[c][f]
         /\ \A f \in Numbers : ask'[t][f] \in {"none", "sent", ask[t][f]}
         /\ \A p \in Tabs : p # t =>
              \/ tab'[p] = tab[p]
              \/ FloorDeleted(t) /\ tab'[p] = Missed(tab[p], tab[t].floor)
         /\ UNCHANGED <<tower, total, stale, seen, unitAsk, wizard, lost>>
<1>1. CASE Refresh(t)
  BY <1>1 DEF TypeOK, Refresh, server, calls
<1>9. CASE RefreshUnits(t)
  BY <1>9 DEF TypeOK, RefreshUnits, server, calls
<1>2. CASE Generate(t)
  BY <1>2 DEF TypeOK, Generate, server
<1>3. CASE Generated(t)
  BY <1>3 DEF TypeOK, Generated, server
<1>4. CASE FloorSaved(t)
  BY <1>4 DEF TypeOK, FloorSaved, server
<1>5. CASE FloorDeleted(t)
  BY <1>5 DEF TypeOK, FloorDeleted, calls
<1>6. CASE \E f \in Numbers : SaveFloor(t, f)
  BY <1>6 DEF TypeOK, SaveFloor, server
<1>7. CASE \E f \in Numbers : DeleteFloor(t, f)
  BY <1>7 DEF TypeOK, DeleteFloor, server, calls
<1>8. CASE \E u \in Units : SaveUnit(t, u)
  BY <1>8 DEF TypeOK, SaveUnit, calls
<1> QED
  BY <1>1, <1>2, <1>3, <1>4, <1>5, <1>6, <1>7, <1>8, <1>9 DEF PageStep

\* Its own fields are changed by its own steps only.
LEMMA PageMoves ==
  ASSUME TypeOK, NEW t \in Tabs, PageStep(t)
  PROVE  \/ /\ tab'[t].job = tab[t].job
            /\ tab[t].job = "idle" /\ UNCHANGED <<ask, floors, gone>>
            /\ UNCHANGED <<units, jobs>> \/ (units \subseteq units' /\ jobs' = jobs + 1)
         \/ /\ tab'[t].job = "generating" /\ tab'[t].num = tab[t].total
            /\ UNCHANGED <<floors, units, gone>> /\ jobs' = jobs + 1
            /\ \A f \in Numbers : f <= tab[t].total => f \in floors \/ ask'[t][f] = "sent"
         \/ /\ tab'[t].job = "saving" /\ UNCHANGED <<floors, units, gone>> /\ jobs' = jobs + 1
         \/ /\ tab'[t].job = "deleting" /\ UNCHANGED <<floors, units, gone>> /\ jobs' = jobs + 1
            /\ tab'[t].floor \in Numbers
         \/ /\ tab'[t].job = "idle" /\ tab[t].job # "idle" /\ UNCHANGED jobs
            /\ \/ UNCHANGED <<floors, units, gone>>
               \/ FloorDeleted(t)
<1>1. tab[t] \in Pages
  BY DEF TypeOK
<1>10. CASE RefreshUnits(t)
  BY <1>1, <1>10 DEF TypeOK, RefreshUnits, Pages, server, calls
<1>2. CASE Refresh(t)
  <2>1. tab'[t].job = tab[t].job /\ tab[t].job = "idle"
    <3>1. [Read(tab[t]) EXCEPT !.list = {}].job = tab[t].job
      BY <1>1, ReadType DEF Pages
    <3> QED
      BY <1>2, <3>1, ReadType DEF TypeOK, Refresh
  <2>2. UNCHANGED <<ask, floors, gone>> /\ UNCHANGED <<units, jobs>>
    BY <1>2 DEF Refresh, server, calls
  <2> QED
    BY <2>1, <2>2
<1>3. CASE Generate(t)
  <2>1. tab'[t].job = "generating" /\ tab'[t].num = tab[t].total
    BY <1>1, <1>3 DEF TypeOK, Generate, Pages
  <2>2. UNCHANGED <<floors, units, gone>> /\ jobs' = jobs + 1
    BY <1>3 DEF Generate, Job, server
  <2>3. \A f \in Numbers : f <= tab[t].total => f \in floors \/ ask'[t][f] = "sent"
    BY <1>3 DEF TypeOK, Generate, FirstFloors, Clients
  <2> QED
    BY <2>1, <2>2, <2>3
<1>4. CASE Generated(t)
  BY <1>1, <1>4 DEF TypeOK, Generated, Read, Pages, server
<1>5. CASE FloorSaved(t)
  <2>1. CASE ask[t][tab[t].floor] = "made"
    BY <1>1, <1>5, <2>1 DEF TypeOK, FloorSaved, Read, Pages, server
  <2>2. CASE ask[t][tab[t].floor] # "made"
    BY <1>1, <1>5, <2>2 DEF TypeOK, FloorSaved, Pages, server
  <2> QED
    BY <2>1, <2>2
<1>6. CASE FloorDeleted(t)
  BY <1>1, <1>6 DEF TypeOK, FloorDeleted, Pages
<1>7. CASE \E f \in Numbers : SaveFloor(t, f)
  BY <1>1, <1>7 DEF TypeOK, SaveFloor, Job, Pages, server
<1>8. CASE \E f \in Numbers : DeleteFloor(t, f)
  BY <1>1, <1>8 DEF TypeOK, DeleteFloor, Job, Pages, server
<1>9. CASE \E u \in Units : SaveUnit(t, u)
  BY <1>1, <1>9 DEF TypeOK, SaveUnit, Job, calls
<1> QED
  BY <1>2, <1>3, <1>4, <1>5, <1>6, <1>7, <1>8, <1>9, <1>10 DEF PageStep

-----------------------------------------------------------------------------
(* Each part of the invariant is kept by each step                           *)

\* What Next can be.
LEMMA NextCases ==
  ASSUME Next
  PROVE  \/ \E c \in Clients, f \in Numbers :
              CheckFloor(c, f) \/ CommitFloor(c, f) \/ LoseFloor(c, f)
         \/ \E u \in Units : CommitUnit(u) \/ LoseUnit(u)
         \/ AddTower \/ SendFloor \/ FloorAnswered \/ UnitsAnswered
         \/ \E t \in Tabs : PageStep(t)
  BY DEF Next, PageStep

LEMMA StepTypes ==
  ASSUME IInv, [Next]_vars
  PROVE  TypeOK'
<1>1. CASE Next
  <2>1. ASSUME NEW c \in Clients, NEW f \in Numbers,
               CheckFloor(c, f) \/ CommitFloor(c, f) \/ LoseFloor(c, f)
        PROVE  TypeOK'
    BY <2>1, FloorType DEF IInv
  <2>2. ASSUME NEW u \in Units, CommitUnit(u) \/ LoseUnit(u) PROVE TypeOK'
    BY <2>2, UnitType DEF IInv
  <2>3. CASE AddTower \/ SendFloor \/ FloorAnswered \/ UnitsAnswered
    BY <2>3, WizardType DEF IInv
  <2>4. ASSUME NEW t \in Tabs, PageStep(t) PROVE TypeOK'
    BY <2>4, PageType DEF IInv, PageStep
  <2> QED
    BY <1>1, NextCases, <2>1, <2>2, <2>3, <2>4
<1>2. CASE UNCHANGED vars
  BY <1>2 DEF vars, IInv, TypeOK
<1> QED
  BY <1>1, <1>2

\* Without the tower only the wizard's own first request can be answered.
LEMMA TowerFirst ==
  ASSUME IInv, Next
  PROVE  tower'
<1>1. ASSUME NEW c \in Clients, NEW f \in Numbers,
             CheckFloor(c, f) \/ CommitFloor(c, f) \/ LoseFloor(c, f)
      PROVE  tower'
  <2>1. ask[c][f] # "none" /\ UNCHANGED tower
    BY <1>1, CheckEffect, CommitEffect, LoseEffect DEF IInv
  <2> QED
    BY <2>1 DEF IInv, NoTower, TypeOK
<1>2. ASSUME NEW u \in Units, CommitUnit(u) \/ LoseUnit(u) PROVE tower'
  <2>1. unitAsk[u] # "none" /\ UNCHANGED tower
    BY <1>2 DEF CommitUnit, LoseUnit, server
  <2> QED
    BY <2>1 DEF IInv, NoTower, OneAtATime, TypeOK
<1>3. CASE AddTower
  BY <1>3 DEF AddTower
<1>4. CASE SendFloor \/ FloorAnswered \/ UnitsAnswered
  BY <1>4 DEF SendFloor, FloorAnswered, UnitsAnswered, server, IInv, NoTower, TypeOK
<1>5. ASSUME NEW t \in Tabs, PageStep(t) PROVE tower'
  <2>1. UNCHANGED tower
    BY <1>5, PageRow DEF IInv
  <2>2. CASE tab[t].job = "idle"
    BY <1>5, <2>1, <2>2 DEF PageStep, Refresh, RefreshUnits, Generate, Generated, FloorSaved, FloorDeleted,
      SaveFloor, DeleteFloor, SaveUnit, Job, IInv, TypeOK
  <2>3. CASE tab[t].job # "idle"
    BY <2>1, <2>3 DEF IInv, NoTower, Alone, PagesIdle, TypeOK
  <2> QED
    BY <2>2, <2>3
<1> QED
  BY NextCases, <1>1, <1>2, <1>3, <1>4, <1>5

LEMMA NoTowerKept ==
  ASSUME IInv, Next
  PROVE  NoTower'
  BY TowerFirst DEF NoTower

LEMMA SeenKept ==
  ASSUME IInv, Next
  PROVE  SeenCovered' /\ TotalCoversFloors'
<1> USE DEF SeenCovered, TotalCoversFloors
<1>0. /\ total \in Nat /\ Planned \in Nat /\ \A f \in Numbers : f \in Nat
      /\ \A c \in Clients, f \in Numbers : seen[c][f] \in Nat
      /\ floors \subseteq Numbers /\ SeenCovered /\ TotalCoversFloors /\ TypeOK
  BY Sizes DEF IInv, TypeOK, Numbers
<1>1. ASSUME NEW c \in Clients, NEW f \in Numbers, CheckFloor(c, f)
      PROVE  SeenCovered' /\ TotalCoversFloors'
  BY <1>0, <1>1, CheckEffect
<1>2. ASSUME NEW c \in Clients, NEW f \in Numbers, CommitFloor(c, f)
      PROVE  SeenCovered' /\ TotalCoversFloors'
  <2>1. CASE f \in floors
    BY <1>0, <1>2, <2>1, CommitEffect
  <2>2. CASE f \notin floors /\ f > seen[c][f]
    <3>1. /\ total' = f /\ floors' = floors \cup {f} /\ seen'[c][f] = 0
          /\ stale' = (stale \/ total # seen[c][f])
          /\ \A d \in Clients, g \in Numbers : d # c \/ g # f => seen'[d][g] = seen[d][g]
      BY <1>0, <1>2, <2>2, CommitEffect DEF Bumped
    <3>2. SUFFICES ASSUME ~ stale' PROVE SeenCovered' /\ TotalCoversFloors'
      OBVIOUS
    <3>3. ~ stale /\ total = seen[c][f] /\ total < f
      BY <1>0, <2>2, <3>1, <3>2
    <3>4. \A d \in Clients, g \in Numbers : seen'[d][g] <= total'
      BY <1>0, <3>1, <3>3
    <3>5. \A g \in floors' : g <= total'
      BY <1>0, <3>1, <3>3
    <3> QED
      BY <3>4, <3>5
  <2>3. CASE f \notin floors /\ ~ (f > seen[c][f])
    <3>1. /\ total' = total /\ floors' = floors \cup {f} /\ seen'[c][f] = 0 /\ (stale => stale')
          /\ \A d \in Clients, g \in Numbers : d # c \/ g # f => seen'[d][g] = seen[d][g]
      <4>1. total' = total /\ floors' = floors \cup {f} /\ seen'[c][f] = 0
        BY <1>0, <1>2, <2>3, CommitEffect DEF Bumped
      <4>2. stale => stale'
        BY <1>0, <1>2, <2>3, CommitEffect
      <4>3. \A d \in Clients, g \in Numbers : d # c \/ g # f => seen'[d][g] = seen[d][g]
        BY <1>0, <1>2, CommitEffect
      <4> QED
        BY <4>1, <4>2, <4>3
    <3>2. SUFFICES ASSUME ~ stale' PROVE SeenCovered' /\ TotalCoversFloors'
      OBVIOUS
    <3>3. ~ stale /\ f <= total
      BY <1>0, <2>3, <3>1, <3>2
    <3>4. \A d \in Clients, g \in Numbers : seen'[d][g] <= total'
      BY <1>0, <3>1, <3>3
    <3>5. \A g \in floors' : g <= total'
      BY <1>0, <3>1, <3>3
    <3> QED
      BY <3>4, <3>5
  <2> QED
    BY <2>1, <2>2, <2>3
<1>3. ASSUME NEW c \in Clients, NEW f \in Numbers, LoseFloor(c, f)
      PROVE  SeenCovered' /\ TotalCoversFloors'
  BY <1>0, <1>3, LoseEffect
<1>4. ASSUME NEW u \in Units, CommitUnit(u) \/ LoseUnit(u)
      PROVE  SeenCovered' /\ TotalCoversFloors'
  BY <1>0, <1>4 DEF CommitUnit, LoseUnit, server
<1>5. CASE AddTower
  BY <1>0, <1>5 DEF AddTower, IInv, NoTower, TypeOK, calls
<1>6. CASE SendFloor \/ FloorAnswered \/ UnitsAnswered
  BY <1>0, <1>6 DEF SendFloor, FloorAnswered, UnitsAnswered, server
<1>7. ASSUME NEW t \in Tabs, PageStep(t) PROVE SeenCovered' /\ TotalCoversFloors'
  <2>1. floors' \subseteq floors
    <3>1. ASSUME FloorDeleted(t) PROVE floors' \subseteq floors
      BY <3>1 DEF FloorDeleted
    <3> QED
      BY <1>0, <1>7, <3>1, PageMoves
  <2> QED
    BY <1>0, <1>7, <2>1, PageRow
<1> QED
  BY NextCases, <1>1, <1>2, <1>3, <1>4, <1>5, <1>6, <1>7
\* The next floor, or the end.
LEMMA AfterEffect ==
  ASSUME NEW w \in Wizards
  PROVE  /\ After(w).floors = w.floors /\ After(w).units = w.units
         /\ w.floor = Planned => After(w).step = "done" /\ After(w).floor = w.floor
         /\ w.floor # Planned => After(w).step = "floor" /\ After(w).floor = w.floor + 1
<1>1. CASE w.floor = Planned
  BY <1>1 DEF After, Wizards
<1>2. CASE w.floor # Planned
  BY <1>2 DEF After, Wizards
<1> QED
  BY <1>1, <1>2

LEMMA SendEffect ==
  ASSUME TypeOK, SendFloor
  PROVE  /\ wizard.step = "floor" /\ wizard.floor \in Numbers
         /\ ask'["wizard"][wizard.floor] = "sent"
         /\ \A c \in Clients, f \in Numbers : c # "wizard" \/ f # wizard.floor =>
              ask'[c][f] = ask[c][f]
         /\ wizard'.step = "floorAsked" /\ wizard'.floor = wizard.floor
         /\ wizard'.floors = wizard.floors /\ wizard'.units = wizard.units
         /\ UNCHANGED <<tower, total, floors, units, gone, stale, seen, unitAsk, tab, jobs, lost>>
<1>1. wizard \in Wizards /\ wizard.floor \in Numbers
  BY Sizes DEF TypeOK, Wizards
<1>2. wizard.step = "floor" /\ "wizard" \in Clients
  BY DEF SendFloor, Clients
<1>3. /\ wizard'.step = "floorAsked" /\ wizard'.floor = wizard.floor
      /\ wizard'.floors = wizard.floors /\ wizard'.units = wizard.units
  BY <1>1 DEF SendFloor, Wizards
<1>4. /\ ask'["wizard"][wizard.floor] = "sent"
      /\ \A c \in Clients, f \in Numbers : c # "wizard" \/ f # wizard.floor =>
           ask'[c][f] = ask[c][f]
  BY <1>1, <1>2 DEF SendFloor, TypeOK
<1>5. UNCHANGED <<tower, total, floors, units, gone, stale, seen, unitAsk, tab, jobs, lost>>
  BY DEF SendFloor, server
<1> QED
  BY <1>1, <1>2, <1>3, <1>4, <1>5

LEMMA AnswerEffect ==
  ASSUME TypeOK, FloorAnswered
  PROVE  /\ wizard.step = "floorAsked" /\ wizard.floor \in Numbers
         /\ ask["wizard"][wizard.floor] \in {"made", "refused"}
         /\ ask'["wizard"][wizard.floor] = "none"
         /\ \A c \in Clients, f \in Numbers : c # "wizard" \/ f # wizard.floor =>
              ask'[c][f] = ask[c][f]
         /\ ask["wizard"][wizard.floor] = "made" =>
              /\ wizard'.step = "unitsAsked" /\ wizard'.floor = wizard.floor
              /\ wizard'.floors = wizard.floors \cup {wizard.floor}
              /\ wizard'.units = wizard.units
              /\ \A u \in Units : unitAsk'[u] = IF u[1] = wizard.floor THEN "sent" ELSE "none"
         /\ ask["wizard"][wizard.floor] # "made" =>
              wizard' = After(wizard) /\ UNCHANGED unitAsk
         /\ UNCHANGED <<tower, total, floors, units, gone, stale, seen, tab, jobs, lost>>
<1>1. wizard \in Wizards /\ wizard.floor \in Numbers
  BY Sizes DEF TypeOK, Wizards
<1>2. /\ wizard.step = "floorAsked" /\ "wizard" \in Clients
      /\ ask["wizard"][wizard.floor] \in {"made", "refused"}
  BY DEF FloorAnswered, Clients
<1>3. ASSUME ask["wizard"][wizard.floor] = "made"
      PROVE  /\ wizard'.step = "unitsAsked" /\ wizard'.floor = wizard.floor
             /\ wizard'.floors = wizard.floors \cup {wizard.floor}
             /\ wizard'.units = wizard.units
             /\ \A u \in Units : unitAsk'[u] = IF u[1] = wizard.floor THEN "sent" ELSE "none"
  <2>1. /\ wizard' = [wizard EXCEPT !.step = "unitsAsked", !.floors = @ \cup {wizard.floor}]
        /\ unitAsk' = [u \in Units |-> IF u[1] = wizard.floor THEN "sent" ELSE "none"]
    BY <1>3 DEF FloorAnswered
  <2>2. /\ wizard'.step = "unitsAsked" /\ wizard'.floor = wizard.floor
        /\ wizard'.floors = wizard.floors \cup {wizard.floor} /\ wizard'.units = wizard.units
    BY <1>1, <2>1 DEF Wizards
  <2> QED
    BY <2>1, <2>2
<1>4. ask["wizard"][wizard.floor] # "made" => wizard' = After(wizard) /\ UNCHANGED unitAsk
  BY DEF FloorAnswered
<1>5. /\ ask'["wizard"][wizard.floor] = "none"
      /\ \A c \in Clients, f \in Numbers : c # "wizard" \/ f # wizard.floor =>
           ask'[c][f] = ask[c][f]
  BY <1>1, <1>2 DEF FloorAnswered, TypeOK
<1>6. UNCHANGED <<tower, total, floors, units, gone, stale, seen, tab, jobs, lost>>
  BY DEF FloorAnswered, server
<1> QED
  BY <1>1, <1>2, <1>3, <1>4, <1>5, <1>6

LEMMA UnitsEffect ==
  ASSUME TypeOK, UnitsAnswered
  PROVE  /\ wizard.step = "unitsAsked" /\ \A u \in Units : unitAsk[u] \in Settled
         /\ wizard'.step \in {"floor", "done"} /\ wizard'.floors = wizard.floors
         /\ wizard'.units = wizard.units \cup {u \in Units : unitAsk[u] = "made"}
         /\ wizard.floor = Planned => wizard'.step = "done" /\ wizard'.floor = wizard.floor
         /\ wizard.floor # Planned => wizard'.step = "floor" /\ wizard'.floor = wizard.floor + 1
         /\ \A u \in Units : unitAsk'[u] = "none"
         /\ UNCHANGED <<tower, total, floors, units, gone, stale, ask, seen, tab, jobs, lost>>
<1> DEFINE w == [wizard EXCEPT !.units = @ \cup {u \in Units : unitAsk[u] = "made"}]
<1>1. wizard \in Wizards
  BY DEF TypeOK
<1>2. /\ w \in Wizards /\ w.floor = wizard.floor /\ w.floors = wizard.floors
      /\ w.units = wizard.units \cup {u \in Units : unitAsk[u] = "made"}
  BY <1>1 DEF Wizards
<1>3. wizard' = After(w) /\ wizard.step = "unitsAsked" /\ \A u \in Units : unitAsk[u] \in Settled
  BY DEF UnitsAnswered
<1>4. UNCHANGED <<tower, total, floors, units, gone, stale, ask, seen, tab, jobs, lost>>
  BY DEF UnitsAnswered, server
<1>5. \A u \in Units : unitAsk'[u] = "none"
  BY DEF UnitsAnswered
<1> HIDE DEF w
<1> QED
  BY <1>2, <1>3, <1>4, <1>5, AfterEffect

LEMMA AddEffect ==
  ASSUME TypeOK, AddTower
  PROVE  /\ wizard.step = "form" /\ ~ tower /\ wizard'.floor = wizard.floor
         /\ wizard'.floors = wizard.floors /\ wizard'.units = wizard.units
         /\ \/ wizard'.step = "floor" /\ UNCHANGED lost
            \/ wizard'.step = "failed" /\ lost' = lost + 1
         /\ UNCHANGED <<floors, units, gone, stale, ask, seen, unitAsk, tab, jobs>>
<1>1. wizard \in Wizards
  BY DEF TypeOK
<1>2. wizard.step = "form" /\ ~ tower
  BY DEF AddTower
<1>3. UNCHANGED <<floors, units, gone, stale, ask, seen, unitAsk, tab, jobs>>
  BY DEF AddTower, calls
<1>4. CASE wizard' = [wizard EXCEPT !.step = "floor"] /\ UNCHANGED lost
  BY <1>1, <1>2, <1>3, <1>4 DEF Wizards
<1>5. CASE wizard' = [wizard EXCEPT !.step = "failed"] /\ Lose
  BY <1>1, <1>2, <1>3, <1>5 DEF Wizards, Lose
<1> QED
  BY <1>4, <1>5 DEF AddTower

LEMMA UnitEffect ==
  ASSUME TypeOK, NEW u \in Units, CommitUnit(u) \/ LoseUnit(u)
  PROVE  /\ unitAsk[u] # "none" /\ unitAsk'[u] # "none"
         /\ \A v \in Units : v # u => unitAsk'[v] = unitAsk[v]
         /\ unitAsk'[u] = "made" => u \in units'
         /\ \/ /\ CommitUnit(u) /\ UNCHANGED lost /\ unitAsk[u] = "sent"
               /\ IF u[1] \in floors /\ u \notin units
                  THEN units' = units \cup {u} /\ unitAsk'[u] = "made"
                  ELSE unitAsk'[u] = "refused" /\ UNCHANGED units
            \/ LoseUnit(u) /\ lost' = lost + 1 /\ UNCHANGED units
         /\ units \subseteq units'
         /\ UNCHANGED <<tower, total, floors, gone, stale, ask, seen, wizard, tab, jobs>>
<1>1. CASE CommitUnit(u) /\ u[1] \in floors /\ u \notin units
  BY <1>1 DEF TypeOK, CommitUnit
<1>2. CASE CommitUnit(u) /\ ~ (u[1] \in floors /\ u \notin units)
  BY <1>2 DEF TypeOK, CommitUnit
<1>3. CASE LoseUnit(u)
  BY <1>3 DEF TypeOK, LoseUnit, Lose, server
<1> QED
  BY <1>1, <1>2, <1>3
LEMMA MadeKept ==
  ASSUME IInv, Next
  PROVE  Made'
<1> USE DEF Made
<1>0. TypeOK /\ Made /\ "wizard" \in Clients /\ Tabs \subseteq Clients
  BY DEF IInv, Clients
<1>1. ASSUME NEW c \in Clients, NEW f \in Numbers, CheckFloor(c, f) PROVE Made'
  BY <1>0, <1>1, CheckEffect
<1>2. ASSUME NEW c \in Clients, NEW f \in Numbers, CommitFloor(c, f) PROVE Made'
  BY <1>0, <1>2, CommitEffect
<1>3. ASSUME NEW c \in Clients, NEW f \in Numbers, LoseFloor(c, f) PROVE Made'
  BY <1>0, <1>3, LoseEffect
<1>4. ASSUME NEW u \in Units, CommitUnit(u) \/ LoseUnit(u) PROVE Made'
  BY <1>0, <1>4, UnitEffect
<1>5. CASE AddTower
  BY <1>0, <1>5, AddEffect
<1>6. CASE SendFloor
  BY <1>0, <1>6, SendEffect
<1>7. CASE FloorAnswered
  BY <1>0, <1>7, AnswerEffect
<1>8. CASE UnitsAnswered
  BY <1>0, <1>8, UnitsEffect
<1>9. ASSUME NEW t \in Tabs, PageStep(t) PROVE Made'
  <2>1. /\ \A f \in floors \cup gone : f \in floors' \cup gone'
        /\ \A u \in Units : u \in units \/ u[1] \in gone => u \in units' \/ u[1] \in gone'
    <3>1. CASE FloorDeleted(t)
      BY <3>1 DEF FloorDeleted
    <3>2. CASE ~ FloorDeleted(t)
      BY <1>0, <1>9, <3>2, PageMoves
    <3> QED
      BY <3>1, <3>2
  <2> QED
    BY <1>0, <1>9, <2>1, PageRow
<1> QED
  BY NextCases, <1>1, <1>2, <1>3, <1>4, <1>5, <1>6, <1>7, <1>8, <1>9

LEMMA OneKept ==
  ASSUME IInv, Next
  PROVE  OneAtATime'
<1> USE DEF OneAtATime
<1>0. /\ TypeOK /\ OneAtATime /\ "wizard" \in Clients /\ \A t \in Tabs : t # "wizard"
      /\ wizard \in Wizards
  BY TabsAssumption DEF IInv, Clients, TypeOK
<1>1. ASSUME NEW c \in Clients, NEW f \in Numbers, CheckFloor(c, f) PROVE OneAtATime'
  BY <1>0, <1>1, CheckEffect
<1>2. ASSUME NEW c \in Clients, NEW f \in Numbers, CommitFloor(c, f) PROVE OneAtATime'
  BY <1>0, <1>2, CommitEffect
<1>3. ASSUME NEW c \in Clients, NEW f \in Numbers, LoseFloor(c, f) PROVE OneAtATime'
  BY <1>0, <1>3, LoseEffect
<1>4. ASSUME NEW u \in Units, CommitUnit(u) \/ LoseUnit(u) PROVE OneAtATime'
  BY <1>0, <1>4, UnitEffect
<1>5. CASE AddTower
  BY <1>0, <1>5, AddEffect
<1>6. CASE SendFloor
  BY <1>0, <1>6, SendEffect
<1>7. CASE FloorAnswered
  <2>1. \A f \in Numbers : ask'["wizard"][f] = "none"
    BY <1>0, <1>7, AnswerEffect
  <2>2. CASE ask["wizard"][wizard.floor] = "made"
    BY <1>0, <1>7, <2>1, <2>2, AnswerEffect
  <2>3. CASE ask["wizard"][wizard.floor] # "made"
    <3>1. \A u \in Units : unitAsk'[u] = "none"
      BY <1>0, <1>7, <2>3, AnswerEffect
    <3>2. wizard'.step \in {"floor", "done"}
      BY <1>0, <1>7, <2>3, AnswerEffect, AfterEffect
    <3> QED
      BY <2>1, <3>1, <3>2
  <2> QED
    BY <2>2, <2>3
<1>8. CASE UnitsAnswered
  BY <1>0, <1>8, UnitsEffect
<1>9. ASSUME NEW t \in Tabs, PageStep(t) PROVE OneAtATime'
  BY <1>0, <1>9, PageRow
<1> QED
  BY NextCases, <1>1, <1>2, <1>3, <1>4, <1>5, <1>6, <1>7, <1>8, <1>9

LEMMA CountsKept ==
  ASSUME IInv, Next
  PROVE  WizardCountsCreated'
<1> USE DEF WizardCountsCreated
<1>0. /\ TypeOK /\ WizardCountsCreated /\ OneAtATime /\ Made /\ "wizard" \in Clients
      /\ wizard \in Wizards /\ wizard.units \subseteq Units
  BY DEF IInv, Clients, TypeOK, Wizards
<1>1. ASSUME NEW c \in Clients, NEW f \in Numbers, CheckFloor(c, f) PROVE WizardCountsCreated'
  BY <1>0, <1>1, CheckEffect
<1>2. ASSUME NEW c \in Clients, NEW f \in Numbers, CommitFloor(c, f) PROVE WizardCountsCreated'
  BY <1>0, <1>2, CommitEffect
<1>3. ASSUME NEW c \in Clients, NEW f \in Numbers, LoseFloor(c, f) PROVE WizardCountsCreated'
  BY <1>0, <1>3, LoseEffect
<1>4. ASSUME NEW u \in Units, CommitUnit(u) \/ LoseUnit(u) PROVE WizardCountsCreated'
  BY <1>0, <1>4, UnitEffect
<1>5. CASE AddTower
  BY <1>0, <1>5, AddEffect
<1>6. CASE SendFloor
  BY <1>0, <1>6, SendEffect
<1>7. CASE FloorAnswered
  <2>1. CASE ask["wizard"][wizard.floor] = "made"
    <3>1. wizard.floor \in floors \cup gone
      BY <1>0, <1>7, <2>1, AnswerEffect DEF Made
    <3> QED
      BY <1>0, <1>7, <2>1, <3>1, AnswerEffect
  <2>2. CASE ask["wizard"][wizard.floor] # "made"
    <3>1. wizard'.floors = wizard.floors /\ wizard'.units = wizard.units
      BY <1>0, <1>7, <2>2, AnswerEffect, AfterEffect
    <3> QED
      BY <1>0, <1>7, <3>1, AnswerEffect
  <2> QED
    BY <2>1, <2>2
<1>8. CASE UnitsAnswered
  BY <1>0, <1>8, UnitsEffect DEF Made, OneAtATime
<1>9. ASSUME NEW t \in Tabs, PageStep(t) PROVE WizardCountsCreated'
  <2>1. CASE FloorDeleted(t)
    BY <1>0, <2>1 DEF FloorDeleted
  <2>2. CASE ~ FloorDeleted(t)
    BY <1>0, <1>9, <2>2, PageMoves, PageRow
  <2> QED
    BY <2>1, <2>2
<1> QED
  BY NextCases, <1>1, <1>2, <1>3, <1>4, <1>5, <1>6, <1>7, <1>8, <1>9

LEMMA GeneratingKept ==
  ASSUME IInv, Next
  PROVE  Generating'
<1> USE DEF Generating
<1>0. /\ TypeOK /\ Generating /\ \A t \in Tabs : t # "wizard" /\ t \in Clients
      /\ \A t \in Tabs : tab[t] \in Pages /\ 1..tab[t].num \subseteq Numbers
      /\ \A t \in Tabs : \A f \in 1..tab[t].total : f \in Numbers /\ f <= tab[t].total
      /\ Pending \subseteq States /\ "made" \notin Pending /\ Made /\ gone \subseteq Numbers
  BY TabsAssumption, Sizes DEF IInv, Clients, TypeOK, Pages, Numbers, Pending, States
<1>1. ASSUME NEW c \in Clients, NEW f \in Numbers, CheckFloor(c, f) PROVE Generating'
  BY <1>0, <1>1, CheckEffect DEF Pending
<1>2. ASSUME NEW c \in Clients, NEW f \in Numbers, CommitFloor(c, f) PROVE Generating'
  <2>1. floors \subseteq floors' /\ f \in floors' /\ tab' = tab
    BY <1>0, <1>2, CommitEffect
  <2> QED
    BY <1>0, <1>2, <2>1, CommitEffect
<1>3. ASSUME NEW c \in Clients, NEW f \in Numbers, LoseFloor(c, f) PROVE Generating'
  <2>1. ASSUME NEW t \in Tabs
        PROVE  /\ tab'[t].job = tab[t].job /\ tab'[t].num = tab[t].num
               /\ tab[t].missed \subseteq tab'[t].missed
               /\ t = c /\ tab[t].job = "generating" /\ ask[c][f] \in Pending =>
                    f \in tab'[t].missed
    BY <1>0, <1>3, LoseEffect, MissedType DEF Pending
  <2>2. /\ UNCHANGED floors
        /\ \A d \in Clients, g \in Numbers : d # c \/ g # f => ask'[d][g] = ask[d][g]
    BY <1>0, <1>3, LoseEffect
  <2> QED
    BY <1>0, <2>1, <2>2
<1>4. ASSUME NEW u \in Units, CommitUnit(u) \/ LoseUnit(u) PROVE Generating'
  BY <1>0, <1>4, UnitEffect
<1>5. CASE AddTower
  BY <1>0, <1>5, AddEffect
<1>6. CASE SendFloor
  BY <1>0, <1>6, SendEffect
<1>7. CASE FloorAnswered
  BY <1>0, <1>7, AnswerEffect
<1>8. CASE UnitsAnswered
  BY <1>0, <1>8, UnitsEffect
<1>9. ASSUME NEW t \in Tabs, PageStep(t) PROVE Generating'
  <2>1. SUFFICES ASSUME NEW p \in Tabs, tab'[p].job = "generating", NEW f \in 1..tab'[p].num
                 PROVE  f \in floors' \cup tab'[p].missed \/ ask'[p][f] \in Pending
    OBVIOUS
  <2>2. CASE p = t
    <3>1. /\ tab'[t].num = tab[t].total /\ UNCHANGED floors
          /\ \A g \in Numbers : g <= tab[t].total => g \in floors \/ ask'[t][g] = "sent"
      <4>1. ~ FloorDeleted(t)
        BY <1>0, <2>1, <2>2 DEF FloorDeleted, Pages
      <4> QED
        BY <1>0, <1>9, <2>1, <2>2, <4>1, PageMoves
    <3> QED
      BY <1>0, <2>1, <2>2, <3>1 DEF Pending
  <2>3. CASE p # t
    <3>1. CASE FloorDeleted(t)
      <4>1. /\ floors' = floors \ {tab[t].floor} /\ UNCHANGED ask /\ tab[t].floor \in Numbers
            /\ tab'[p] = IF tab[t].floor \in floors THEN Missed(tab[p], tab[t].floor) ELSE tab[p]
        BY <1>0, <2>3, <3>1 DEF FloorDeleted, calls, IInv, Deleting
      <4>2. /\ tab'[p].job = tab[p].job /\ tab'[p].num = tab[p].num
            /\ tab[p].missed \subseteq tab'[p].missed
        BY <1>0, <4>1, MissedType
      <4>3. tab[t].floor \in floors => tab[t].floor \in tab'[p].missed
        BY <1>0, <2>1, <4>1, <4>2, MissedType
      <4>4. f \in floors \cup tab[p].missed \/ ask[p][f] \in Pending
        BY <1>0, <2>1, <4>2
      <4> QED
        BY <4>1, <4>2, <4>3, <4>4
    <3>2. CASE ~ FloorDeleted(t)
      <4>1. tab'[p] = tab[p] /\ floors \subseteq floors'
        BY <1>0, <1>9, <2>3, <3>2, PageRow, PageMoves
      <4>2. ask'[p][f] = ask[p][f]
        BY <1>0, <1>9, <2>1, <2>3, <4>1, PageRow
      <4> QED
        BY <1>0, <2>1, <4>1, <4>2
    <3> QED
      BY <3>1, <3>2
  <2> QED
    BY <2>2, <2>3
<1> QED
  BY NextCases, <1>1, <1>2, <1>3, <1>4, <1>5, <1>6, <1>7, <1>8, <1>9

LEMMA DeletingKept ==
  ASSUME IInv, Next
  PROVE  Deleting'
<1> USE DEF Deleting
<1>0. TypeOK /\ Deleting /\ \A t \in Tabs : tab[t] \in Pages
  BY DEF IInv, TypeOK
<1>1. ASSUME NEW c \in Clients, NEW f \in Numbers, CheckFloor(c, f) \/ CommitFloor(c, f)
      PROVE  Deleting'
  BY <1>0, <1>1, CheckEffect, CommitEffect
<1>2. ASSUME NEW c \in Clients, NEW f \in Numbers, LoseFloor(c, f) PROVE Deleting'
  <2>1. ASSUME NEW t \in Tabs
        PROVE  tab'[t].job = tab[t].job /\ tab'[t].floor = tab[t].floor
    BY <1>0, <1>2, LoseEffect, MissedType
  <2> QED
    BY <1>0, <2>1
<1>3. ASSUME NEW u \in Units, CommitUnit(u) \/ LoseUnit(u) PROVE Deleting'
  BY <1>0, <1>3, UnitEffect
<1>4. CASE AddTower \/ SendFloor \/ FloorAnswered \/ UnitsAnswered
  <2>1. UNCHANGED tab
    BY <1>0, <1>4, AddEffect, SendEffect, AnswerEffect, UnitsEffect
  <2> QED
    BY <1>0, <2>1
<1>5. ASSUME NEW t \in Tabs, PageStep(t) PROVE Deleting'
  <2>1. SUFFICES ASSUME NEW p \in Tabs, tab'[p].job = "deleting"
                 PROVE  tab'[p].floor \in Numbers
    OBVIOUS
  <2>2. CASE p = t
    BY <1>0, <1>5, <2>1, <2>2, PageMoves
  <2>3. CASE p # t
    <3>1. tab'[p].job = tab[p].job /\ tab'[p].floor = tab[p].floor
      <4>1. ASSUME FloorDeleted(t) PROVE tab[t].floor \in Numbers
        BY <1>0, <4>1 DEF FloorDeleted
      <4> QED
        BY <1>0, <1>5, <2>3, <4>1, PageRow, MissedType
    <3> QED
      BY <1>0, <2>1, <3>1
  <2> QED
    BY <2>2, <2>3
<1> QED
  BY NextCases, <1>1, <1>2, <1>3, <1>4, <1>5
LEMMA FirstFloor ==
  /\ 1..0 = {} /\ UnitsUpTo(0) = {}
  /\ \A f \in Nat \ {0} : (1..(f - 1)) \cup {f} = 1..f
  /\ \A f \in Nat \ {0} :
       UnitsUpTo(f) = UnitsUpTo(f - 1) \cup {u \in Units : u[1] = f}
<1>1. \A u \in Units : u[1] \in Nat /\ u[1] > 0
  BY DEF Units, Numbers
<1>2. \A f \in Nat \ {0} :
        UnitsUpTo(f) = UnitsUpTo(f - 1) \cup {u \in Units : u[1] = f}
  BY <1>1 DEF UnitsUpTo
<1> QED
  BY <1>1, <1>2 DEF UnitsUpTo

LEMMA AloneKept ==
  ASSUME IInv, Next, jobs' = 0, lost' = 0
  PROVE  Alone'
<1>0. /\ TypeOK /\ OneAtATime /\ Alone /\ NoTower /\ "wizard" \in Clients
      /\ \A t \in Tabs : t # "wizard" /\ t \in Clients
      /\ wizard \in Wizards /\ wizard.floor \in Numbers /\ wizard.floor \in Nat \ {0}
      /\ jobs \in Nat /\ lost \in Nat /\ Planned \in Nat
  BY TabsAssumption, Sizes DEF IInv, Clients, TypeOK, Wizards, Numbers
<1>1. ASSUME jobs = 0, lost = 0, NEW c \in Clients, NEW f \in Numbers, ask[c][f] \in Pending
      PROVE  /\ c = "wizard" /\ wizard.step = "floorAsked" /\ f = wizard.floor /\ f \notin floors
  <2>1. c = "wizard"
    BY <1>0, <1>1 DEF Alone, PagesIdle, Clients, Pending
  <2>2. wizard.step = "floorAsked" /\ f = wizard.floor
    BY <1>0, <1>1, <2>1 DEF OneAtATime, Pending
  <2>3. floors = 1..(f - 1)
    BY <1>0, <1>1, <2>1, <2>2 DEF Alone, PagesIdle, Counted, AskedAlone, FilledAlone, Pending
  <2> QED
    BY <1>0, <2>1, <2>2, <2>3
<1>2. ASSUME NEW c \in Clients, NEW f \in Numbers, CheckFloor(c, f) PROVE Alone'
  <2>1. jobs = 0 /\ lost = 0 /\ ask[c][f] \in Pending
    BY <1>0, <1>2, CheckEffect DEF Pending
  <2>2. c = "wizard" /\ wizard.step = "floorAsked" /\ f = wizard.floor /\ f \notin floors
    BY <1>1, <2>1
  <2>3. ask'[c][f] = "checked" /\ ask[c][f] = "sent"
    BY <1>0, <1>2, <2>2, CheckEffect
  <2>4. \A g \in Numbers : ask'["wizard"][g] = "made" <=> ask["wizard"][g] = "made"
    BY <1>0, <1>2, <2>2, <2>3, CheckEffect
  <2>5. {g \in Numbers : g = wizard.floor /\ ask'["wizard"][g] = "made"}
          = {g \in Numbers : g = wizard.floor /\ ask["wizard"][g] = "made"}
    BY <2>4
  <2>6. UNCHANGED <<floors, units, gone, unitAsk, wizard, tab>>
    BY <1>0, <1>2, CheckEffect
  <2>7. PagesIdle'
    <3>1. \A t \in Tabs, g \in Numbers : ask'[t][g] = ask[t][g]
      <4>1. \A d \in Clients, g \in Numbers : d # c \/ g # f => ask'[d][g] = ask[d][g]
        BY <1>0, <1>2, CheckEffect
      <4> QED
        BY <1>0, <2>2, <4>1
    <3>2. PagesIdle
      BY <1>0, <2>1 DEF Alone
    <3> QED
      BY <2>6, <3>1, <3>2 DEF PagesIdle
  <2>8. AskedAlone'
    BY <1>0, <2>1, <2>5, <2>6 DEF Alone, Counted, AskedAlone
  <2> QED
    BY <1>0, <2>1, <2>2, <2>3, <2>6, <2>7, <2>8 DEF Alone, Counted, FilledAlone, Pending
<1>3. ASSUME NEW c \in Clients, NEW f \in Numbers, CommitFloor(c, f) PROVE Alone'
  <2>1. jobs = 0 /\ lost = 0 /\ ask[c][f] \in Pending
    BY <1>0, <1>3, CommitEffect DEF Pending
  <2>2. c = "wizard" /\ wizard.step = "floorAsked" /\ f = wizard.floor /\ f \notin floors
    BY <1>1, <2>1
  <2>3. ask'[c][f] = "made" /\ ask[c][f] = "checked" /\ floors' = floors \cup {f}
    BY <1>0, <1>3, <2>2, CommitEffect
  <2>4. UNCHANGED <<units, gone, unitAsk, wizard, tab>>
    BY <1>0, <1>3, CommitEffect
  <2>5. {g \in Numbers : g = wizard.floor /\ ask'["wizard"][g] = "made"} = {f}
    BY <2>2, <2>3
  <2>6. {g \in Numbers : g = wizard.floor /\ ask["wizard"][g] = "made"} = {}
    BY <2>2, <2>3
  <2>7. PagesIdle'
    <3>1. \A t \in Tabs, g \in Numbers : ask'[t][g] = ask[t][g]
      <4>1. \A d \in Clients, g \in Numbers : d # c \/ g # f => ask'[d][g] = ask[d][g]
        BY <1>0, <1>3, CommitEffect
      <4> QED
        BY <1>0, <2>2, <4>1
    <3>2. PagesIdle
      BY <1>0, <2>1 DEF Alone
    <3> QED
      BY <2>4, <3>1, <3>2 DEF PagesIdle
  <2>8. AskedAlone'
    BY <1>0, <2>1, <2>2, <2>3, <2>4, <2>5, <2>6 DEF Alone, Counted, AskedAlone
  <2> QED
    BY <1>0, <2>1, <2>2, <2>3, <2>4, <2>7, <2>8 DEF Alone, Counted, FilledAlone
<1>10. ASSUME NEW c \in Clients, NEW f \in Numbers, LoseFloor(c, f) PROVE Alone'
  BY <1>0, <1>10, LoseEffect DEF Alone
<1>4. ASSUME NEW u \in Units, CommitUnit(u) \/ LoseUnit(u) PROVE Alone'
  <2>1. jobs = 0 /\ lost = 0 /\ CommitUnit(u) /\ unitAsk[u] = "sent"
    BY <1>0, <1>4, UnitEffect
  <2>2. wizard.step = "unitsAsked" /\ u[1] = wizard.floor
    BY <1>0, <2>1 DEF OneAtATime
  <2>3. u[1] \in floors /\ u \notin units
    BY <1>0, <2>1, <2>2 DEF Alone, PagesIdle, Counted, AskedAlone, FilledAlone, UnitsUpTo
  <2>4. units' = units \cup {u} /\ unitAsk'[u] = "made"
    BY <1>0, <1>4, <2>1, <2>3, UnitEffect
  <2> QED
    BY <1>0, <1>4, <2>1, <2>2, <2>4, UnitEffect DEF Alone, PagesIdle, Counted, AskedAlone,
      FilledAlone
<1>5. CASE AddTower
  <2>1. jobs = 0 /\ lost = 0 /\ wizard'.step = "floor"
    BY <1>0, <1>5, AddEffect
  <2>2. wizard'.floor = 1 /\ wizard'.floors = {} /\ wizard'.units = {} /\ floors = {} /\ units = {}
    BY <1>0, <1>5, <2>1, AddEffect DEF OneAtATime, Alone, PagesIdle, Counted, AskedAlone,
      FilledAlone
  <2>3. \A f \in Numbers : ask["wizard"][f] = "none"
    BY <1>0, <1>5, AddEffect DEF OneAtATime
  <2> QED
    BY <1>0, <1>5, <2>1, <2>2, <2>3, AddEffect, FirstFloor DEF Alone, PagesIdle, Counted,
      AskedAlone, FilledAlone
<1>6. CASE SendFloor
  <2>1. \A f \in Numbers : ask["wizard"][f] = "none"
    BY <1>0, <1>6, SendEffect DEF OneAtATime
  <2>2. \A f \in Numbers : ask'["wizard"][f] # "made"
    BY <1>0, <1>6, <2>1, SendEffect
  <2> QED
    BY <1>0, <1>6, <2>1, <2>2, SendEffect DEF Alone, PagesIdle, Counted, AskedAlone,
      FilledAlone, Pending
<1>7. CASE FloorAnswered
  <2>1. jobs = 0 /\ lost = 0 /\ ask["wizard"][wizard.floor] = "made"
    BY <1>0, <1>7, AnswerEffect DEF Alone, PagesIdle, Counted, AskedAlone, FilledAlone, Pending
  <2>2. /\ wizard.floors = 1..(wizard.floor - 1) /\ wizard.units = UnitsUpTo(wizard.floor - 1)
        /\ units = wizard.units /\ floors = wizard.floors \cup {wizard.floor}
    BY <1>0, <1>7, <2>1, AnswerEffect DEF Alone, PagesIdle, Counted, AskedAlone, FilledAlone
  <2>3. {u \in Units : unitAsk'[u] = "made"} = {}
    BY <1>0, <1>7, <2>1, AnswerEffect
  <2>4. /\ wizard'.step = "unitsAsked" /\ wizard'.floor = wizard.floor
        /\ wizard'.floors = wizard.floors \cup {wizard.floor} /\ wizard'.units = wizard.units
        /\ \A u \in Units : unitAsk'[u] = IF u[1] = wizard.floor THEN "sent" ELSE "none"
        /\ UNCHANGED <<floors, units, gone, tab>>
    BY <1>0, <1>7, <2>1, AnswerEffect
  <2>5. PagesIdle'
    BY <1>0, <1>7, <2>1, <2>4, AnswerEffect DEF Alone, PagesIdle
  <2>6. FilledAlone'
    BY <1>0, <2>2, <2>3, <2>4, FirstFloor DEF FilledAlone
  <2> QED
    BY <2>4, <2>5, <2>6 DEF Alone, Counted, AskedAlone
<1>8. CASE UnitsAnswered
  <2>1. jobs = 0 /\ lost = 0 /\ wizard.step = "unitsAsked"
    BY <1>0, <1>8, UnitsEffect
  <2>2. \A u \in Units : unitAsk[u] = "made" <=> u[1] = wizard.floor
    BY <1>0, <1>8, <2>1, UnitsEffect DEF Alone, PagesIdle, Counted, AskedAlone, FilledAlone,
      OneAtATime, Settled
  <2>3. /\ wizard'.units = UnitsUpTo(wizard.floor) /\ units = wizard'.units
        /\ wizard'.floors = 1..wizard.floor /\ floors = wizard'.floors
    <3>1. {u \in Units : unitAsk[u] = "made"} = {u \in Units : u[1] = wizard.floor}
      BY <2>2
    <3>2. /\ wizard.units = UnitsUpTo(wizard.floor - 1) /\ wizard.floors = 1..wizard.floor
          /\ floors = wizard.floors
          /\ units = wizard.units \cup {u \in Units : unitAsk[u] = "made"}
      BY <1>0, <2>1 DEF Alone, Counted, FilledAlone
    <3>3. /\ wizard'.units = wizard.units \cup {u \in Units : unitAsk[u] = "made"}
          /\ wizard'.floors = wizard.floors
      BY <1>0, <1>8, UnitsEffect
    <3>4. wizard'.units = UnitsUpTo(wizard.floor)
      BY <1>0, <3>1, <3>2, <3>3, FirstFloor
    <3> QED
      BY <3>2, <3>3, <3>4
  <2>4. \A f \in Numbers : ask'["wizard"][f] = "none"
    BY <1>0, <1>8, <2>1, UnitsEffect DEF OneAtATime
  <2>5. CASE wizard.floor = Planned
    BY <1>0, <1>8, <2>1, <2>3, <2>4, <2>5, UnitsEffect DEF Alone, PagesIdle, Counted,
      AskedAlone, FilledAlone
  <2>6. CASE wizard.floor # Planned
    <3>1. wizard'.step = "floor" /\ wizard'.floor - 1 = wizard.floor
      BY <1>0, <1>8, <2>6, UnitsEffect
    <3> QED
      BY <1>0, <1>8, <2>1, <2>3, <2>4, <3>1, UnitsEffect DEF Alone, PagesIdle, Counted,
        AskedAlone, FilledAlone
  <2> QED
    BY <2>5, <2>6
<1>9. ASSUME NEW t \in Tabs, PageStep(t) PROVE Alone'
  <2>1. lost = 0 /\ jobs = 0
    <3>1. CASE FloorDeleted(t)
      BY <1>0, <1>9, <3>1, PageRow DEF FloorDeleted
    <3>2. CASE ~ FloorDeleted(t)
      BY <1>0, <1>9, <3>2, PageMoves, PageRow
    <3> QED
      BY <3>1, <3>2
  <2>2. tab[t].job = "idle" /\ ~ FloorDeleted(t)
    BY <1>0, <2>1 DEF Alone, PagesIdle, FloorDeleted
  <2>3. tab'[t].job = "idle" /\ UNCHANGED <<ask, floors, gone>> /\ UNCHANGED <<units, jobs>>
    BY <1>0, <1>9, <2>1, <2>2, PageMoves
  <2> QED
    BY <1>0, <1>9, <2>1, <2>2, <2>3, PageRow DEF Alone, PagesIdle, Counted, AskedAlone,
      FilledAlone
<1> QED
  BY NextCases, <1>10, <1>2, <1>3, <1>4, <1>5, <1>6, <1>7, <1>8, <1>9

LEMMA NextIInv == IInv /\ [Next]_vars => IInv'
<1> SUFFICES ASSUME IInv, [Next]_vars PROVE IInv'
  OBVIOUS
<1>1. CASE Next
  <2>1. Alone'
    BY <1>1, AloneKept DEF Alone
  <2> QED
    BY <1>1, <2>1, StepTypes, NoTowerKept, SeenKept, MadeKept, OneKept, CountsKept,
      GeneratingKept, DeletingKept DEF IInv
<1>2. CASE UNCHANGED vars
  BY <1>2, StepTypes DEF vars, IInv, NoTower, SeenCovered, TotalCoversFloors, Made, OneAtATime,
    WizardCountsCreated, Generating, Deleting, Alone, PagesIdle, Counted, AskedAlone, FilledAlone
<1> QED
  BY <1>1, <1>2

LEMMA Invariance == Spec => []IInv
  BY InitIInv, NextIInv, PTL DEF Spec

\* Only a page's own steps end what it does.
LEMMA OwnStep ==
  ASSUME IInv, [Next]_vars, NEW t \in Tabs, tab[t].job # "idle", tab'[t].job = "idle"
  PROVE  PageStep(t)
<1>1. TypeOK /\ tab' # tab /\ tab[t] \in Pages
  BY DEF IInv, TypeOK
<1>2. Next
  BY <1>1 DEF vars
<1>3. ASSUME NEW c \in Clients, NEW f \in Numbers,
             CheckFloor(c, f) \/ CommitFloor(c, f) \/ LoseFloor(c, f)
      PROVE  FALSE
  <2>1. tab'[t] = tab[t] \/ tab'[t] = Missed(tab[t], f)
    BY <1>1, <1>3, CheckEffect, CommitEffect, LoseEffect
  <2> QED
    BY <1>1, <2>1, MissedType
<1>4. ~ (AddTower \/ SendFloor \/ FloorAnswered \/ UnitsAnswered)
  BY <1>1, AddEffect, SendEffect, AnswerEffect, UnitsEffect
<1>5. ASSUME NEW u \in Units, CommitUnit(u) \/ LoseUnit(u) PROVE FALSE
  BY <1>1, <1>5, UnitEffect
<1>6. ASSUME NEW p \in Tabs, p # t, PageStep(p) PROVE FALSE
  <2>1. \/ tab'[t] = tab[t]
        \/ tab'[t] = Missed(tab[t], tab[p].floor) /\ tab[p].floor \in Numbers
    BY <1>1, <1>6, PageRow DEF FloorDeleted, IInv, Deleting
  <2> QED
    BY <1>1, <2>1, MissedType
<1> QED
  BY <1>2, <1>3, <1>4, <1>5, <1>6, NextCases

-----------------------------------------------------------------------------
(* The theorems                                                              *)

\* The server, the requests, the wizard and the pages keep their types, and a unit has its
\* floor, for any number of pages, floors and units.
THEOREM TypeCorrect == Spec => []TypeOK
  BY Invariance, PTL DEF IInv

\* total_floors covers every floor unless a creation wrote it from a stale read.
THEOREM TotalCovers == Spec => []TotalCoversFloors
  BY Invariance, PTL DEF IInv

\* The wizard counts what was created, all of it when it was left alone.
THEOREM WizardTrue == Spec => []WizardCounts
<1>1. IInv => WizardCounts
  BY DEF IInv, WizardCounts, WizardCountsAll, Alone, Counted, UnitsUpTo
<1> QED
  BY <1>1, Invariance, PTL

\* Of the floors a page says it has generated only those are not there whose own request
\* was lost or that were deleted meanwhile.
THEOREM GeneratedTrue == Spec => GeneratedMeansThere
<1> DEFINE There ==
      \A t \in Tabs :
        tab[t].job = "generating" /\ tab'[t].job = "idle" =>
          (1..tab[t].num) \ tab[t].missed \subseteq floors'
<1>1. ASSUME IInv, [Next]_vars PROVE There
  <2>1. SUFFICES ASSUME NEW t \in Tabs, tab[t].job = "generating", tab'[t].job = "idle"
                 PROVE  (1..tab[t].num) \ tab[t].missed \subseteq floors'
    OBVIOUS
  <2>2. Generated(t)
    BY <1>1, <2>1, OwnStep DEF PageStep, Refresh, RefreshUnits, Generate, FloorSaved,
      FloorDeleted, SaveFloor, DeleteFloor, SaveUnit, Job
  <2>3. \A f \in 1..tab[t].num : f \in floors \cup tab[t].missed \/ ask[t][f] \in Pending
    BY <1>1, <2>1 DEF IInv, Generating
  <2>4. 1..tab[t].num \subseteq Numbers
    BY <1>1, Sizes DEF IInv, TypeOK, Pages, Numbers
  <2>5. \A f \in Numbers : ask[t][f] \notin Pending
    BY <2>2 DEF Generated, Answered, Settled, Pending
  <2>6. UNCHANGED floors
    BY <2>2 DEF Generated, server
  <2> QED
    BY <2>3, <2>4, <2>5, <2>6
<1>2. IInv /\ [Next]_vars => [There]_vars
  BY <1>1
<1> QED
  BY <1>2, Invariance, PTL DEF Spec, GeneratedMeansThere
=============================================================================
