------------------------------ MODULE ConfigProofs ------------------------------
(***************************************************************************)
(* Theorems about Config, for all templates, targets, calls and bounds.    *)
(***************************************************************************)
EXTENDS Config, TLAPS

-----------------------------------------------------------------------------
(* The inductive invariant.                                                *)

\* Where a template is in work, and where a call is.
Placed ==
  /\ pc \in {"check", "write", "body"} => tpl \in Templates
  /\ pc \in {"next", "check", "write", "body"} => opts \in Calls
  /\ pc = "body" => target \in Targets
  /\ pc \notin {"check", "write", "body"} => DOMAIN seen = {}

\* Until the tables are in place there is nothing to lose.
Fresh ==
  /\ control # "done" => /\ pc \in {"down", "fill", "tables", "mark"}
                         /\ cache.version = 0
                         /\ \A t \in Targets : file[t] \notin Rendered
                         /\ rows = NoRows
  /\ pc \in {"fill", "tables", "mark"} => control # "done"

\* What was fetched is one of the versions of Contractor with the time it became one.
Fetched ==
  /\ cache.version <= server /\ fetched.version <= server
  /\ cache.version # 0 => cache.modified = changedAt[cache.version]
  /\ pc = "store" => /\ fetched.version >= cache.version
                     /\ fetched.modified = changedAt[fetched.version]

\* What the loop over the targets lets pass.
Allowed ==
  /\ pc \in {"check", "write", "body"} /\ ~no_build /\ ~opts.force =>
       \A t \in DOMAIN seen : InDB(t) => seen[t] \in {Missing, rows[tpl][t].hash}
  /\ pc \in {"write", "body"} => ~no_build /\ ~opts.dry_run /\ ~opts.dest_rootdir

IInv == TypeOK /\ Placed /\ Fresh /\ Fetched /\ Allowed /\ NothingIsNewer

-----------------------------------------------------------------------------
(* Types.                                                                  *)

\* Cutting off the fraction of a second leaves a time.
LEMMA TimestampType ==
  ASSUME now \in 0..MaxTime
  PROVE  CurrentTimestamp \in 0..MaxTime
<1>1. now % 2 \in {0, 1} /\ now % 2 <= now
  BY BoundsAssumption
<1> QED  BY <1>1, BoundsAssumption DEF CurrentTimestamp

\* The options of a call are booleans.
LEMMA CallType ==
  ASSUME NEW o \in Calls
  PROVE  o \in Options
BY CallsAssumption

\* What a template in work produces are targets.
LEMMA ProducedType ==
  ASSUME TypeOK, NEW p \in Templates, template[p] # Gone
  PROVE  Produces[p][template[p]][cache.version] \in SUBSET Targets
<1>1. template[p] \in Versions /\ cache.version \in Values
  BY DEF TypeOK
<1> QED  BY <1>1, ProducesAssumption

\* Nothing seen is seen of no target.
LEMMA NothingSeen ==
  LET none == [t \in {} |-> Missing]
  IN  DOMAIN none = {} /\ none \in [{} -> Contents \cup {Missing}]
OBVIOUS

LEMMA TypeInit == Init => TypeOK
<1> SUFFICES ASSUME Init PROVE TypeOK
  OBVIOUS
<1>1. now \in 0..MaxTime /\ server \in Values /\ edits \in 0..MaxEdits /\ deaths \in 0..MaxDeaths
  BY BoundsAssumption DEF Init, Values
<1>2. changedAt \in [Values -> 0..MaxTime]
  BY BoundsAssumption DEF Init
<1>3. 0 \in Versions /\ 0 \in Values /\ 0 \in 0..MaxTime
  BY BoundsAssumption DEF Versions, Values
<1>4. template \in [Templates -> Versions \cup {Gone}] /\ file \in [Targets -> Contents \cup {Missing}]
  BY <1>3 DEF Init, Contents
<1>5. templates \in [Templates -> Versions \cup {Nil}] /\ rows \in [Templates -> [Targets -> Row \cup {Nil}]]
  BY DEF Init, NoRows
<1>6. cache \in [version: Values, modified: 0..MaxTime] /\ fetched \in [version: Values, modified: 0..MaxTime]
  BY <1>3 DEF Init, NoValues
<1>7. DOMAIN seen \in SUBSET targets /\ seen \in [DOMAIN seen -> Contents \cup {Missing}]
  BY NothingSeen DEF Init
<1> QED  BY <1>1, <1>2, <1>3, <1>4, <1>5, <1>6, <1>7 DEF Init, TypeOK

\* Without a template in work its variables have their types.
LEMMA NoPlanType ==
  ASSUME NoPlan
  PROVE  /\ tpl' \in Templates \cup {Nil} /\ version' \in Versions /\ targets' \in SUBSET Targets
         /\ DOMAIN seen' \in SUBSET targets' /\ seen' \in [DOMAIN seen' -> Contents \cup {Missing}]
         /\ need_build' \in BOOLEAN /\ no_build' \in BOOLEAN
<1>1. DOMAIN seen' = {} /\ seen' \in [DOMAIN seen' -> Contents \cup {Missing}]
  BY NothingSeen DEF NoPlan
<1>2. 0 \in Versions
  BY BoundsAssumption DEF Versions
<1> QED  BY <1>1, <1>2 DEF NoPlan

\* A process that ends leaves no variable without its type.
LEMMA ExitType ==
  ASSUME TypeOK, Exit, edits' = edits, deaths' \in 0..MaxDeaths
  PROVE  TypeOK'
<1>1. fetched' \in [version: Values, modified: 0..MaxTime]
  BY BoundsAssumption DEF Exit, NoValues, Values
<1>2. rendered' \in Versions /\ left' \in SUBSET Targets /\ target' \in Targets \cup {Nil}
  BY BoundsAssumption DEF Exit, NoOutput, Versions
<1>3. NoPlan /\ pc' = "down" /\ queue' = {} /\ opts' = Nil /\ UNCHANGED <<world, file, db>>
  BY DEF Exit
<1> QED
  BY <1>1, <1>2, <1>3, NoPlanType DEF TypeOK, world, db

\* Every step keeps the types.
LEMMA TypeStep ==
  ASSUME IInv, [Next]_vars
  PROVE  TypeOK'
<1> USE DEF TypeOK, world, faults, db, plan, output
<1>1. CASE Tick
  BY <1>1, BoundsAssumption DEF IInv, Tick
<1>2. CASE ValuesChange
  <2>1. server' \in Values /\ server + 1 \in Values
    BY <1>2, BoundsAssumption DEF IInv, ValuesChange, Values
  <2>2. changedAt' \in [Values -> 0..MaxTime]
    BY <1>2, <2>1 DEF IInv, ValuesChange
  <2> QED  BY <1>2, <2>1, <2>2 DEF IInv, ValuesChange
<1>3. CASE TemplateChanges
  BY <1>3 DEF IInv, TemplateChanges, Gone
<1>4. CASE SomebodyEdits
  BY <1>4, BoundsAssumption DEF IInv, SomebodyEdits, Contents
<1>5. CASE Open
  BY <1>5 DEF IInv, Open
<1>6. CASE FillControl
  BY <1>6 DEF IInv, FillControl
<1>7. CASE CreateTables
  BY <1>7, TimestampType, BoundsAssumption DEF IInv, CreateTables, Values, NoRows
<1>8. CASE MarkVersion
  BY <1>8 DEF IInv, MarkVersion
<1>9. CASE Close
  BY <1>9, ExitType DEF IInv, Close
<1>10. CASE Dies
  BY <1>10, ExitType, BoundsAssumption DEF IInv, Dies
<1>11. CASE Fetch
  BY <1>11 DEF IInv, Fetch
<1>12. CASE StoreValues
  BY <1>12, BoundsAssumption DEF IInv, StoreValues, NoValues, Values
<1>13. CASE ConfigPackage
  BY <1>13 DEF IInv, ConfigPackage
<1>14. CASE EndPackage
  BY <1>14 DEF IInv, EndPackage
<1>15. CASE PassOver
  BY <1>15 DEF IInv, PassOver
<1>16. CASE NextTemplate
  <2>1. PICK p \in Templates : template[p] # Gone /\ tpl' = p /\ version' = template[p]
                             /\ targets' = Produces[p][template[p]][cache.version]
                             /\ queue' \in SUBSET queue
    BY <1>16 DEF NextTemplate, IInv
  <2>2. targets' \in SUBSET Targets /\ version' \in Versions
    BY <2>1, ProducedType DEF IInv
  <2>3. DOMAIN seen = {}
    BY <1>16 DEF NextTemplate, IInv, Placed
  <2> QED  BY <1>16, <2>1, <2>2, <2>3 DEF NextTemplate, IInv
<1>17. CASE CheckRaises
  BY <1>17, ExitType DEF IInv, CheckRaises
<1>18. CASE Check
  <2>1. PICK t \in Unseen :
           /\ Look(t)
           /\ need_build' = (need_build \/ Found(t) = Missing \/ Newer(t) \/ Differs(t))
           /\ no_build' \in BOOLEAN
           /\ file' \in {file, [file EXCEPT ![t] = Missing]}
    BY <1>18 DEF IInv, Check
  <2>2. DOMAIN seen' \in SUBSET targets /\ seen' \in [DOMAIN seen' -> Contents \cup {Missing}]
    BY <2>1 DEF IInv, Look, Unseen, Found
  <2>3. need_build' \in BOOLEAN
    BY <2>1 DEF IInv, Newer, Differs
  <2>4. file' \in [Targets -> Contents \cup {Missing}]
    BY <2>1 DEF IInv
  <2> QED  BY <1>18, <2>1, <2>2, <2>3, <2>4 DEF IInv, Check
<1>19. CASE Skip
  BY <1>19, NoPlanType DEF IInv, Skip
<1>20. CASE OnlyChecked
  <2>1. rows' \in [Templates -> [Targets -> Row \cup {Nil}]]
    BY <1>20 DEF IInv, OnlyChecked, Row, AllSeen, Placed
  <2> QED  BY <1>20, <2>1, NoPlanType DEF IInv, OnlyChecked
<1>21. CASE RenderElsewhere
  BY <1>21, NoPlanType DEF IInv, RenderElsewhere
<1>22. CASE RenderTemplate
  BY <1>22, ProducedType DEF IInv, RenderTemplate, AllSeen, Placed
<1>23. CASE RenderRaises
  BY <1>23, ExitType DEF IInv, RenderRaises
<1>24. CASE OpenTarget
  BY <1>24, BoundsAssumption DEF IInv, OpenTarget, Contents
<1>25. CASE WriteTarget
  BY <1>25 DEF IInv, WriteTarget, Contents, Rendered, Placed
<1>26. CASE RecordRaises
  BY <1>26, ExitType DEF IInv, RecordRaises
<1>27. CASE Record
  <2>1. rows' \in [Templates -> [Targets -> Row \cup {Nil}]]
    BY <1>27, TimestampType DEF IInv, Record, Row, Placed
  <2>2. rendered' \in Versions /\ left' \in SUBSET Targets /\ target' \in Targets \cup {Nil}
    BY <1>27, BoundsAssumption DEF Record, NoOutput, Versions
  <2>3. templates' \in [Templates -> Versions \cup {Nil}]
    BY <1>27 DEF IInv, Record
  <2> QED  BY <1>27, <2>1, <2>2, <2>3, NoPlanType DEF IInv, Record
<1>28. CASE UNCHANGED vars
  BY <1>28 DEF IInv, vars
<1> QED
  BY <1>1, <1>2, <1>3, <1>4, <1>5, <1>6, <1>7, <1>8, <1>9, <1>10, <1>11, <1>12, <1>13, <1>14, <1>15, <1>16, <1>17, <1>18, <1>19, <1>20, <1>21, <1>22, <1>23, <1>24, <1>25, <1>26, <1>27, <1>28 DEF Next

\* Every step leaves a template and a call in their places.
LEMMA PlacedStep ==
  ASSUME IInv, [Next]_vars
  PROVE  Placed'
<1> USE DEF IInv, TypeOK, Placed, world, faults, db, plan, output
<1>1. CASE Tick \/ ValuesChange \/ TemplateChanges \/ SomebodyEdits \/ UNCHANGED vars
  BY <1>1 DEF Tick, ValuesChange, TemplateChanges, SomebodyEdits, vars
<1>2. CASE Open
  BY <1>2 DEF Open
<1>3. CASE FillControl
  BY <1>3 DEF FillControl
<1>4. CASE CreateTables
  BY <1>4 DEF CreateTables
<1>5. CASE MarkVersion
  BY <1>5 DEF MarkVersion
<1>6. CASE Close
  BY <1>6 DEF Close, Exit, NoPlan
<1>7. CASE Dies
  BY <1>7 DEF Dies, Exit, NoPlan
<1>8. CASE Fetch
  BY <1>8 DEF Fetch
<1>9. CASE StoreValues
  BY <1>9 DEF StoreValues
<1>10. CASE ConfigPackage
  BY <1>10 DEF ConfigPackage
<1>11. CASE EndPackage
  BY <1>11 DEF EndPackage
<1>12. CASE PassOver
  BY <1>12 DEF PassOver
<1>13. CASE NextTemplate
  BY <1>13 DEF NextTemplate
<1>14. CASE CheckRaises
  BY <1>14 DEF CheckRaises, Exit, NoPlan
<1>15. CASE Check
  BY <1>15 DEF Check, Look
<1>16. CASE Skip
  BY <1>16 DEF Skip, NoPlan, AllSeen
<1>17. CASE OnlyChecked
  BY <1>17 DEF OnlyChecked, NoPlan, AllSeen
<1>18. CASE RenderElsewhere
  BY <1>18 DEF RenderElsewhere, NoPlan, AllSeen
<1>19. CASE RenderTemplate
  BY <1>19 DEF RenderTemplate, AllSeen
<1>20. CASE RenderRaises
  BY <1>20 DEF RenderRaises, Exit, NoPlan, AllSeen
<1>21. CASE OpenTarget
  BY <1>21, ProducedType DEF OpenTarget
<1>22. CASE WriteTarget
  BY <1>22 DEF WriteTarget
<1>23. CASE RecordRaises
  BY <1>23 DEF RecordRaises, Exit, NoPlan
<1>24. CASE Record
  BY <1>24 DEF Record, NoPlan
<1> QED
  BY <1>1, <1>2, <1>3, <1>4, <1>5, <1>6, <1>7, <1>8, <1>9, <1>10, <1>11, <1>12, <1>13, <1>14, <1>15, <1>16, <1>17, <1>18, <1>19, <1>20, <1>21, <1>22, <1>23, <1>24 DEF Next

\* Every step leaves a database without tables empty.
LEMMA FreshStep ==
  ASSUME IInv, [Next]_vars
  PROVE  Fresh'
<1> USE DEF IInv, TypeOK, Placed, Fresh, world, faults, db, plan, output
<1>1. CASE Tick \/ ValuesChange \/ TemplateChanges \/ UNCHANGED vars
  BY <1>1 DEF Tick, ValuesChange, TemplateChanges, vars
<1>2. CASE SomebodyEdits
  BY <1>2, NamesAssumption DEF SomebodyEdits
<1>3. CASE Open
  BY <1>3 DEF Open
<1>4. CASE FillControl
  BY <1>4 DEF FillControl
<1>5. CASE CreateTables
  BY <1>5 DEF CreateTables
<1>6. CASE MarkVersion
  BY <1>6 DEF MarkVersion
<1>7. CASE Close
  BY <1>7 DEF Close, Exit
<1>8. CASE Dies
  BY <1>8 DEF Dies, Exit
<1>9. CASE Fetch
  BY <1>9 DEF Fetch
<1>10. CASE StoreValues
  BY <1>10 DEF StoreValues
<1>11. CASE ConfigPackage
  BY <1>11 DEF ConfigPackage
<1>12. CASE EndPackage
  BY <1>12 DEF EndPackage
<1>13. CASE PassOver
  BY <1>13 DEF PassOver
<1>14. CASE NextTemplate
  BY <1>14 DEF NextTemplate
<1>15. CASE CheckRaises
  BY <1>15 DEF CheckRaises, Exit
<1>16. CASE Check
  BY <1>16 DEF Check
<1>17. CASE Skip
  BY <1>17 DEF Skip, AllSeen
<1>18. CASE OnlyChecked
  BY <1>18 DEF OnlyChecked, AllSeen
<1>19. CASE RenderElsewhere
  BY <1>19 DEF RenderElsewhere, AllSeen
<1>20. CASE RenderTemplate
  BY <1>20 DEF RenderTemplate, AllSeen
<1>21. CASE RenderRaises
  BY <1>21 DEF RenderRaises, Exit
<1>22. CASE OpenTarget
  BY <1>22, NamesAssumption DEF OpenTarget
<1>23. CASE WriteTarget
  BY <1>23 DEF WriteTarget
<1>24. CASE RecordRaises
  BY <1>24 DEF RecordRaises, Exit
<1>25. CASE Record
  BY <1>25 DEF Record
<1> QED
  BY <1>1, <1>2, <1>3, <1>4, <1>5, <1>6, <1>7, <1>8, <1>9, <1>10, <1>11, <1>12, <1>13, <1>14, <1>15, <1>16, <1>17, <1>18, <1>19, <1>20, <1>21, <1>22, <1>23, <1>24, <1>25 DEF Next

\* Every step leaves the cache a version of Contractor with its time.
LEMMA FetchedStep ==
  ASSUME IInv, [Next]_vars
  PROVE  Fetched'
<1> USE DEF IInv, TypeOK, Fresh, Fetched, world, faults, db, plan, output
<1>1. CASE Tick \/ TemplateChanges \/ SomebodyEdits \/ FillControl \/ MarkVersion \/ Open \/ ConfigPackage \/ EndPackage \/ PassOver \/ NextTemplate \/ Check \/ OpenTarget \/ WriteTarget \/ Record \/ UNCHANGED vars
  BY <1>1 DEF Tick, TemplateChanges, SomebodyEdits, FillControl, MarkVersion, Open, ConfigPackage, EndPackage, PassOver, NextTemplate, Check, OpenTarget, WriteTarget, Record, vars
<1>2. CASE ValuesChange
  BY <1>2, BoundsAssumption DEF ValuesChange, Values
<1>3. CASE CreateTables
  BY <1>3, BoundsAssumption DEF CreateTables, Values
<1>4. CASE Close
  BY <1>4, BoundsAssumption DEF Close, Exit, NoValues, Values
<1>5. CASE Dies
  BY <1>5, BoundsAssumption DEF Dies, Exit, NoValues, Values
<1>6. CASE Fetch
  BY <1>6 DEF Fetch, Values
<1>7. CASE StoreValues
  BY <1>7, BoundsAssumption DEF StoreValues, NoValues, Values
<1>8. CASE CheckRaises
  BY <1>8, BoundsAssumption DEF CheckRaises, Exit, NoValues, Values
<1>9. CASE Skip
  BY <1>9 DEF Skip, AllSeen
<1>10. CASE OnlyChecked
  BY <1>10 DEF OnlyChecked, AllSeen
<1>11. CASE RenderElsewhere
  BY <1>11 DEF RenderElsewhere, AllSeen
<1>12. CASE RenderTemplate
  BY <1>12 DEF RenderTemplate, AllSeen
<1>13. CASE RenderRaises
  BY <1>13, BoundsAssumption DEF RenderRaises, Exit, NoValues, Values
<1>14. CASE RecordRaises
  BY <1>14, BoundsAssumption DEF RecordRaises, Exit, NoValues, Values
<1> QED
  BY <1>1, <1>2, <1>3, <1>4, <1>5, <1>6, <1>7, <1>8, <1>9, <1>10, <1>11, <1>12, <1>13, <1>14 DEF Next

\* Every step keeps what was found as it was recorded, or is not allowed to write.
LEMMA AllowedStep ==
  ASSUME IInv, [Next]_vars
  PROVE  Allowed'
<1> USE DEF IInv, TypeOK, Placed, Allowed, InDB, world, faults, db, plan, output
<1>1. CASE Tick \/ ValuesChange \/ TemplateChanges \/ SomebodyEdits \/ Open \/ FillControl \/ MarkVersion \/ Fetch \/ StoreValues \/ PassOver \/ EndPackage \/ UNCHANGED vars
  BY <1>1 DEF Tick, ValuesChange, TemplateChanges, SomebodyEdits, Open, FillControl, MarkVersion, Fetch, StoreValues, PassOver, EndPackage, vars
<1>2. CASE CreateTables
  BY <1>2 DEF CreateTables
<1>3. CASE Close
  BY <1>3 DEF Close, Exit, NoPlan
<1>4. CASE Dies
  BY <1>4 DEF Dies, Exit, NoPlan
<1>5. CASE ConfigPackage
  BY <1>5 DEF ConfigPackage
<1>6. CASE NextTemplate
  BY <1>6 DEF NextTemplate
<1>7. CASE CheckRaises
  BY <1>7 DEF CheckRaises, Exit, NoPlan
<1>8. CASE Check
  <2> SUFFICES ASSUME ~no_build', ~opts'.force, NEW u \in DOMAIN seen', InDB(u)'
               PROVE  seen'[u] \in {Missing, rows'[tpl'][u].hash}
    BY <1>8 DEF Check
  <2>1. PICK t \in Unseen : /\ Look(t)
                            /\ no_build' = (no_build \/ ((need_build \/ Found(t) = Missing \/ Newer(t) \/ Differs(t))
                                                           /\ (Differs(t) \/ Exists(t)) /\ ~opts.force))
    BY <1>8 DEF Check
  <2>2. UNCHANGED <<tpl, rows, opts>> /\ pc = "check"
    BY <1>8 DEF Check
  <2>3. CASE u = t
    <3>1. seen'[u] = Found(t) /\ ~Differs(t)
      BY <2>1, <2>2, <2>3 DEF Look
    <3> QED  BY <2>2, <2>3, <3>1 DEF Differs
  <2>4. CASE u # t
    <3>1. u \in DOMAIN seen /\ seen'[u] = seen[u] /\ ~no_build
      BY <2>1, <2>4 DEF Look
    <3> QED  BY <2>2, <3>1
  <2> QED  BY <2>3, <2>4
<1>9. CASE Skip
  BY <1>9 DEF Skip, NoPlan, AllSeen
<1>10. CASE OnlyChecked
  BY <1>10 DEF OnlyChecked, NoPlan, AllSeen
<1>11. CASE RenderElsewhere
  BY <1>11 DEF RenderElsewhere, NoPlan, AllSeen
<1>12. CASE RenderTemplate
  BY <1>12 DEF RenderTemplate, AllSeen
<1>13. CASE RenderRaises
  BY <1>13 DEF RenderRaises, Exit, NoPlan, AllSeen
<1>14. CASE OpenTarget
  BY <1>14 DEF OpenTarget
<1>15. CASE WriteTarget
  BY <1>15 DEF WriteTarget
<1>16. CASE RecordRaises
  BY <1>16 DEF RecordRaises, Exit, NoPlan
<1>17. CASE Record
  BY <1>17 DEF Record, NoPlan
<1> QED
  BY <1>1, <1>2, <1>3, <1>4, <1>5, <1>6, <1>7, <1>8, <1>9, <1>10, <1>11, <1>12, <1>13, <1>14, <1>15, <1>16, <1>17 DEF Next

\* Every step keeps the values of files and rows within those of the database.
LEMMA NewerStep ==
  ASSUME IInv, [Next]_vars
  PROVE  NothingIsNewer'
<1> USE DEF IInv, TypeOK, Placed, Fresh, Fetched, NothingIsNewer, world, faults, db, plan, output
<1>1. CASE Tick \/ ValuesChange \/ TemplateChanges \/ Open \/ FillControl \/ MarkVersion \/ Fetch \/ ConfigPackage \/ EndPackage \/ PassOver \/ NextTemplate \/ RenderTemplate \/ UNCHANGED vars
  BY <1>1 DEF Tick, ValuesChange, TemplateChanges, Open, FillControl, MarkVersion, Fetch, ConfigPackage, EndPackage, PassOver, NextTemplate, RenderTemplate, vars
<1>2. CASE SomebodyEdits
  BY <1>2, NamesAssumption DEF SomebodyEdits
<1>3. CASE CreateTables
  BY <1>3 DEF CreateTables, NoRows
<1>4. CASE Close
  BY <1>4 DEF Close, Exit
<1>5. CASE Dies
  BY <1>5 DEF Dies, Exit
<1>6. CASE StoreValues
  <2>1. cache'.version \in Nat /\ cache.version \in Nat /\ cache.version <= cache'.version
    BY <1>6, BoundsAssumption DEF StoreValues, Values
  <2>2. \A r \in Rendered : r.val \in Nat
    BY BoundsAssumption DEF Rendered, Values
  <2> QED  BY <1>6, <2>1, <2>2 DEF StoreValues
<1>7. CASE CheckRaises
  BY <1>7 DEF CheckRaises, Exit
<1>8. CASE Check
  BY <1>8, NamesAssumption DEF Check, Look
<1>9. CASE Skip
  BY <1>9 DEF Skip, AllSeen
<1>10. CASE OnlyChecked
  BY <1>10, NamesAssumption DEF OnlyChecked, AllSeen
<1>11. CASE RenderElsewhere
  BY <1>11 DEF RenderElsewhere, AllSeen
<1>12. CASE RenderRaises
  BY <1>12 DEF RenderRaises, Exit
<1>13. CASE OpenTarget
  BY <1>13, NamesAssumption DEF OpenTarget
<1>14. CASE WriteTarget
  <2>1. cache.version \in Nat /\ UNCHANGED <<cache, rows>>
    BY <1>14, BoundsAssumption DEF WriteTarget, Values
  <2>2. \A t \in Targets : file'[t] = file[t] \/ file'[t].val = cache.version
    BY <1>14 DEF WriteTarget
  <2>3. \A t \in Targets : file'[t] \in Rendered => file'[t].val <= cache.version
    BY <2>1, <2>2 DEF Values
  <2> QED  BY <2>1, <2>3
<1>15. CASE RecordRaises
  BY <1>15 DEF RecordRaises, Exit
<1>16. CASE Record
  BY <1>16 DEF Record
<1> QED
  BY <1>1, <1>2, <1>3, <1>4, <1>5, <1>6, <1>7, <1>8, <1>9, <1>10, <1>11, <1>12, <1>13, <1>14, <1>15, <1>16 DEF Next

LEMMA Inductive == Init => IInv
<1> SUFFICES ASSUME Init PROVE IInv
  OBVIOUS
<1>1. Placed /\ Fresh /\ Allowed
  BY NamesAssumption DEF Init, Placed, Fresh, Allowed, NoValues
<1>2. Fetched
  BY BoundsAssumption DEF Init, Fetched, NoValues
<1>3. NothingIsNewer
  BY NamesAssumption DEF Init, NothingIsNewer, NoRows
<1> QED  BY <1>1, <1>2, <1>3, TypeInit DEF IInv

LEMMA Invariance == Spec => []IInv
<1>1. IInv /\ [Next]_vars => IInv'
  BY TypeStep, PlacedStep, FreshStep, FetchedStep, AllowedStep, NewerStep DEF IInv
<1> QED  BY Inductive, <1>1, PTL DEF Spec

-----------------------------------------------------------------------------
(* The theorems.                                                           *)

\* Every variable keeps its type: libconfig.py, whatever call and fault.
THEOREM TypeCorrect == Spec => []TypeOK
<1>1. IInv => TypeOK
  BY DEF IInv
<1> QED  BY Invariance, <1>1, PTL

\* configPackage never misses a change of Contractor's values that came after
\* it had recorded a target, though it compares times of two clocks: the cached
\* time is always that of the cached values.
THEOREM ChangesAreNoticed == Spec => []ChangeIsNoticed
<1>1. IInv => ChangeIsNoticed
  <2> SUFFICES ASSUME IInv PROVE ChangeIsNoticed
    OBVIOUS
  <2>1. \A p \in Templates, t \in Targets :
          rows[p][t] # Nil /\ rows[p][t].hash \in Rendered /\ rows[p][t].hash.val < cache.version
            => cache.version # 0
    BY BoundsAssumption DEF IInv, TypeOK, Values, Rendered
  <2>2. cache.version # 0 => cache.modified = changedAt[cache.version]
    BY DEF IInv, Fetched
  <2> QED  BY <2>1, <2>2 DEF ChangeIsNoticed
<1> QED  BY Invariance, <1>1, PTL

\* Neither a file nor a recorded hash ever has newer values than the database.
THEOREM NothingNewer == Spec => []NothingIsNewer
<1>1. IInv => NothingIsNewer
  BY DEF IInv
<1> QED  BY Invariance, <1>1, PTL

\* Dry runs and runs into another directory write nothing, and without force
\* configPackage replaces no target that it found to differ from its row.
THEOREM CallsAreKept == Spec => OnlyAsAsked
<1> DEFINE Kept ==
      /\ \A t \in Targets : file'[t] # file[t] /\ edits' = edits =>
           /\ ~opts.dry_run /\ ~opts.dest_rootdir
           /\ opts.force \/ t \notin DOMAIN seen \/ ~InDB(t)
                \/ seen[t] \in {Missing, rows[tpl][t].hash}
      /\ (rows' # rows /\ pc = "check") => (~opts.dry_run /\ ~opts.dest_rootdir)
<1>1. ASSUME IInv, [Next]_vars PROVE Kept
  <2> USE DEF world, faults, db, plan, output
  <2>1. CASE OpenTarget \/ WriteTarget
    BY <1>1, <2>1 DEF IInv, Allowed, OpenTarget, WriteTarget, InDB
  <2>2. CASE Check
    BY <1>1, <2>2 DEF IInv, TypeOK, Check, Differs, Exists, Found
  <2>3. CASE OnlyChecked
    BY <1>1, <2>3 DEF OnlyChecked, AllSeen
  <2>4. CASE Record \/ CreateTables
    BY <1>1, <2>4 DEF Record, CreateTables
  <2>5. CASE SomebodyEdits
    BY <1>1, <2>5 DEF SomebodyEdits, IInv, TypeOK
  <2>6. CASE Close \/ Dies \/ CheckRaises \/ RenderRaises \/ RecordRaises
    BY <1>1, <2>6 DEF Close, Dies, CheckRaises, RenderRaises, RecordRaises, Exit
  <2>7. CASE Tick \/ ValuesChange \/ TemplateChanges \/ Open \/ FillControl \/ MarkVersion
               \/ Fetch \/ StoreValues \/ ConfigPackage \/ EndPackage \/ PassOver \/ NextTemplate
    BY <1>1, <2>7 DEF Tick, ValuesChange, TemplateChanges, Open, FillControl, MarkVersion,
       Fetch, StoreValues, ConfigPackage, EndPackage, PassOver, NextTemplate
  <2>8. CASE Skip \/ RenderElsewhere \/ RenderTemplate \/ UNCHANGED vars
    BY <1>1, <2>8 DEF Skip, RenderElsewhere, RenderTemplate, vars
  <2> QED  BY <1>1, <2>1, <2>2, <2>3, <2>4, <2>5, <2>6, <2>7, <2>8 DEF Next
<1> QED  BY Invariance, <1>1, PTL DEF Spec, OnlyAsAsked
=============================================================================
