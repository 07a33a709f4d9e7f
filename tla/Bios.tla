---------------------------------- MODULE Bios ----------------------------------
(***************************************************************************)
(* The disk that configures the BIOS (disks/bios-cfg/root): bioscfg and    *)
(* the two tools it may drive, syscfg of Intel (pylib/SYSCfg.py) and SUM   *)
(* of Supermicro (pylib/SUM.py).  It sets what differs from the            *)
(* configuration and has the machine rebooted until nothing does.          *)
(*                                                                         *)
(* The BIOS is outside of the repository: it takes settings over at a      *)
(* reboot, shows an item only while the item it depends on is "on", and    *)
(* lists its devices class by class.                                       *)
(***************************************************************************)
EXTENDS Integers, Sequences, FiniteSets, SequencesExt

CONSTANTS
  Tools,        \* of "syscfg", "sum1_3" and "sum1_5"
  Items,        \* of the configuration, in its order
  Wanted,       \* the value of each
  Values,
  DependsOn,    \* of an item, itself if on none
  BootEntries,  \* <<class, device>>
  BootOrders,   \* config[ 'boot' ], entries or classes alone
  MaxAttempts   \* of the boot count; 5

ASSUME BiosAssumption ==
  /\ Items \in Seq(DOMAIN Wanted) /\ DOMAIN DependsOn = DOMAIN Wanted
  /\ \A i \in DOMAIN Wanted : Wanted[i] \in Values /\ DependsOn[i] \in DOMAIN Wanted
  /\ Tools \subseteq {"syscfg", "sum1_3", "sum1_5"} /\ MaxAttempts \in Nat

VARIABLES
  tool, wantOrder,
  setting,     \* that the BIOS runs with
  flash,       \* that it takes over at the next boot
  order, orderFlash,   \* of its devices
  legacy, legacyFlash, \* Boot Mode Select
  boots, count,        \* boots so far with a job, and the count Plato has of them
  bios,        \* "boot", "password", "items", "order", "reboot", "done", "alert"
  nextItem,
  changed,     \* dirty
  cache,       \* _configCache: settings read once in a boot
  sumSet,      \* the lines of /tmp/sum_set, by item and value
  wasSet,      \* the items that were set in this boot
  password,    \* of the BIOS: that of the configuration, none, or another
  givenPassword\* the password the tool is given

biosVars == <<tool, wantOrder, setting, flash, order, orderFlash, legacy, legacyFlash, boots, count,
              bios, nextItem, changed, cache, sumSet, wasSet, password, givenPassword>>
biosFixed == <<tool, wantOrder, setting, order, legacy, boots, count, password, givenPassword>>

Unread == <<>>
Visible(i) == DependsOn[i] = i \/ setting[DependsOn[i]] = "on"

-----------------------------------------------------------------------------
(* The order of the devices.                                               *)

ClassOf(e) == e[1]

\* The classes, each run of them once.
ClassOrder(boot) ==
  FoldLeft(LAMBDA l, e : IF l # <<>> /\ Last(l) = ClassOf(e) THEN l ELSE Append(l, ClassOf(e)), <<>>, boot)

InClass(boot, c) == SelectSeq(boot, LAMBDA e : ClassOf(e) = c /\ Len(e) > 1)

Position(s, x) == CHOOSE k \in DOMAIN s : s[k] = x

\* Mutant: the places are counted from zero.
PlacesFromZero(current, target) == [k \in DOMAIN target |-> Position(current, target[k]) - 1]

\* The arguments of /bbo for a class: where the wanted devices stand now.
Places(current, target) == [k \in DOMAIN target |-> Position(current, target[k])]

\* What the BIOS makes of them: these devices first.
Rearranged(current, places) ==
  LET first == [k \in DOMAIN places |-> IF places[k] \in DOMAIN current THEN current[places[k]] ELSE current[1]]
  IN  first \o SelectSeq(current, LAMBDA e : e \notin ToSet(first))

\* SYSCfg.setBoot: the order of the classes, then that of the devices in every
\* class that has some in the configuration; a device that is not there is a
\* ValueError, and a class that is not there an error unless the classes were
\* put in order.
CannotSet(current, boot) ==
  LET classes == {ClassOf(e) : e \in {e \in ToSet(boot) : Len(e) > 1}}
  IN  \/ \E c \in classes : InClass(current, c) = <<>> /\ ClassOrder(current) = ClassOrder(boot)
      \/ \E e \in ToSet(boot) : Len(e) > 1 /\ InClass(current, ClassOf(e)) # <<>> /\ e \notin ToSet(current)

SetByPlaces(current, boot) ==
  LET named == ClassOrder(boot)
      others == SelectSeq(ClassOrder(current), LAMBDA c : c \notin ToSet(named))
      ordered(c) == LET now == InClass(current, c)
                    IN  IF now = <<>> THEN <<>> ELSE Rearranged(now, Places(now, InClass(boot, c)))
      classes == SelectSeq([k \in DOMAIN named |->
                              IF \E j \in 1..(k - 1) : named[j] = named[k] THEN "" ELSE named[k]],
                           LAMBDA c : c # "") \o others
  IN  FoldLeft(LAMBDA l, c : l \o ordered(c), <<>>, classes)

\* SUM.setBoot: the class of every slot, and one device for a class; the slots
\* beyond the configuration are disabled.
SetBySlots(current, boot) ==
  LET named(c) == {e \in ToSet(boot) : ClassOf(e) = c /\ Len(e) > 1}
      device(c) == IF named(c) # {} THEN CHOOSE e \in named(c) : TRUE
                   ELSE IF \E e \in ToSet(current) : ClassOf(e) = c THEN CHOOSE e \in ToSet(current) : ClassOf(e) = c
                   ELSE CHOOSE e \in BootEntries : ClassOf(e) = c
  IN  [k \in DOMAIN boot |-> device(ClassOf(boot[k]))]

\* The orders a BIOS lists: class by class, of SUM one device of each class.
Listed ==
  LET byClass == {o \in SetToSeqs(BootEntries) : IsInjective(ClassOrder(o))}
  IN  IF tool = "syscfg" THEN byClass
      ELSE {SelectSeq(o, LAMBDA e : \A k \in DOMAIN o : ClassOf(o[k]) = ClassOf(e) => Position(o, e) <= k) : o \in byClass}

\* A class alone in the configuration stands for all its devices.  The first one
\* is made an entry of the class and the others are deleted from the list that
\* the loop goes through: the one behind a deleted device is not looked at.
ClassAlone(list, c) ==
  FoldLeft(LAMBDA s, e : IF s.skip \/ ClassOf(e) # c THEN [s EXCEPT !.list = Append(@, e), !.skip = FALSE]
                         ELSE IF s.found THEN [s EXCEPT !.skip = TRUE]
                         ELSE [s EXCEPT !.list = Append(@, <<c>>), !.found = TRUE],
           [list |-> <<>>, found |-> FALSE, skip |-> FALSE], list).list

AsWanted(current, boot) ==
  FoldLeft(LAMBDA l, w : IF Len(w) = 1 THEN ClassAlone(l, w[1]) ELSE l, current, boot)

-----------------------------------------------------------------------------

BiosInit ==
  /\ tool \in Tools /\ wantOrder \in BootOrders
  /\ setting \in [DOMAIN Wanted -> Values] /\ flash = setting
  /\ order \in Listed /\ orderFlash = order
  /\ legacy \in BOOLEAN /\ legacyFlash = legacy
  /\ boots = 0 /\ count = 0 /\ bios = "boot"
  /\ nextItem = 1 /\ changed = FALSE /\ cache = Unread /\ sumSet = {} /\ wasSet = {}
  /\ password \in {"wanted", "none", "other"} /\ givenPassword = "wanted"

\* The count is kept by Plato; the configuration of the BIOS is there after a
\* boot.  While Plato has no job for the machine it keeps no count, and bioscfg
\* goes on without one.
BootUp ==
  /\ bios = "boot"
  /\ \E hasJob \in BOOLEAN :
       IF hasJob
         THEN /\ boots' = boots + 1
              /\ IF count > MaxAttempts
                   THEN bios' = "alert" /\ UNCHANGED count
                   ELSE bios' = "password" /\ count' = count + 1
         ELSE bios' = "password" /\ UNCHANGED <<boots, count>>
  /\ nextItem' = 1 /\ changed' = FALSE /\ cache' = Unread /\ sumSet' = {} /\ wasSet' = {}
  /\ givenPassword' = "wanted"
  /\ UNCHANGED <<tool, wantOrder, setting, flash, order, orderFlash, legacy, legacyFlash, password>>

\* Only syscfg knows of passwords.  One that is not the wanted one is changed
\* from none; if the BIOS refuses the new one the tool goes on without any, and
\* is asked whether that fits.
CheckPassword ==
  /\ bios = "password"
  /\ \E accepts \in BOOLEAN :
       IF tool # "syscfg" \/ password = "wanted"
         THEN bios' = "items" /\ UNCHANGED <<password, givenPassword>>
         ELSE /\ password' = IF password = "none" /\ accepts THEN "wanted" ELSE password
              /\ givenPassword' = IF password' = "wanted" THEN "wanted" ELSE "none"
              /\ bios' = IF password' = givenPassword' THEN "items" ELSE "alert"
  /\ UNCHANGED <<tool, wantOrder, setting, flash, order, orderFlash, legacy, legacyFlash, boots, count,
                 nextItem, changed, cache, sumSet, wasSet>>

TheItem == Items[nextItem]
Known == [i \in {i \in DOMAIN setting : Visible(i)} |-> setting[i]]
Current == IF cache = Unread THEN Known ELSE cache

NextItem(next) ==
  /\ bios = "items" /\ nextItem <= Len(Items)
  /\ nextItem' = nextItem + 1
  /\ cache' = Current
  /\ next
  /\ UNCHANGED biosFixed
  /\ UNCHANGED <<orderFlash, legacyFlash>>

ItemIsRight ==
  NextItem(/\ TheItem \in DOMAIN Current /\ Current[TheItem] = Wanted[TheItem]
           /\ UNCHANGED <<bios, flash, changed, sumSet, wasSet>>)

\* An item that is not shown is an error, but after a change the next boot may
\* show it.
ItemIsHidden ==
  NextItem(/\ TheItem \notin DOMAIN Current
           /\ bios' = IF changed THEN "items" ELSE "alert"
           /\ UNCHANGED <<flash, changed, sumSet, wasSet>>)

\* Mutant: SUM is given the last item alone.
SumFileOfLast(i) == {<<i, Wanted[i]>>}

\* What ChangeBiosCfg is given: the file goes on growing.
SumFile(i) == sumSet \cup {<<i, Wanted[i]>>}

Settings(file) == [i \in DOMAIN setting |-> IF \E v \in Values : <<i, v>> \in file
                                            THEN CHOOSE v \in Values : <<i, v>> \in file ELSE setting[i]]

\* SUM 1.5 brings the settings of its last call to the flash and no others.
ItemIsSet ==
  NextItem(/\ TheItem \in DOMAIN Current /\ Current[TheItem] # Wanted[TheItem]
           /\ bios' = bios /\ changed' = TRUE
           /\ wasSet' = wasSet \cup {TheItem}
           /\ IF tool = "syscfg"
                THEN flash' = [flash EXCEPT ![TheItem] = Wanted[TheItem]] /\ UNCHANGED sumSet
                ELSE sumSet' = SumFile(TheItem) /\ flash' = Settings(sumSet'))

\* The line stays in the file of SUM.
ItemFails ==
  NextItem(/\ TheItem \in DOMAIN Current /\ Current[TheItem] # Wanted[TheItem]
           /\ bios' = IF changed THEN "items" ELSE "alert"
           /\ sumSet' = IF tool = "syscfg" THEN sumSet ELSE SumFile(TheItem)
           /\ UNCHANGED <<flash, changed, wasSet>>)

ItemsDone ==
  /\ bios = "items" /\ nextItem > Len(Items)
  /\ bios' = IF changed THEN "reboot" ELSE IF wantOrder = <<>> THEN "done" ELSE "order"
  /\ UNCHANGED biosFixed
  /\ UNCHANGED <<flash, orderFlash, legacyFlash, nextItem, changed, cache, sumSet, wasSet>>

OrderIsRight ==
  /\ bios = "order" /\ AsWanted(order, wantOrder) = wantOrder
  /\ bios' = "done"
  /\ UNCHANGED biosFixed
  /\ UNCHANGED <<flash, orderFlash, legacyFlash, nextItem, changed, cache, sumSet, wasSet>>

\* SUM 1.5 first asks for the legacy mode, in which the devices are listed.
SetOrder ==
  /\ bios = "order" /\ AsWanted(order, wantOrder) # wantOrder
  /\ \/ /\ tool = "sum1_5" /\ ~legacy
        /\ legacyFlash' = TRUE /\ bios' = "reboot"
        /\ UNCHANGED orderFlash
     \/ /\ tool # "sum1_5" \/ legacy
        /\ IF tool = "syscfg" /\ CannotSet(order, wantOrder)
             THEN bios' = "alert" /\ UNCHANGED orderFlash
             ELSE /\ orderFlash' = IF tool = "syscfg" THEN SetByPlaces(order, wantOrder)
                                   ELSE SetBySlots(order, wantOrder)
                  /\ bios' = "reboot"
        /\ UNCHANGED legacyFlash
  /\ UNCHANGED biosFixed
  /\ UNCHANGED <<flash, nextItem, changed, cache, sumSet, wasSet>>

OrderFails ==
  /\ bios = "order" /\ AsWanted(order, wantOrder) # wantOrder
  /\ bios' = "alert"
  /\ UNCHANGED biosFixed
  /\ UNCHANGED <<flash, orderFlash, legacyFlash, nextItem, changed, cache, sumSet, wasSet>>

Reboot ==
  /\ bios = "reboot"
  /\ bios' = "boot"
  /\ setting' = flash /\ order' = orderFlash /\ legacy' = legacyFlash
  /\ UNCHANGED <<tool, wantOrder, flash, orderFlash, legacyFlash, boots, count, nextItem, changed, cache, sumSet,
                 wasSet, password, givenPassword>>

BiosNext ==
  \/ BootUp \/ CheckPassword \/ ItemIsRight \/ ItemIsHidden \/ ItemIsSet \/ ItemFails \/ ItemsDone
  \/ OrderIsRight \/ SetOrder \/ OrderFails \/ Reboot

-----------------------------------------------------------------------------

\* The job is complete only when the BIOS runs with every value and the order
\* of the configuration.
DoneIsAsWanted ==
  bios = "done" =>
    /\ \A k \in DOMAIN Items : setting[Items[k]] = Wanted[Items[k]]
    /\ wantOrder # <<>> => AsWanted(order, wantOrder) = wantOrder

\* When the machine is rebooted, every item that was set in this boot is in the
\* flash, whichever calls of SUM count.
RoundIsKept == bios = "reboot" => \A i \in wasSet : flash[i] = Wanted[i]

\* A BIOS that does not take its settings is not rebooted for ever, but for the
\* boots in which Plato has no job.
BootsAreCounted == boots <= MaxAttempts + 2

\* Over all the boots the BIOS comes to what is wanted, and keeps what each of them
\* set, or bios-cfg ends (bioscfg, SYSCfg.py, SUM.py).
BiosIsAsWanted == DoneIsAsWanted /\ RoundIsKept /\ BootsAreCounted

\* When the machine is rebooted for the order of its devices, and the configuration
\* names all of them, class by class, the order it will boot with is the one that
\* was wanted (SYSCfg.setBoot, SUM.setBoot).
OrderIsKept ==
  bios = "reboot" /\ orderFlash # order /\ ToSet(wantOrder) = ToSet(order) /\ IsInjective(ClassOrder(wantOrder)) =>
    orderFlash = wantOrder

\* When the configuration is taken to be there, the devices it names stand in its
\* order, and a class it names alone has a device (the loop of bioscfg that
\* deletes from what it goes through).
OrderIsReached ==
  bios = "done" =>
    \A j, k \in DOMAIN wantOrder : j < k =>
      \E x, y \in DOMAIN order :
        /\ ClassOf(order[x]) = ClassOf(wantOrder[j]) /\ ClassOf(order[y]) = ClassOf(wantOrder[k])
        /\ Len(wantOrder[j]) > 1 => order[x] = wantOrder[j]
        /\ Len(wantOrder[k]) > 1 => order[y] = wantOrder[k]
        /\ x < y
=============================================================================
