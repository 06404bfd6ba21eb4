----------------------------- MODULE Keyboards -----------------------------
(***************************************************************************)
(* The bot's menus (telegram_bot_keyboards.cpp): a tree of keyboards over  *)
(* one snapshot of the settings, shared by all users and all messages.     *)
(* A button names an action only together with the active keyboard; every  *)
(* action ends in a request to Telegram, which may throw in the middle of  *)
(* the handler.  Presses that no keyboard handles, and presses whose       *)
(* answerCallbackQuery() throws, change nothing and are not represented.   *)
(*                                                                         *)
(* The number fields of a snapshot are a function of the field; the texts  *)
(* of the tables are left out.                                             *)
(***************************************************************************)
EXTENDS Integers, Sequences

CONSTANTS
  MaxPlants,   \* MAX_MOISTURE_SENSOR_COUNT
  WordTop,     \* 1023, the largest reading of the ADC
  ByteTop,     \* 255
  PercentTop,  \* 99
  Steps,       \* the steps of the +/- buttons of editValue: 1, 10, 100
  SmallSteps,  \* those that editPercentage has: 1, 10
  InitialSettings, \* what the server may hold when the bot starts
  MaxChanges   \* the sets of faults to look at, subsets of AllFaults, each
               \* with its bound on the changes of the snapshot

AllFaults ==
  {"refused",     \* a request throws and has no effect
   "lostAnswer",  \* a request has its effect and throws
   "oldMessage"}  \* somebody presses a button of an older message

Plant == 0 .. MaxPlants - 1
PlantSens == {<<"moist", p>> : p \in Plant}
WaterSens == {<<"water", w>> : w \in 0 .. 1}

Limit == [min |-> WordTop, max |-> WordTop,
          target |-> PercentTop, warn |-> PercentTop, empty |-> PercentTop,
          ticks |-> ByteTop, burstDuration |-> ByteTop,
          burstDelay |-> ByteTop, maxBursts |-> ByteTop]

PlantField == {"target", "ticks", "burstDuration", "burstDelay", "maxBursts"}
WaterField == {"warn", "empty"}
Field == ({"min", "max"} \X (PlantSens \cup WaterSens))
           \cup (PlantField \X PlantSens) \cup (WaterField \X WaterSens)

Settings == [val : [Field -> 0 .. WordTop], numPlants : 0 .. MaxPlants,
             skip : SUBSET Plant, useW2 : SUBSET Plant,
             fail : BOOLEAN, debug : BOOLEAN]

InRange(s) == \A f \in Field : s.val[f] <= Limit[f[1]]

ASSUME KeyboardAssumption ==
  /\ MaxPlants \in Nat \ {0}
  /\ WordTop \in Nat /\ ByteTop \in 0 .. WordTop /\ PercentTop \in 0 .. ByteTop
  /\ Steps \subseteq Nat /\ SmallSteps \subseteq Steps
  /\ \A s \in InitialSettings : s \in Settings /\ InRange(s)
  /\ DOMAIN MaxChanges \subseteq SUBSET AllFaults
  /\ \A f \in DOMAIN MaxChanges : MaxChanges[f] \in Nat

VARIABLES
  active,     \* activeKeyboard, or "none"
  history,    \* keyboardHistory
  row,        \* the plants whose buttons editMoistLayer shows
  sel,        \* editValueInfo: idx and isWaterLvl, as a sensor,
  field,      \* value8 or value16, as a field of the snapshot,
  limits,     \* minVal and maxVal
  snap,       \* settingSnapshot
  committed,  \* the server's settings
  shown,      \* the buttons on the session's message
  changes,    \* how often the snapshot was changed
  faults      \* what Telegram may do, which does not change

menu == <<active, history>>
info == <<sel, field, limits>>
kbVars == <<menu, row, info, snap, committed, shown, changes, faults>>

----------------------------------------------------------------------------
NoField == <<"none", <<"moist", 0>>>>

Buttons(names) == {<<b, 0>> : b \in names}
PlantButtons(ps) == {<<"edit_p", p>> : p \in ps}
StepButtons(ds) == {<<"step", d>> : d \in ds \cup {-d : d \in ds}}

\* What the buttons of a keyboard are, those it does not show included.
ButtonsOf ==
  [topLayer |-> Buttons({"edit_plant", "edit_water", "add_plant",
                         "remove_plant", "clear_hw_failure", "toggle_debug",
                         "commit", "abort"}),
   editMoistLayer |-> PlantButtons(Plant) \cup Buttons({"back"}),
   editMoistDetailLayer |->
      Buttons(PlantField \cup {"min", "max", "toggle_water_sens",
                               "toggle_skip", "back"}),
   editWaterLayer |-> {<<"edit_w", w>> : w \in 0 .. 1} \cup Buttons({"back"}),
   editWaterDetailLayer |->
      Buttons(WaterField \cup {"min", "max", "back"}),
   editValue |-> StepButtons(Steps) \cup Buttons({"back"}),
   editPercentage |-> StepButtons(SmallSteps) \cup Buttons({"back"})]

Keyboard == DOMAIN ButtonsOf
AllButtons == UNION {ButtonsOf[k] : k \in Keyboard}

\* What a message that shows keyboard k offers.
Screen(k, r) == IF k = "editMoistLayer"
                  THEN PlantButtons(r) \cup Buttons({"back"})
                  ELSE ButtonsOf[k]

\* A button of the session's message, or of another one, handled by the
\* active keyboard.
Pressed(b) ==
  /\ active # "none" /\ b \in ButtonsOf[active]
  /\ b \in shown \/ "oldMessage" \in faults

\* The edit of the message throws, before or after it has its effect.
Throws(screen) ==
  \/ "refused" \in faults /\ UNCHANGED shown
  \/ "lostAnswer" \in faults /\ shown' = screen

Redraw(screen) == shown' = screen \/ Throws(screen)

----------------------------------------------------------------------------
(***************************************************************************)
(* Buttons that open a keyboard: the button's callback, the new keyboard's *)
(* callback, and only if that does not throw the change of menu.           *)
(***************************************************************************)
Open(k) ==
  /\ \/ /\ shown' = Screen(k, row')
        /\ history' = Append(history, active) /\ active' = k
     \/ Throws(Screen(k, row')) /\ UNCHANGED menu
  /\ UNCHANGED <<snap, committed, changes>>

\* Mutant: buttons for all plants.
EditPlantsAll ==
  /\ Pressed(<<"edit_plant", 0>>)
  /\ row' = Plant
  /\ Open("editMoistLayer") /\ UNCHANGED info

EditPlants ==
  /\ Pressed(<<"edit_plant", 0>>)
  /\ row' = 0 .. snap.numPlants - 1
  /\ Open("editMoistLayer") /\ UNCHANGED info

EditWaters ==
  /\ Pressed(<<"edit_water", 0>>)
  /\ Open("editWaterLayer") /\ UNCHANGED <<row, info>>

EditPlant(p) ==
  /\ Pressed(<<"edit_p", p>>)
  /\ sel' = <<"moist", p>>
  /\ Open("editMoistDetailLayer") /\ UNCHANGED <<row, field, limits>>

EditWater(w) ==
  /\ Pressed(<<"edit_w", w>>)
  /\ sel' = <<"water", w>>
  /\ Open("editWaterDetailLayer") /\ UNCHANGED <<row, field, limits>>

\* "else { // TODO wtf }": the selection does not have the field.
HasField(name) ==
  CASE name \in PlantField -> sel[1] = "moist"
    [] name \in WaterField -> sel[1] = "water"
    [] OTHER -> TRUE

\* The buttons that choose a field and its limits.
EditorOf(name) ==
  IF name \in {"target", "warn", "empty"} THEN "editPercentage"
                                          ELSE "editValue"

\* Mutants: raw values take over the last limits; all take the largest.
ArmStale(name) ==
  IF HasField(name)
    THEN /\ field' = <<name, sel>>
         /\ limits' = IF name \in {"min", "max"} THEN limits
                                                 ELSE <<0, Limit[name]>>
    ELSE UNCHANGED <<field, limits>>

ArmWide(name) ==
  IF HasField(name) THEN field' = <<name, sel>> /\ limits' = <<0, WordTop>>
                    ELSE UNCHANGED <<field, limits>>

Arm(name) ==
  IF HasField(name) THEN field' = <<name, sel>> /\ limits' = <<0, Limit[name]>>
                    ELSE UNCHANGED <<field, limits>>

EditField(name) ==
  /\ Pressed(<<name, 0>>)
  /\ Arm(name) /\ UNCHANGED <<row, sel>>
  /\ Open(EditorOf(name))

\* The parent's callback may throw: then the menu stays.
Back ==
  /\ Pressed(<<"back", 0>>) /\ history # <<>>
  /\ LET parent == history[Len(history)]
     IN \/ /\ shown' = Screen(parent, row)
           /\ active' = parent
           /\ history' = SubSeq(history, 1, Len(history) - 1)
        \/ Throws(Screen(parent, row)) /\ UNCHANGED menu
  /\ UNCHANGED <<row, info, snap, committed, changes>>

(***************************************************************************)
(* Buttons that change the snapshot and redraw the message.                *)
(***************************************************************************)
Change(new) ==
  /\ changes < MaxChanges[faults] /\ changes' = changes + 1
  /\ snap' = new
  /\ Redraw(Screen(active, row))
  /\ UNCHANGED <<menu, row, info, committed>>

\* int32_t arithmetic, the limits, and a write of 8 or 16 bits.
Clamp(v) == IF v > limits[2] THEN limits[2]
            ELSE IF v < limits[1] THEN limits[1] ELSE v
Stored(f, v) == IF f[1] \in {"min", "max"} THEN v ELSE v % (ByteTop + 1)

UpdateValue(d) ==
  /\ Pressed(<<"step", d>>) /\ field # NoField
  /\ Change([snap EXCEPT !.val[field] = Stored(field, Clamp(@ + d))])

AddPlant ==
  /\ Pressed(<<"add_plant", 0>>) /\ snap.numPlants < MaxPlants
  /\ LET p == snap.numPlants
         s == <<"moist", p>>
     IN Change([snap EXCEPT !.numPlants = p + 1,
                            !.val[<<"min", s>>] = 0, !.val[<<"max", s>>] = 0,
                            !.val[<<"target", s>>] = 0,
                            !.skip = @ \cup {p}, !.useW2 = @ \ {p}])

RemovePlant ==
  /\ Pressed(<<"remove_plant", 0>>) /\ snap.numPlants > 0
  /\ Change([snap EXCEPT !.numPlants = @ - 1])

ClearHardwareFailure ==
  /\ Pressed(<<"clear_hw_failure", 0>>) /\ snap.fail
  /\ Change([snap EXCEPT !.fail = FALSE])

ToggleDebug ==
  /\ Pressed(<<"toggle_debug", 0>>)
  /\ Change([snap EXCEPT !.debug = ~@])

Toggle(set, p) == IF p \in set THEN set \ {p} ELSE set \cup {p}

ToggleWaterSens ==
  /\ Pressed(<<"toggle_water_sens", 0>>)
  /\ Change([snap EXCEPT !.useW2 = Toggle(@, sel[2])])

ToggleSkip ==
  /\ Pressed(<<"toggle_skip", 0>>)
  /\ Change([snap EXCEPT !.skip = Toggle(@, sel[2])])

(***************************************************************************)
(* The end of a session: the menu is gone before the request is made, and  *)
(* a commit whose request throws is not carried out.                       *)
(***************************************************************************)
Leave ==
  /\ active' = "none" /\ history' = <<>>
  /\ UNCHANGED <<row, info, snap, changes>>

Commit ==
  /\ Pressed(<<"commit", 0>>) /\ Leave
  /\ \/ shown' = {} /\ committed' = snap
     \/ Throws({}) /\ UNCHANGED committed

Abort ==
  /\ Pressed(<<"abort", 0>>) /\ Leave
  /\ Redraw({}) /\ UNCHANGED committed

\* Mutant: init() without keyboardHistory.clear().
EditCommandInHistory ==
  /\ snap' = committed
  /\ active' = "topLayer" /\ UNCHANGED history
  /\ \/ shown' = ButtonsOf["topLayer"]
     \/ "refused" \in faults /\ shown' = {}
  /\ UNCHANGED <<row, info, committed, changes>>

\* Mutant: the last session's snapshot is edited again.
EditCommandKeeps ==
  /\ active' = "topLayer" /\ history' = <<>>
  /\ \/ shown' = ButtonsOf["topLayer"]
     \/ "refused" \in faults /\ shown' = {}
  /\ UNCHANGED <<row, info, snap, committed, changes>>

\* The command /edit: a new snapshot, a new message, the menu at its top.
EditCommand ==
  /\ snap' = committed
  /\ active' = "topLayer" /\ history' = <<>>
  /\ \/ shown' = ButtonsOf["topLayer"]
     \/ "refused" \in faults /\ shown' = {}
  /\ UNCHANGED <<row, info, committed, changes>>

----------------------------------------------------------------------------
KbInit ==
  /\ active = "none" /\ history = <<>> /\ row = Plant
  /\ sel = <<"moist", 0>> /\ field = NoField /\ limits = <<0, 0>>
  /\ committed \in InitialSettings /\ snap = committed
  /\ shown = {} /\ changes = 0 /\ faults \in DOMAIN MaxChanges

Navigate ==
  \/ EditPlants \/ EditWaters \/ Back
  \/ \E p \in Plant : EditPlant(p)
  \/ \E w \in 0 .. 1 : EditWater(w)
  \/ \E name \in DOMAIN Limit : EditField(name)

ChangeSettings ==
  \/ \E d \in Steps : UpdateValue(d) \/ UpdateValue(-d)
  \/ AddPlant \/ RemovePlant \/ ClearHardwareFailure \/ ToggleDebug
  \/ ToggleWaterSens \/ ToggleSkip

KbNext ==
  /\ Navigate \/ ChangeSettings \/ Commit \/ Abort \/ EditCommand
  /\ UNCHANGED faults

KbSpec == KbInit /\ [][KbNext]_kbVars

----------------------------------------------------------------------------
KbTypeOK ==
  /\ active \in Keyboard \cup {"none"} /\ history \in Seq(Keyboard)
  /\ row \subseteq Plant /\ sel \in PlantSens \cup WaterSens
  /\ field \in Field \cup {NoField}
  /\ limits \in {0} \X (0 .. WordTop)
  /\ snap \in Settings /\ committed \in Settings
  /\ shown \subseteq AllButtons /\ faults \in DOMAIN MaxChanges
  /\ changes \in 0 .. MaxChanges[faults]

(***************************************************************************)
(* The branches the code calls impossible are: the detail menus are only   *)
(* active with a selection of their kind ("TODO wtf"), and the +/- buttons *)
(* only with a field chosen (keyboards.cpp:91, "CRITICAL ERROR: misused    *)
(* updateValue()"), which is one of the selected sensor and carries its    *)
(* own limits, whatever failed or was pressed before.                      *)
(***************************************************************************)
EditorArmed ==
  /\ active = "editMoistDetailLayer" => sel[1] = "moist"
  /\ active = "editWaterDetailLayer" => sel[1] = "water"
  /\ active \in {"editValue", "editPercentage"} =>
       /\ field # NoField /\ field[2] = sel
       /\ limits = <<0, Limit[field[1]]>>
       /\ active = EditorOf(field[1])

(***************************************************************************)
(* The history is the way back: with the active keyboard it is a path of   *)
(* the menu tree from its root, so that "Back" leads where the user came   *)
(* from and at most three times.                                           *)
(***************************************************************************)
Opens ==
  {<<"topLayer", "editMoistLayer">>, <<"topLayer", "editWaterLayer">>,
   <<"editMoistLayer", "editMoistDetailLayer">>,
   <<"editWaterLayer", "editWaterDetailLayer">>}
    \cup ({"editMoistDetailLayer", "editWaterDetailLayer"}
            \X {"editValue", "editPercentage"})

MenuPath ==
  IF active = "none" THEN history = <<>> ELSE
    LET path == Append(history, active)
    IN /\ path[1] = "topLayer"
       /\ \A i \in 1 .. Len(history) : <<path[i], path[i + 1]>> \in Opens

(***************************************************************************)
(* Users cannot commit values beyond the limits of the menus, through      *)
(* whatever sequence of fields, sensors and sessions they go, and on the   *)
(* way no counter leaves its width.                                        *)
(***************************************************************************)
CommittedInRange ==
  KbTypeOK /\ InRange(committed)

\* Only the session's message is used, and requests either take effect or
\* fail.
OneMessage == faults \subseteq {"refused"}

\* The message shows no button that the active keyboard does not know.
ShownWorks == active # "none" => shown \subseteq ButtonsOf[active]

\* Only plants that exist are edited (keyboards.cpp:310, "Add only active
\* plants"), though plants are added and removed from the same menus.
EditsActivePlants ==
  /\ sel[1] = "moist"
  /\ active \in {"editMoistDetailLayer", "editValue", "editPercentage"}
  => sel[2] < snap.numPlants

(***************************************************************************)
(* As long as requests either take effect or fail, and only the session's  *)
(* message is used, what the user sees is what the menus know: its buttons *)
(* are those of the active keyboard and the plants it edits exist.         *)
(***************************************************************************)
OneMessageWorks == OneMessage => ShownWorks /\ EditsActivePlants

(***************************************************************************)
(* Whatever throws, and whichever message is used, the menus give edit     *)
(* sessions: what is committed is a copy of the settings in use with the   *)
(* session's changes, all of them, and nothing gets there otherwise.       *)
(***************************************************************************)
Session == INSTANCE EditSession WITH Value <- Settings,
                                     open <- active # "none"
EditsInSession == Session!SessionSpec
============================================================================
