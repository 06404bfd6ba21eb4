--------------------------- MODULE KeyboardsProofs ---------------------------
(***************************************************************************)
(* Theorems about the bot's menus, for every number of plants, every width *)
(* of the numbers, every step size and every fault of the requests.        *)
(***************************************************************************)
EXTENDS Keyboards, SequenceTheorems, TLAPS

Editors == {"editValue", "editPercentage"}
Details == {"editMoistDetailLayer", "editWaterDetailLayer"}

(***************************************************************************)
(* The way to a keyboard: the menus above it.  The two number editors are  *)
(* reached from the detail menu of the selected kind of sensor.            *)
(***************************************************************************)
WayTo(k, kind) ==
  CASE k \in {"none", "topLayer"} -> <<>>
    [] k \in {"editMoistLayer", "editWaterLayer"} -> <<"topLayer">>
    [] k = "editMoistDetailLayer" -> <<"topLayer", "editMoistLayer">>
    [] k = "editWaterDetailLayer" -> <<"topLayer", "editWaterLayer">>
    [] k \in Editors /\ kind = "moist" ->
         <<"topLayer", "editMoistLayer", "editMoistDetailLayer">>
    [] k \in Editors /\ kind # "moist" ->
         <<"topLayer", "editWaterLayer", "editWaterDetailLayer">>

KbInv ==
  /\ KbTypeOK /\ EditorArmed
  /\ history = WayTo(active, sel[1])
  /\ InRange(snap) /\ InRange(committed)

----------------------------------------------------------------------------
(***************************************************************************)
(* Which keyboards have which buttons.                                     *)
(***************************************************************************)
LEMMA KeyboardNames ==
  Keyboard = {"topLayer", "editMoistLayer", "editMoistDetailLayer",
              "editWaterLayer", "editWaterDetailLayer", "editValue",
              "editPercentage"}
BY DEF Keyboard, ButtonsOf

LEMMA ButtonPlaces ==
  ASSUME NEW k \in Keyboard
  PROVE  /\ \A d : <<"step", d>> \in ButtonsOf[k] => k \in Editors
         /\ \A p : <<"edit_p", p>> \in ButtonsOf[k] => k = "editMoistLayer"
         /\ \A w : <<"edit_w", w>> \in ButtonsOf[k] => k = "editWaterLayer"
         /\ \A b \in {"edit_plant", "edit_water", "add_plant", "remove_plant",
                      "commit", "abort"} :
              <<b, 0>> \in ButtonsOf[k] => k = "topLayer"
         /\ \A b \in {"toggle_water_sens", "toggle_skip"} \cup PlantField :
              <<b, 0>> \in ButtonsOf[k] => k = "editMoistDetailLayer"
         /\ \A b \in WaterField :
              <<b, 0>> \in ButtonsOf[k] => k = "editWaterDetailLayer"
         /\ \A b \in {"min", "max"} : <<b, 0>> \in ButtonsOf[k] => k \in Details
         /\ <<"back", 0>> \in ButtonsOf[k] => k # "topLayer"
BY KeyboardNames, SMTT(60)
DEF ButtonsOf, Buttons, PlantButtons, StepButtons, PlantField, WaterField,
    Editors, Details

LEMMA ScreenButtons ==
  ASSUME NEW k \in Keyboard, NEW r \in SUBSET Plant
  PROVE  Screen(k, r) \subseteq ButtonsOf[k] /\ Screen(k, r) \subseteq AllButtons
<1>1. Screen(k, r) \subseteq ButtonsOf[k]
  BY DEF Screen, ButtonsOf, PlantButtons
<1>2. ButtonsOf[k] \subseteq AllButtons
  BY DEF AllButtons
<1> QED
  BY <1>1, <1>2

(***************************************************************************)
(* Ways.                                                                   *)
(***************************************************************************)
LEMMA Ways ==
  ASSUME NEW kind
  PROVE  /\ WayTo("topLayer", kind) = <<>> /\ WayTo("none", kind) = <<>>
         /\ WayTo("editMoistLayer", kind) = <<"topLayer">>
         /\ WayTo("editWaterLayer", kind) = <<"topLayer">>
         /\ WayTo("editMoistDetailLayer", kind)
              = <<"topLayer", "editMoistLayer">>
         /\ WayTo("editWaterDetailLayer", kind)
              = <<"topLayer", "editWaterLayer">>
         /\ \A k \in Editors :
              WayTo(k, kind) =
                IF kind = "moist"
                  THEN <<"topLayer", "editMoistLayer", "editMoistDetailLayer">>
                  ELSE <<"topLayer", "editWaterLayer", "editWaterDetailLayer">>
BY DEF WayTo, Editors

LEMMA Longer ==
  ASSUME NEW a, NEW b, NEW c
  PROVE  /\ Append(<<>>, a) = <<a>>
         /\ Append(<<a>>, b) = <<a, b>>
         /\ Append(<<a, b>>, c) = <<a, b, c>>
<1> DEFINE S == {a, b, c}
           one == <<a>>
           two == <<a, b>>
           three == <<a, b, c>>
<1>1. /\ <<>> \in Seq(S) /\ Len(<<>>) = 0
      /\ one \in Seq(S) /\ Len(one) = 1 /\ one[1] = a
      /\ two \in Seq(S) /\ Len(two) = 2 /\ two[1] = a /\ two[2] = b
      /\ three \in Seq(S) /\ Len(three) = 3
      /\ three[1] = a /\ three[2] = b /\ three[3] = c
  OBVIOUS
<1>2. a \in S /\ b \in S /\ c \in S
  OBVIOUS
<1> HIDE DEF S, one, two, three
<1>3. \A s \in Seq(S), e \in S :
        /\ Append(s, e) \in Seq(S) /\ Len(Append(s, e)) = Len(s) + 1
        /\ \A i \in 1 .. Len(s) : Append(s, e)[i] = s[i]
        /\ Append(s, e)[Len(s) + 1] = e
  BY AppendProperties
<1>4. Append(<<>>, a) = one
  BY <1>1, <1>2, <1>3, SeqEqual
<1>5. Append(one, b) = two
  <2>1. /\ Append(one, b) \in Seq(S) /\ Len(Append(one, b)) = 2
        /\ Append(one, b)[1] = a /\ Append(one, b)[2] = b
    BY <1>1, <1>2, <1>3
  <2>2. \A i \in 1 .. 2 : Append(one, b)[i] = two[i]
    BY <1>1, <2>1
  <2> QED
    BY <1>1, <2>1, <2>2, SeqEqual
<1>6. Append(two, c) = three
  <2> DEFINE longer == Append(two, c)
  <2>0. /\ longer \in Seq(S) /\ Len(longer) = Len(two) + 1
        /\ \A i \in 1 .. Len(two) : longer[i] = two[i]
        /\ longer[Len(two) + 1] = c
    BY <1>1, <1>2, <1>3
  <2>1. /\ longer \in Seq(S) /\ Len(longer) = 3
        /\ longer[1] = a /\ longer[2] = b /\ longer[3] = c
    <3> HIDE DEF longer
    <3> QED
      BY <1>1, <2>0
  <2>2. \A i \in 1 .. 3 : i = 1 \/ i = 2 \/ i = 3
    OBVIOUS
  <2>3. \A i \in 1 .. 3 : Append(two, c)[i] = three[i]
    BY <1>1, <2>1, <2>2, Zenon
  <2> QED
    BY <1>1, <2>1, <2>3, SeqEqual
<1> QED
  BY <1>4, <1>5, <1>6, Zenon DEF one, two, three

LEMMA WayDown ==
  ASSUME NEW kind
  PROVE  /\ \A k \in {"editMoistLayer", "editWaterLayer"} :
              Append(WayTo("topLayer", kind), "topLayer") = WayTo(k, kind)
         /\ Append(WayTo("editMoistLayer", kind), "editMoistLayer")
              = WayTo("editMoistDetailLayer", kind)
         /\ Append(WayTo("editWaterLayer", kind), "editWaterLayer")
              = WayTo("editWaterDetailLayer", kind)
         /\ kind = "moist" => \A k \in Editors :
              Append(WayTo("editMoistDetailLayer", kind), "editMoistDetailLayer")
                = WayTo(k, kind)
         /\ kind # "moist" => \A k \in Editors :
              Append(WayTo("editWaterDetailLayer", kind), "editWaterDetailLayer")
                = WayTo(k, kind)
BY Longer, Ways, Zenon

Above(h) == h[Len(h)]
Upward(h) == SubSeq(h, 1, Len(h) - 1)

LEMMA ShorterBy1 ==
  ASSUME NEW a
  PROVE  Above(<<a>>) = a /\ Upward(<<a>>) = <<>>
<1>1. Len(<<a>>) = 1 /\ SubSeq(<<a>>, 1, 0) = <<>>
  BY SubSeqEmpty
<1> QED
  BY <1>1 DEF Above, Upward

LEMMA ShorterBy2 ==
  ASSUME NEW a, NEW b
  PROVE  Above(<<a, b>>) = b /\ Upward(<<a, b>>) = <<a>>
<1> DEFINE S == {a, b}
           one == <<a>>
           two == <<a, b>>
           short == SubSeq(two, 1, 1)
<1>1. /\ one \in Seq(S) /\ Len(one) = 1 /\ one[1] = a
      /\ two \in Seq(S) /\ Len(two) = 2 /\ two[1] = a /\ two[2] = b
  OBVIOUS
<1> HIDE DEF S, one, two
<1>2. \A i \in 1 .. 1 : two[i] \in S
  BY <1>1, ElementOfSeq
<1>3. /\ short \in Seq(S) /\ Len(short) = IF 1 <= 1 THEN 1 - 1 + 1 ELSE 0
      /\ \A i \in 1 .. 1 - 1 + 1 : short[i] = two[1 + i - 1]
  BY <1>2, SubSeqProperties
<1> HIDE DEF short
<1>4. Len(short) = 1 /\ \A i \in 1 .. 1 : short[i] = one[i]
  BY <1>1, <1>3
<1>5. short = one
  BY <1>1, <1>3, <1>4, SeqEqual
<1>6. Above(two) = b /\ Upward(two) = one
  BY <1>1, <1>5 DEF Above, Upward, short
<1> QED
  BY <1>6, Zenon DEF one, two

LEMMA ShorterBy3 ==
  ASSUME NEW a, NEW b, NEW c
  PROVE  Above(<<a, b, c>>) = c /\ Upward(<<a, b, c>>) = <<a, b>>
<1> DEFINE S == {a, b, c}
           two == <<a, b>>
           three == <<a, b, c>>
           short == SubSeq(three, 1, 2)
<1>1. /\ two \in Seq(S) /\ Len(two) = 2 /\ two[1] = a /\ two[2] = b
      /\ three \in Seq(S) /\ Len(three) = 3
      /\ three[1] = a /\ three[2] = b /\ three[3] = c
  OBVIOUS
<1> HIDE DEF S, two, three
<1>2. \A i \in 1 .. 2 : three[i] \in S
  BY <1>1, ElementOfSeq
<1>3. /\ short \in Seq(S) /\ Len(short) = IF 1 <= 2 THEN 2 - 1 + 1 ELSE 0
      /\ \A i \in 1 .. 2 - 1 + 1 : short[i] = three[1 + i - 1]
  BY <1>2, SubSeqProperties
<1> HIDE DEF short
<1>4. Len(short) = 2 /\ short[1] = a /\ short[2] = b
  BY <1>1, <1>3
<1>5. short = two
  BY <1>1, <1>3, <1>4, SeqEqual
<1>6. Above(three) = c /\ Upward(three) = two
  BY <1>1, <1>5 DEF Above, Upward, short
<1> QED
  BY <1>6, Zenon DEF two, three

LEMMA WayBack ==
  ASSUME NEW k \in Keyboard, NEW kind \in {"moist", "water"}, k # "topLayer",
         k = "editMoistDetailLayer" => kind = "moist",
         k = "editWaterDetailLayer" => kind = "water"
  PROVE  \E parent \in Keyboard \ Editors :
           /\ parent = Above(WayTo(k, kind))
           /\ Upward(WayTo(k, kind)) = WayTo(parent, kind)
           /\ parent = "editMoistDetailLayer" => kind = "moist"
           /\ parent = "editWaterDetailLayer" => kind = "water"
<1>1. CASE k \in {"editMoistLayer", "editWaterLayer"}
  <2>1. WayTo(k, kind) = <<"topLayer">>
    BY <1>1, Ways
  <2>2. /\ Above(<<"topLayer">>) = "topLayer"
        /\ Upward(<<"topLayer">>) = <<>>
    BY ShorterBy1
  <2>3. /\ Above(WayTo(k, kind)) = "topLayer"
        /\ Upward(WayTo(k, kind)) = WayTo("topLayer", kind)
    BY <2>1, <2>2, Ways
  <2> QED
    BY <1>1, <2>3, KeyboardNames DEF Editors
<1>2. CASE k = "editMoistDetailLayer"
  <2>1. WayTo(k, kind) = <<"topLayer", "editMoistLayer">>
    BY <1>2, Ways
  <2>2. /\ Above(<<"topLayer", "editMoistLayer">>) = "editMoistLayer"
        /\ Upward(<<"topLayer", "editMoistLayer">>) = <<"topLayer">>
    BY ShorterBy2
  <2>3. /\ Above(WayTo(k, kind)) = "editMoistLayer"
        /\ Upward(WayTo(k, kind)) = WayTo("editMoistLayer", kind)
    BY <2>1, <2>2, Ways
  <2> QED
    BY <1>2, <2>3, KeyboardNames DEF Editors
<1>3. CASE k = "editWaterDetailLayer"
  <2>1. WayTo(k, kind) = <<"topLayer", "editWaterLayer">>
    BY <1>3, Ways
  <2>2. /\ Above(<<"topLayer", "editWaterLayer">>) = "editWaterLayer"
        /\ Upward(<<"topLayer", "editWaterLayer">>) = <<"topLayer">>
    BY ShorterBy2
  <2>3. /\ Above(WayTo(k, kind)) = "editWaterLayer"
        /\ Upward(WayTo(k, kind)) = WayTo("editWaterLayer", kind)
    BY <2>1, <2>2, Ways
  <2> QED
    BY <1>3, <2>3, KeyboardNames DEF Editors
<1>4. CASE k \in Editors /\ kind = "moist"
  <2>1. WayTo(k, kind) = <<"topLayer", "editMoistLayer", "editMoistDetailLayer">>
    BY <1>4, Ways
  <2>2. /\ Above(<<"topLayer", "editMoistLayer", "editMoistDetailLayer">>) = "editMoistDetailLayer"
        /\ Upward(<<"topLayer", "editMoistLayer", "editMoistDetailLayer">>) = <<"topLayer", "editMoistLayer">>
    BY ShorterBy3
  <2>3. /\ Above(WayTo(k, kind)) = "editMoistDetailLayer"
        /\ Upward(WayTo(k, kind)) = WayTo("editMoistDetailLayer", kind)
    BY <2>1, <2>2, Ways
  <2> QED
    BY <1>4, <2>3, KeyboardNames DEF Editors
<1>5. CASE k \in Editors /\ kind # "moist"
  <2>1. WayTo(k, kind) = <<"topLayer", "editWaterLayer", "editWaterDetailLayer">>
    BY <1>5, Ways
  <2>2. /\ Above(<<"topLayer", "editWaterLayer", "editWaterDetailLayer">>) = "editWaterDetailLayer"
        /\ Upward(<<"topLayer", "editWaterLayer", "editWaterDetailLayer">>) = <<"topLayer", "editWaterLayer">>
    BY ShorterBy3
  <2>3. /\ Above(WayTo(k, kind)) = "editWaterDetailLayer"
        /\ Upward(WayTo(k, kind)) = WayTo("editWaterDetailLayer", kind)
    BY <2>1, <2>2, Ways
  <2> QED
    BY <1>5, <2>3, KeyboardNames DEF Editors
<1> QED
  BY <1>1, <1>2, <1>3, <1>4, <1>5, KeyboardNames DEF Editors

\* What leads to the menus of the plants.
LEMMA WayParents ==
  ASSUME NEW k \in Keyboard, NEW kind \in {"moist", "water"}, k # "topLayer",
         k = "editMoistDetailLayer" => kind = "moist",
         k = "editWaterDetailLayer" => kind = "water"
  PROVE  LET parent == Above(WayTo(k, kind))
         IN /\ parent = "editMoistLayer" => k = "editMoistDetailLayer"
            /\ parent \in Details => k \in Editors
<1>1. CASE k \in {"editMoistLayer", "editWaterLayer"}
  BY <1>1, Ways, ShorterBy1 DEF Details
<1>2. CASE k = "editMoistDetailLayer"
  <2>1. Above(<<"topLayer", "editMoistLayer">>) = "editMoistLayer"
    BY ShorterBy2
  <2> QED
    BY <1>2, <2>1, Ways DEF Details
<1>3. CASE k = "editWaterDetailLayer"
  <2>1. Above(<<"topLayer", "editWaterLayer">>) = "editWaterLayer"
    BY ShorterBy2
  <2> QED
    BY <1>3, <2>1, Ways DEF Details
<1>4. CASE k \in Editors
  <2>1. /\ Above(<<"topLayer", "editMoistLayer", "editMoistDetailLayer">>)
             = "editMoistDetailLayer"
        /\ Above(<<"topLayer", "editWaterLayer", "editWaterDetailLayer">>)
             = "editWaterDetailLayer"
    BY ShorterBy3
  <2> QED
    BY <1>4, <2>1, Ways DEF Details
<1> QED
  BY <1>1, <1>2, <1>3, <1>4, KeyboardNames DEF Editors

LEMMA WaysAreSequences ==
  ASSUME NEW k \in Keyboard \cup {"none"}, NEW kind
  PROVE  WayTo(k, kind) \in Seq(Keyboard)
<1>1. /\ <<>> \in Seq(Keyboard)
      /\ \A a \in Keyboard : <<a>> \in Seq(Keyboard)
      /\ \A a, b \in Keyboard : <<a, b>> \in Seq(Keyboard)
      /\ \A a, b, c \in Keyboard : <<a, b, c>> \in Seq(Keyboard)
  OBVIOUS
<1> QED
  BY <1>1, Ways, KeyboardNames DEF Editors

(***************************************************************************)
(* Fields and their limits.                                                *)
(***************************************************************************)
LEMMA LimitFacts ==
  /\ DOMAIN Limit = {"min", "max"} \cup PlantField \cup WaterField
  /\ \A n \in DOMAIN Limit : Limit[n] \in 0 .. WordTop
  /\ \A n \in DOMAIN Limit \ {"min", "max"} : Limit[n] \in 0 .. ByteTop
<1>1. /\ WordTop \in 0 .. WordTop /\ ByteTop \in 0 .. WordTop
      /\ PercentTop \in 0 .. WordTop
      /\ ByteTop \in 0 .. ByteTop /\ PercentTop \in 0 .. ByteTop
  BY KeyboardAssumption
<1> QED
  BY <1>1 DEF Limit, PlantField, WaterField

LEMMA FieldFacts ==
  \A f \in Field : f[1] \in DOMAIN Limit
BY LimitFacts DEF Field

\* Within its limits a number is stored as it is.
LEMMA StoredInRange ==
  ASSUME NEW f \in Field, NEW v \in Int, limits = <<0, Limit[f[1]]>>
  PROVE  Stored(f, Clamp(v)) \in 0 .. Limit[f[1]]
<1> DEFINE L == Limit[f[1]]
           u == Clamp(v)
<1>1. L \in Nat /\ (f[1] \notin {"min", "max"} => L <= ByteTop)
  BY FieldFacts, LimitFacts, KeyboardAssumption
<1>2. limits[1] = 0 /\ limits[2] = L
  OBVIOUS
<1>3. u \in 0 .. L
  BY <1>1, <1>2 DEF Clamp
<1>4. CASE f[1] \in {"min", "max"}
  BY <1>3, <1>4 DEF Stored
<1>5. CASE f[1] \notin {"min", "max"}
  <2> HIDE DEF u
  <2>1. u % (ByteTop + 1) = u
    BY <1>1, <1>3, <1>5, KeyboardAssumption
  <2> QED
    BY <1>3, <1>5, <2>1 DEF Stored, u
<1> QED
  BY <1>4, <1>5

----------------------------------------------------------------------------
(***************************************************************************)
(* The menu: opening and leaving keyboards.                                *)
(***************************************************************************)
MenuTypes == active \in Keyboard \cup {"none"} /\ history \in Seq(Keyboard)

LEMMA OpenKeeps ==
  ASSUME NEW k \in Keyboard, Open(k), row' \in SUBSET Plant,
         active \in Keyboard, history = WayTo(active, sel'[1]),
         Append(history, active) = WayTo(k, sel'[1]),
         shown \in SUBSET AllButtons
  PROVE  /\ active' \in {active, k} /\ history' = WayTo(active', sel'[1])
         /\ shown' \subseteq AllButtons
<1>1. Screen(k, row') \subseteq AllButtons
  BY ScreenButtons
<1> QED
  BY <1>1 DEF Open, Throws, menu

\* What a step of the menus keeps, whatever it does to the settings.
Kept ==
  /\ active \in Keyboard \cup {"none"} /\ shown \subseteq AllButtons
  /\ row \subseteq Plant /\ sel \in PlantSens \cup WaterSens
  /\ field \in Field \cup {NoField} /\ limits \in {0} \X (0 .. WordTop)
  /\ history = WayTo(active, sel[1]) /\ EditorArmed

InBounds ==
  /\ snap \in Settings /\ committed \in Settings
  /\ InRange(snap) /\ InRange(committed)

LEMMA KbInvParts ==
  KbInv <=> /\ Kept /\ InBounds /\ faults \in DOMAIN MaxChanges
            /\ changes \in 0 .. MaxChanges[faults]
<1>1. ASSUME Kept
      PROVE  history \in Seq(Keyboard)
  BY <1>1, WaysAreSequences DEF Kept
<1> QED
  BY <1>1 DEF KbInv, Kept, InBounds, KbTypeOK

LEMMA KbInvPartsNext ==
  KbInv' <=> /\ Kept' /\ InBounds' /\ faults' \in DOMAIN MaxChanges
             /\ changes' \in 0 .. MaxChanges[faults']
<1>1. ASSUME Kept'
      PROVE  history' \in Seq(Keyboard)
  BY <1>1, WaysAreSequences DEF Kept
<1> QED
  BY <1>1 DEF KbInv, Kept, InBounds, KbTypeOK

LEMMA SameBounds ==
  ASSUME InBounds, UNCHANGED <<snap, committed>>
  PROVE  InBounds'
BY DEF InBounds, InRange

LEMMA SensorKinds ==
  ASSUME NEW s \in PlantSens \cup WaterSens
  PROVE  /\ s[1] \in {"moist", "water"}
         /\ s[1] = "moist" <=> s \in PlantSens
         /\ s[1] = "moist" => s[2] \in Plant
BY DEF PlantSens, WaterSens

LEMMA NavigateKeeps ==
  ASSUME Kept, snap \in Settings, Navigate
  PROVE  /\ Kept' /\ UNCHANGED <<snap, committed, changes>>
         /\ active \in Keyboard /\ active' \in Keyboard
<1> USE DEF Kept
<1>0. active \in Keyboard /\ sel[1] \in {"moist", "water"}
  BY SensorKinds, KeyboardNames
  DEF Navigate, EditPlants, EditWaters, Back, EditPlant, EditWater, EditField,
      Pressed
<1>1. CASE EditPlants
  <2>1. active = "topLayer" /\ row' \subseteq Plant /\ UNCHANGED info
    BY <1>0, <1>1, ButtonPlaces, KeyboardAssumption
    DEF EditPlants, Pressed, Settings, Plant
  <2>2. /\ active' \in {active, "editMoistLayer"}
        /\ history' = WayTo(active', sel'[1]) /\ shown' \subseteq AllButtons
    BY <1>0, <1>1, <2>1, OpenKeeps, WayDown, KeyboardNames
    DEF EditPlants, info
  <2> QED
    BY <1>1, <2>1, <2>2, KeyboardNames DEF EditPlants, Open, EditorArmed, info
<1>2. CASE EditWaters
  <2>1. active = "topLayer" /\ row' \subseteq Plant /\ UNCHANGED info
    BY <1>0, <1>2, ButtonPlaces DEF EditWaters, Pressed
  <2>2. /\ active' \in {active, "editWaterLayer"}
        /\ history' = WayTo(active', sel'[1]) /\ shown' \subseteq AllButtons
    BY <1>0, <1>2, <2>1, OpenKeeps, WayDown, KeyboardNames
    DEF EditWaters, info
  <2> QED
    BY <1>2, <2>1, <2>2, KeyboardNames DEF EditWaters, Open, EditorArmed, info
<1>3. CASE Back
  <2>1. active # "topLayer" /\ UNCHANGED <<row, info>>
    BY <1>0, <1>3, ButtonPlaces DEF Back, Pressed
  <2>2. PICK parent \in Keyboard \ Editors :
          /\ parent = Above(history) /\ Upward(history) = WayTo(parent, sel[1])
          /\ parent = "editMoistDetailLayer" => sel[1] = "moist"
          /\ parent = "editWaterDetailLayer" => sel[1] = "water"
    BY <1>0, <2>1, WayBack DEF EditorArmed
  <2>3. \/ active' = parent /\ history' = Upward(history)
        \/ UNCHANGED menu
    BY <1>3, <2>2 DEF Back, Above, Upward
  <2>4. shown' \subseteq AllButtons
    BY <1>3, <2>2, ScreenButtons DEF Back, Throws, Above
  <2> QED
    BY <1>0, <1>3, <2>1, <2>2, <2>3, <2>4
    DEF Back, EditorArmed, info, menu, Editors
<1>4. ASSUME NEW p \in Plant, EditPlant(p)
      PROVE  /\ Kept' /\ UNCHANGED <<snap, committed, changes>>
             /\ active' \in Keyboard
  <2>1. active = "editMoistLayer" /\ UNCHANGED <<row, field, limits>>
        /\ sel' = <<"moist", p>>
    BY <1>0, <1>4, ButtonPlaces DEF EditPlant, Pressed
  <2>2. sel'[1] = "moist" /\ sel' \in PlantSens \cup WaterSens
    BY <2>1 DEF PlantSens
  <2>3. /\ history = WayTo(active, sel'[1])
        /\ Append(history, active) = WayTo("editMoistDetailLayer", sel'[1])
    <3>1. history = <<"topLayer">> /\ WayTo(active, sel'[1]) = <<"topLayer">>
      BY <2>1, Ways
    <3>2. Append(WayTo(active, sel'[1]), active)
            = WayTo("editMoistDetailLayer", sel'[1])
      BY <2>1, WayDown
    <3> QED
      BY <3>1, <3>2
  <2>4. /\ active' \in {active, "editMoistDetailLayer"}
        /\ history' = WayTo(active', sel'[1]) /\ shown' \subseteq AllButtons
    BY <1>0, <1>4, <2>1, <2>3, OpenKeeps, KeyboardNames DEF EditPlant
  <2> QED
    BY <1>4, <2>1, <2>2, <2>4, KeyboardNames DEF EditPlant, Open, EditorArmed
<1>5. ASSUME NEW w \in 0 .. 1, EditWater(w)
      PROVE  /\ Kept' /\ UNCHANGED <<snap, committed, changes>>
             /\ active' \in Keyboard
  <2>1. active = "editWaterLayer" /\ UNCHANGED <<row, field, limits>>
        /\ sel' = <<"water", w>>
    BY <1>0, <1>5, ButtonPlaces DEF EditWater, Pressed
  <2>2. sel'[1] = "water" /\ sel' \in PlantSens \cup WaterSens
    BY <2>1 DEF WaterSens
  <2>3. /\ history = WayTo(active, sel'[1])
        /\ Append(history, active) = WayTo("editWaterDetailLayer", sel'[1])
    <3>1. history = <<"topLayer">> /\ WayTo(active, sel'[1]) = <<"topLayer">>
      BY <2>1, Ways
    <3>2. Append(WayTo(active, sel'[1]), active)
            = WayTo("editWaterDetailLayer", sel'[1])
      BY <2>1, WayDown
    <3> QED
      BY <3>1, <3>2
  <2>4. /\ active' \in {active, "editWaterDetailLayer"}
        /\ history' = WayTo(active', sel'[1]) /\ shown' \subseteq AllButtons
    BY <1>0, <1>5, <2>1, <2>3, OpenKeeps, KeyboardNames DEF EditWater
  <2> QED
    BY <1>5, <2>1, <2>2, <2>4, KeyboardNames DEF EditWater, Open, EditorArmed
<1>6. ASSUME NEW name \in DOMAIN Limit, EditField(name)
      PROVE  /\ Kept' /\ UNCHANGED <<snap, committed, changes>>
             /\ active' \in Keyboard
  <2>1. /\ <<name, 0>> \in ButtonsOf[active] /\ UNCHANGED <<row, sel>>
        /\ Arm(name) /\ Open(EditorOf(name))
    BY <1>6 DEF EditField, Pressed
  <2>2. /\ active \in Details /\ EditorOf(name) \in Editors
        /\ name \in PlantField => active = "editMoistDetailLayer"
        /\ name \in WaterField => active = "editWaterDetailLayer"
    BY <1>0, <2>1, ButtonPlaces, LimitFacts
    DEF EditorOf, Editors, Details
  <2>3. /\ active = "editMoistDetailLayer" => sel[1] = "moist"
        /\ active = "editWaterDetailLayer" => sel[1] = "water"
    BY DEF EditorArmed
  <2>4. HasField(name)
    BY <2>2, <2>3, LimitFacts DEF HasField, PlantField, WaterField
  <2>5. field' = <<name, sel>> /\ limits' = <<0, Limit[name]>>
    BY <2>1, <2>4 DEF Arm
  <2>6. field' \in Field
    BY <2>2, <2>3, <2>5, LimitFacts, SensorKinds DEF Field
  <2>7. Append(history, active) = WayTo(EditorOf(name), sel[1])
    BY <1>0, <2>2, <2>3, WayDown DEF Details
  <2>8. /\ active' \in {active, EditorOf(name)}
        /\ history' = WayTo(active', sel'[1]) /\ shown' \subseteq AllButtons
    BY <1>0, <2>1, <2>2, <2>7, OpenKeeps, KeyboardNames DEF Editors
  <2>9. EditorArmed'
    <3>1. name # "none"
      BY LimitFacts DEF PlantField, WaterField
    <3>2. field' # NoField /\ field'[1] = name /\ field'[2] = sel'
      BY <2>1, <2>5, <3>1 DEF NoField
    <3>3. EditorOf(field'[1]) = EditorOf(name)
      BY <3>2 DEF EditorOf
    <3> QED
      BY <2>1, <2>2, <2>3, <2>5, <2>8, <3>2, <3>3
      DEF EditorArmed, EditorOf, Details, Editors
  <2> QED
    BY <1>0, <2>1, <2>2, <2>5, <2>6, <2>8, <2>9, LimitFacts, KeyboardNames
    DEF Open, Editors
<1> QED
  BY <1>0, <1>1, <1>2, <1>3, <1>4, <1>5, <1>6 DEF Navigate

----------------------------------------------------------------------------
(***************************************************************************)
(* The settings: changes, and the end of a session.                        *)
(***************************************************************************)
LEMMA ChangeKeeps ==
  ASSUME Kept, active \in Keyboard, faults \in DOMAIN MaxChanges,
         changes \in 0 .. MaxChanges[faults], NEW new, Change(new)
  PROVE  /\ Kept' /\ snap' = new /\ UNCHANGED <<active, committed>>
         /\ changes' \in 0 .. MaxChanges[faults]
<1>1. Screen(active, row) \subseteq AllButtons
  BY ScreenButtons DEF Kept
<1>2. shown' \subseteq AllButtons
  BY <1>1 DEF Change, Redraw, Throws, Kept
<1>3. changes' \in 0 .. MaxChanges[faults]
  <2>1. MaxChanges[faults] \in Nat
    BY KeyboardAssumption
  <2> QED
    BY <2>1 DEF Change
<1> QED
  BY <1>2, <1>3 DEF Change, Kept, menu, info, EditorArmed

LEMMA UpdateInBounds ==
  ASSUME Kept, snap \in Settings, InRange(snap), NEW d \in Int,
         field \in Field, limits = <<0, Limit[field[1]]>>
  PROVE  LET new == [snap EXCEPT !.val[field] = Stored(field, Clamp(@ + d))]
         IN new \in Settings /\ InRange(new)
<1> DEFINE v == Stored(field, Clamp(snap.val[field] + d))
           new == [snap EXCEPT !.val[field] = v]
<1>1. snap.val \in [Field -> 0 .. WordTop] /\ snap.val[field] + d \in Int
  BY KeyboardAssumption DEF Settings
<1>2. v \in 0 .. Limit[field[1]]
  BY <1>1, StoredInRange
<1> HIDE DEF v
<1>3. Limit[field[1]] \in 0 .. WordTop
  BY FieldFacts, LimitFacts
<1>4. v \in 0 .. WordTop /\ v <= Limit[field[1]]
  BY <1>2, <1>3, KeyboardAssumption
<1>5. new.val = [snap.val EXCEPT ![field] = v] /\ new \in Settings
  BY <1>1, <1>4 DEF Settings
<1>6. InRange(new)
  BY <1>1, <1>4, <1>5 DEF InRange
<1> QED
  BY <1>5, <1>6 DEF v

LEMMA AddInBounds ==
  ASSUME snap \in Settings, InRange(snap), snap.numPlants < MaxPlants
  PROVE  LET p == snap.numPlants
             s == <<"moist", p>>
             new == [snap EXCEPT !.numPlants = p + 1,
                       !.val[<<"min", s>>] = 0, !.val[<<"max", s>>] = 0,
                       !.val[<<"target", s>>] = 0,
                       !.skip = @ \cup {p}, !.useW2 = @ \ {p}]
         IN new \in Settings /\ InRange(new)
<1> DEFINE p == snap.numPlants
           s == <<"moist", p>>
           val == [snap.val EXCEPT ![<<"min", s>>] = 0, ![<<"max", s>>] = 0,
                                   ![<<"target", s>>] = 0]
           new == [snap EXCEPT !.numPlants = p + 1, !.val = val,
                               !.skip = @ \cup {p}, !.useW2 = @ \ {p}]
<1>1. /\ snap.val \in [Field -> 0 .. WordTop] /\ p \in Plant
      /\ p + 1 \in 0 .. MaxPlants /\ 0 \in 0 .. WordTop
  BY KeyboardAssumption DEF Settings, Plant
<1>2. val \in [Field -> 0 .. WordTop]
  BY <1>1
<1>3. \A f \in Field : val[f] = snap.val[f] \/ val[f] = 0
  BY <1>1
<1>4. \A f \in Field : val[f] <= Limit[f[1]]
  BY <1>3, FieldFacts, LimitFacts, KeyboardAssumption DEF InRange
<1> HIDE DEF val
<1>5. new \in Settings /\ new.val = val
  BY <1>1, <1>2 DEF Settings
<1>6. InRange(new)
  BY <1>4, <1>5 DEF InRange
<1>7. [snap EXCEPT !.numPlants = p + 1,
         !.val[<<"min", s>>] = 0, !.val[<<"max", s>>] = 0,
         !.val[<<"target", s>>] = 0,
         !.skip = @ \cup {p}, !.useW2 = @ \ {p}] = new
  BY DEF Settings, val
<1> QED
  BY <1>5, <1>6, <1>7

LEMMA ChangeSettingsKeeps ==
  ASSUME Kept, InBounds, faults \in DOMAIN MaxChanges,
         changes \in 0 .. MaxChanges[faults], ChangeSettings
  PROVE  /\ Kept' /\ InBounds' /\ changes' \in 0 .. MaxChanges[faults]
         /\ active \in Keyboard /\ UNCHANGED <<active, committed>>
<1> USE DEF InBounds
<1>0. active \in Keyboard
  BY DEF Kept, ChangeSettings, UpdateValue, AddPlant, RemovePlant, Pressed,
         ClearHardwareFailure, ToggleDebug, ToggleWaterSens, ToggleSkip
<1>1. ASSUME NEW new \in Settings, InRange(new), Change(new)
      PROVE  /\ Kept' /\ InBounds' /\ changes' \in 0 .. MaxChanges[faults]
             /\ UNCHANGED <<active, committed>>
  BY <1>0, <1>1, ChangeKeeps DEF InRange
<1>2. ASSUME NEW d \in Int, UpdateValue(d)
      PROVE  /\ Kept' /\ InBounds' /\ changes' \in 0 .. MaxChanges[faults]
             /\ UNCHANGED <<active, committed>>
  <2>1. active \in Editors /\ field # NoField
    BY <1>0, <1>2, ButtonPlaces DEF UpdateValue, Pressed
  <2>2. field \in Field /\ limits = <<0, Limit[field[1]]>>
    BY <2>1 DEF Kept, EditorArmed, Editors
  <2> QED
    BY <1>1, <1>2, <2>2, UpdateInBounds DEF UpdateValue
<1>3. CASE AddPlant
  <2>1. PICK new \in Settings : InRange(new) /\ Change(new)
    BY <1>3, AddInBounds DEF AddPlant
  <2> QED
    BY <1>0, <1>1, <2>1
<1>4. CASE RemovePlant
  <2> DEFINE new == [snap EXCEPT !.numPlants = @ - 1]
  <2>1. snap.numPlants - 1 \in 0 .. MaxPlants
    BY <1>4, KeyboardAssumption DEF RemovePlant, Settings
  <2>2. new \in Settings /\ new.val = snap.val
    BY <2>1 DEF Settings
  <2>3. InRange(new) /\ Change(new)
    BY <1>4, <2>2 DEF InRange, RemovePlant
  <2> QED
    BY <1>0, <1>1, <2>2, <2>3
<1>5. CASE ClearHardwareFailure
  <2> DEFINE new == [snap EXCEPT !.fail = FALSE]
  <2>1. new \in Settings /\ new.val = snap.val
    BY DEF Settings
  <2>2. InRange(new) /\ Change(new)
    BY <1>5, <2>1 DEF InRange, ClearHardwareFailure
  <2> QED
    BY <1>0, <1>1, <2>1, <2>2
<1>6. CASE ToggleDebug
  <2> DEFINE new == [snap EXCEPT !.debug = ~@]
  <2>1. new \in Settings /\ new.val = snap.val
    BY DEF Settings
  <2>2. InRange(new) /\ Change(new)
    BY <1>6, <2>1 DEF InRange, ToggleDebug
  <2> QED
    BY <1>0, <1>1, <2>1, <2>2
<1>7. CASE ToggleWaterSens
  <2> DEFINE new == [snap EXCEPT !.useW2 = Toggle(@, sel[2])]
  <2>1. active = "editMoistDetailLayer"
    BY <1>0, <1>7, ButtonPlaces DEF ToggleWaterSens, Pressed
  <2>2. sel[2] \in Plant
    BY <2>1, SensorKinds DEF Kept, EditorArmed
  <2>3. new \in Settings /\ new.val = snap.val
    BY <2>2 DEF Settings, Toggle
  <2>4. InRange(new) /\ Change(new)
    BY <1>7, <2>3 DEF InRange, ToggleWaterSens
  <2> QED
    BY <1>0, <1>1, <2>3, <2>4
<1>8. CASE ToggleSkip
  <2> DEFINE new == [snap EXCEPT !.skip = Toggle(@, sel[2])]
  <2>1. active = "editMoistDetailLayer"
    BY <1>0, <1>8, ButtonPlaces DEF ToggleSkip, Pressed
  <2>2. sel[2] \in Plant
    BY <2>1, SensorKinds DEF Kept, EditorArmed
  <2>3. new \in Settings /\ new.val = snap.val
    BY <2>2 DEF Settings, Toggle
  <2>4. InRange(new) /\ Change(new)
    BY <1>8, <2>3 DEF InRange, ToggleSkip
  <2> QED
    BY <1>0, <1>1, <2>3, <2>4
<1>9. \A d \in Steps : d \in Int /\ -d \in Int
  <2>1. \A d \in Nat : d \in Int /\ -d \in Int
    OBVIOUS
  <2> QED
    BY <2>1, KeyboardAssumption
<1> QED
  BY <1>0, <1>2, <1>3, <1>4, <1>5, <1>6, <1>7, <1>8, <1>9
  DEF ChangeSettings

LEMMA EndKeeps ==
  ASSUME Kept, InBounds, Commit \/ Abort
  PROVE  Kept' /\ InBounds' /\ UNCHANGED changes
<1>1. /\ active' = "none" /\ history' = <<>> /\ UNCHANGED <<row, info>>
      /\ UNCHANGED <<snap, changes>> /\ committed' \in {snap, committed}
      /\ shown' = {} \/ UNCHANGED shown
  BY DEF Commit, Abort, Leave, Redraw, Throws
<1>2. Kept'
  BY <1>1, Ways DEF Kept, EditorArmed, info
<1>3. InBounds'
  BY <1>1 DEF InBounds, InRange
<1> QED
  BY <1>1, <1>2, <1>3

LEMMA BeginKeeps ==
  ASSUME Kept, InBounds, EditCommand
  PROVE  /\ Kept' /\ InBounds' /\ UNCHANGED changes
         /\ active' = "topLayer" /\ shown' \subseteq ButtonsOf["topLayer"]
<1>1. /\ active' = "topLayer" /\ history' = <<>> /\ UNCHANGED <<row, info>>
      /\ snap' = committed /\ UNCHANGED <<committed, changes>>
      /\ shown' \subseteq ButtonsOf["topLayer"]
  BY DEF EditCommand
<1>2. "topLayer" \in Keyboard
  BY KeyboardNames
<1>3. shown' \subseteq AllButtons
  BY <1>1, <1>2 DEF AllButtons
<1>4. Kept'
  BY <1>1, <1>2, <1>3, Ways DEF Kept, EditorArmed, info
<1>5. InBounds'
  BY <1>1 DEF InBounds, InRange
<1> QED
  BY <1>1, <1>4, <1>5

----------------------------------------------------------------------------
(***************************************************************************)
(* The invariant, and what the steps are to an edit session.               *)
(***************************************************************************)
LEMMA KbInvInit == KbInit => KbInv
<1> SUFFICES ASSUME KbInit PROVE KbInv
  OBVIOUS
<1>1. Kept
  <2>1. sel \in PlantSens /\ 0 \in 0 .. WordTop
    BY KeyboardAssumption DEF KbInit, PlantSens, Plant
  <2> QED
    BY <2>1, Ways DEF KbInit, Kept, EditorArmed
<1>2. InBounds
  BY KeyboardAssumption DEF KbInit, InBounds
<1>3. MaxChanges[faults] \in Nat /\ changes = 0 /\ faults \in DOMAIN MaxChanges
  BY KeyboardAssumption DEF KbInit
<1> QED
  BY <1>1, <1>2, <1>3, KbInvParts

LEMMA KbStep ==
  ASSUME KbInv, [KbNext]_kbVars
  PROVE  /\ KbInv'
         /\ [Session!Begin \/ Session!Edit \/ Session!Commit \/ Session!Drop]_
               Session!sessionVars
<1>1. /\ Kept /\ InBounds /\ faults \in DOMAIN MaxChanges
      /\ changes \in 0 .. MaxChanges[faults]
  BY KbInvParts
<1>2. UNCHANGED faults
  BY DEF KbNext, kbVars
<1>3. SUFFICES /\ Kept' /\ InBounds' /\ changes' \in 0 .. MaxChanges[faults]
               /\ [Session!Begin \/ Session!Edit \/ Session!Commit
                     \/ Session!Drop]_Session!sessionVars
  BY <1>1, <1>2, KbInvParts, KbInvPartsNext
<1>4. CASE Navigate
  BY <1>1, <1>4, NavigateKeeps, SameBounds, KeyboardNames
  DEF InBounds, Session!sessionVars
<1>5. CASE ChangeSettings
  BY <1>1, <1>5, ChangeSettingsKeeps, KeyboardNames
  DEF InBounds, Session!Edit
<1>6. CASE Commit \/ Abort
  <2>1. active # "none" /\ active' = "none" /\ UNCHANGED snap
        /\ committed' \in {snap, committed}
    BY <1>6 DEF Commit, Abort, Leave, Pressed, Redraw
  <2> QED
    BY <1>1, <1>6, <2>1, EndKeeps DEF Session!Commit, Session!Drop
<1>7. CASE EditCommand
  <2>1. active' = "topLayer" /\ snap' = committed /\ UNCHANGED committed
    BY <1>7 DEF EditCommand
  <2> QED
    BY <1>1, <1>7, <2>1, BeginKeeps DEF Session!Begin
<1>8. CASE UNCHANGED kbVars
  BY <1>1, <1>8
  DEF kbVars, menu, info, Kept, InBounds, InRange, EditorArmed,
      Session!sessionVars
<1> QED
  BY <1>4, <1>5, <1>6, <1>7, <1>8 DEF KbNext

LEMMA KbInvariant == KbSpec => []KbInv
BY KbInvInit, KbStep, PTL DEF KbSpec

(***************************************************************************)
(* The branches the code calls impossible are impossible (keyboards.cpp:91 *)
(* and "TODO wtf"), whatever failed or was pressed before.                 *)
(***************************************************************************)
THEOREM EditorsAreArmed == KbSpec => []EditorArmed
BY KbInvariant, PTL DEF KbInv

(***************************************************************************)
(* The server's settings stay in the ranges of the menus, and no number    *)
(* leaves its width on the way (updateValue(), keyboards.cpp).             *)
(***************************************************************************)
THEOREM CommitsStayInRange == KbSpec => []CommittedInRange
<1>1. KbInv => CommittedInRange
  BY DEF KbInv, CommittedInRange
<1> QED
  BY <1>1, KbInvariant, PTL

(***************************************************************************)
(* The way back is the way taken.                                          *)
(***************************************************************************)
THEOREM HistoryIsThePath == KbSpec => []MenuPath
<1>1. ASSUME NEW k \in Keyboard, NEW kind \in {"moist", "water"},
             k = "editMoistDetailLayer" => kind = "moist",
             k = "editWaterDetailLayer" => kind = "water"
      PROVE  LET way == WayTo(k, kind)
                 path == Append(way, k)
             IN /\ path[1] = "topLayer"
                /\ \A i \in 1 .. Len(way) : <<path[i], path[i + 1]>> \in Opens
  <2> DEFINE way == WayTo(k, kind)
             path == Append(way, k)
  <2> SUFFICES /\ path[1] = "topLayer"
               /\ \A i \in 1 .. Len(way) : <<path[i], path[i + 1]>> \in Opens
    OBVIOUS
  <2>1. /\ way \in Seq(Keyboard) /\ path[Len(way) + 1] = k
        /\ \A i \in 1 .. Len(way) : path[i] = way[i]
    BY WaysAreSequences, AppendProperties
  <2>2. CASE k = "topLayer"
    <3>1. way = <<>>
      BY <2>2, Ways
    <3>2. /\ Len(way) = 0
      BY <3>1
    <3> HIDE DEF way, path
    <3> QED
      BY <2>1, <2>2, <3>2 DEF Opens, Editors
  <2>3. CASE k \in {"editMoistLayer", "editWaterLayer"}
    <3>1. way = <<"topLayer">>
      BY <2>3, Ways
    <3>2. /\ Len(way) = 1
          /\ way[1] = "topLayer"
      BY <3>1
    <3> HIDE DEF way, path
    <3> QED
      BY <2>1, <2>3, <3>2 DEF Opens, Editors
  <2>4. CASE k = "editMoistDetailLayer"
    <3>1. way = <<"topLayer", "editMoistLayer">>
      BY <2>4, Ways
    <3>2. /\ Len(way) = 2
          /\ way[1] = "topLayer"
          /\ way[2] = "editMoistLayer"
      BY <3>1
    <3> HIDE DEF way, path
    <3> QED
      BY <2>1, <2>4, <3>2 DEF Opens, Editors
  <2>5. CASE k = "editWaterDetailLayer"
    <3>1. way = <<"topLayer", "editWaterLayer">>
      BY <2>5, Ways
    <3>2. /\ Len(way) = 2
          /\ way[1] = "topLayer"
          /\ way[2] = "editWaterLayer"
      BY <3>1
    <3> HIDE DEF way, path
    <3> QED
      BY <2>1, <2>5, <3>2 DEF Opens, Editors
  <2>6. CASE k \in Editors /\ kind = "moist"
    <3>1. way = <<"topLayer", "editMoistLayer", "editMoistDetailLayer">>
      BY <2>6, Ways
    <3>2. /\ Len(way) = 3
          /\ way[1] = "topLayer"
          /\ way[2] = "editMoistLayer"
          /\ way[3] = "editMoistDetailLayer"
      BY <3>1
    <3> HIDE DEF way, path
    <3> QED
      BY <2>1, <2>6, <3>2 DEF Opens, Editors
  <2>7. CASE k \in Editors /\ kind # "moist"
    <3>1. way = <<"topLayer", "editWaterLayer", "editWaterDetailLayer">>
      BY <2>7, Ways
    <3>2. /\ Len(way) = 3
          /\ way[1] = "topLayer"
          /\ way[2] = "editWaterLayer"
          /\ way[3] = "editWaterDetailLayer"
      BY <3>1
    <3> HIDE DEF way, path
    <3> QED
      BY <2>1, <2>7, <3>2 DEF Opens, Editors
  <2> QED
    BY <2>2, <2>3, <2>4, <2>5, <2>6, <2>7, KeyboardNames DEF Editors
<1>2. KbInv => MenuPath
  BY <1>1, SensorKinds, Ways DEF KbInv, KbTypeOK, EditorArmed, MenuPath
<1> QED
  BY <1>2, KbInvariant, PTL

(***************************************************************************)
(* Whatever throws and whichever message is used, the menus give edit      *)
(* sessions: all of a session's changes are committed, or none.            *)
(***************************************************************************)
THEOREM SessionsAreAtomic == KbSpec => EditsInSession
<1>1. KbInit => Session!SessionInit
  BY KeyboardAssumption DEF KbInit, Session!SessionInit
<1>2. KbInv /\ [KbNext]_kbVars =>
        [Session!Begin \/ Session!Edit \/ Session!Commit \/ Session!Drop]_
          Session!sessionVars
  BY KbStep
<1> QED
  BY <1>1, <1>2, KbInvariant, PTL
  DEF KbSpec, EditsInSession, Session!SessionSpec

----------------------------------------------------------------------------
(***************************************************************************)
(* With one message whose requests take effect or fail, that message shows *)
(* the active keyboard, and the plants it offers and edits exist.          *)
(***************************************************************************)
PlantsShown ==
  active = "editMoistLayer" \/ (sel[1] = "moist" /\ active \in Details \cup Editors)

Valid(ps) == \A p \in ps : p < snap.numPlants

MessageInv ==
  OneMessage /\ active # "none" =>
    /\ shown \subseteq Screen(active, row)
    /\ PlantsShown => Valid(row)
    /\ PlantsShown /\ active # "editMoistLayer" => sel[2] < snap.numPlants

LEMMA OneMessageFacts ==
  ASSUME OneMessage
  PROVE  /\ \A screen : Throws(screen) => UNCHANGED shown
         /\ \A b : Pressed(b) => active # "none" /\ b \in shown
BY DEF OneMessage, Throws, Pressed

LEMMA MessageNavigate ==
  ASSUME Kept, snap \in Settings, MessageInv, OneMessage, Navigate,
         UNCHANGED faults
  PROVE  MessageInv'
<1>0. /\ active \in Keyboard /\ UNCHANGED snap /\ sel[1] \in {"moist", "water"}
      /\ sel'[1] \in {"moist", "water"} /\ active # "none"
  BY NavigateKeeps, SensorKinds, KeyboardNames DEF Kept
<1>1. /\ shown \subseteq Screen(active, row)
      /\ PlantsShown => Valid(row)
      /\ PlantsShown /\ active # "editMoistLayer" => sel[2] < snap.numPlants
  BY <1>0 DEF MessageInv
<1>2. ASSUME NEW k \in Keyboard, Open(k)
      PROVE  \/ active' = k /\ shown' = Screen(k, row')
             \/ active' = active /\ UNCHANGED shown
  BY <1>2, OneMessageFacts DEF Open, menu
<1>3. /\ active = "editMoistDetailLayer" => sel[1] = "moist"
      /\ active = "editWaterDetailLayer" => sel[1] = "water"
  BY DEF Kept, EditorArmed
<1>4. CASE EditPlants
  <2>1. active = "topLayer" /\ row' = 0 .. snap.numPlants - 1
    BY <1>0, <1>4, ButtonPlaces DEF EditPlants, Pressed
  <2>2. Valid(row)'
    BY <1>0, <2>1, KeyboardAssumption DEF Valid, Settings
  <2>3. \/ active' = "editMoistLayer" /\ shown' = Screen("editMoistLayer", row')
        \/ active' = active /\ UNCHANGED shown
    BY <1>2, <1>4, KeyboardNames DEF EditPlants
  <2>4. shown' \subseteq Screen(active', row')
    BY <1>1, <2>1, <2>3 DEF Screen
  <2> QED
    BY <2>1, <2>2, <2>3, <2>4 DEF MessageInv, PlantsShown, Details, Editors
<1>5. CASE EditWaters
  <2>1. active = "topLayer" /\ UNCHANGED <<row, sel>>
    BY <1>0, <1>5, ButtonPlaces DEF EditWaters, Pressed, info
  <2>2. \/ active' = "editWaterLayer" /\ shown' = Screen("editWaterLayer", row')
        \/ active' = active /\ UNCHANGED shown
    BY <1>2, <1>5, KeyboardNames DEF EditWaters
  <2> QED
    BY <1>1, <2>1, <2>2 DEF MessageInv, PlantsShown, Details, Editors, Screen
<1>6. CASE Back
  <2>1. active # "topLayer" /\ UNCHANGED <<row, sel>>
    BY <1>0, <1>6, ButtonPlaces DEF Back, Pressed, info
  <2>2. PICK parent \in Keyboard \ Editors :
          /\ parent = Above(history) /\ Upward(history) = WayTo(parent, sel[1])
          /\ parent = "editMoistDetailLayer" => sel[1] = "moist"
          /\ parent = "editWaterDetailLayer" => sel[1] = "water"
    BY <1>0, <1>3, <2>1, WayBack DEF Kept
  <2>3. \/ active' = parent /\ shown' = Screen(parent, row)
        \/ active' = active /\ UNCHANGED shown
    BY <1>6, <2>2, OneMessageFacts DEF Back, Above, menu
  <2>4. CASE active' = active /\ UNCHANGED shown
    BY <1>0, <1>1, <2>1, <2>4 DEF MessageInv, PlantsShown, Valid
  <2>5. CASE active' = parent /\ shown' = Screen(parent, row)
    <3>1. PlantsShown' => PlantsShown
      <4>1. SUFFICES ASSUME parent = "editMoistLayer" PROVE PlantsShown
        BY <1>0, <2>1, <2>2, <2>5, WayParents
        DEF Kept, PlantsShown, Details, Editors
      <4> QED
        BY <1>0, <1>3, <2>1, <2>2, <4>1, WayParents
        DEF Kept, PlantsShown, Details
    <3>2. active' # "editMoistLayer" /\ PlantsShown' => active # "editMoistLayer"
      BY <2>1, <2>2, <2>5, WayParents DEF Kept, PlantsShown, Details, Editors
    <3> QED
      BY <1>0, <1>1, <2>1, <2>5, <3>1, <3>2 DEF MessageInv, Valid
  <2> QED
    BY <2>3, <2>4, <2>5
<1>7. ASSUME NEW p \in Plant, EditPlant(p)
      PROVE  MessageInv'
  <2>1. /\ active = "editMoistLayer" /\ UNCHANGED row /\ sel' = <<"moist", p>>
        /\ <<"edit_p", p>> \in shown
    BY <1>0, <1>7, ButtonPlaces, OneMessageFacts DEF EditPlant, Pressed
  <2>2. p \in row
    BY <1>1, <2>1 DEF Screen, PlantButtons, Buttons
  <2>3. Valid(row) /\ p < snap.numPlants
    BY <1>1, <2>1, <2>2 DEF PlantsShown, Valid
  <2>4. \/ /\ active' = "editMoistDetailLayer"
           /\ shown' = Screen("editMoistDetailLayer", row')
        \/ active' = active /\ UNCHANGED shown
    BY <1>2, <1>7, KeyboardNames DEF EditPlant
  <2>5. shown' \subseteq Screen(active', row') /\ sel'[2] = p
    BY <1>1, <2>1, <2>4
  <2> QED
    BY <1>0, <2>1, <2>3, <2>5 DEF MessageInv, Valid
<1>8. ASSUME NEW w \in 0 .. 1, EditWater(w)
      PROVE  MessageInv'
  <2>1. active = "editWaterLayer" /\ UNCHANGED row /\ sel' = <<"water", w>>
    BY <1>0, <1>8, ButtonPlaces DEF EditWater, Pressed
  <2>2. \/ /\ active' = "editWaterDetailLayer"
           /\ shown' = Screen("editWaterDetailLayer", row')
        \/ active' = active /\ UNCHANGED shown
    BY <1>2, <1>8, KeyboardNames DEF EditWater
  <2>3. sel'[1] = "water"
    BY <2>1
  <2> QED
    BY <1>1, <2>1, <2>2, <2>3 DEF MessageInv, PlantsShown, Details, Editors
<1>9. ASSUME NEW name \in DOMAIN Limit, EditField(name)
      PROVE  MessageInv'
  <2>1. active \in Details /\ UNCHANGED <<row, sel>> /\ EditorOf(name) \in Editors
    BY <1>0, <1>9, ButtonPlaces, LimitFacts
    DEF EditField, Pressed, EditorOf, Details, Editors
  <2>2. \/ active' = EditorOf(name) /\ shown' = Screen(EditorOf(name), row')
        \/ active' = active /\ UNCHANGED shown
    BY <1>2, <1>9, <2>1, KeyboardNames DEF EditField, Editors
  <2> QED
    BY <1>0, <1>1, <2>1, <2>2
    DEF MessageInv, PlantsShown, Details, Editors, Valid
<1> QED
  BY <1>4, <1>5, <1>6, <1>7, <1>8, <1>9 DEF Navigate

LEMMA MessageChange ==
  ASSUME Kept, snap \in Settings, MessageInv, OneMessage, ChangeSettings,
         UNCHANGED faults
  PROVE  MessageInv'
<1>1. PICK new : Change(new)
  BY DEF ChangeSettings, UpdateValue, AddPlant, RemovePlant, ToggleSkip,
         ClearHardwareFailure, ToggleDebug, ToggleWaterSens
<1>2. /\ UNCHANGED <<menu, row, info, active, sel>> /\ snap' = new
      /\ shown' = Screen(active, row) \/ UNCHANGED shown
  BY <1>1, OneMessageFacts DEF Change, Redraw, menu, info
<1>3. active # "none" /\ active \in Keyboard
  BY DEF ChangeSettings, UpdateValue, AddPlant, RemovePlant, ToggleSkip,
         ClearHardwareFailure, ToggleDebug, ToggleWaterSens, Pressed, Kept
<1>4. CASE AddPlant \/ RemovePlant
  <2>1. active = "topLayer"
    BY <1>3, <1>4, ButtonPlaces DEF AddPlant, RemovePlant, Pressed
  <2> QED
    BY <1>2, <1>3, <2>1 DEF MessageInv, PlantsShown, Details, Editors
<1>5. CASE ~(AddPlant \/ RemovePlant)
  <2>1. snap'.numPlants = snap.numPlants
    BY <1>5
    DEF ChangeSettings, UpdateValue, ToggleSkip, ClearHardwareFailure,
        ToggleDebug, ToggleWaterSens, Change, Settings
  <2> QED
    BY <1>2, <1>3, <2>1 DEF MessageInv, PlantsShown, Valid
<1> QED
  BY <1>4, <1>5

LEMMA MessageStep == KbInv /\ MessageInv /\ [KbNext]_kbVars => MessageInv'
<1> SUFFICES ASSUME KbInv, MessageInv, [KbNext]_kbVars, OneMessage
             PROVE  MessageInv'
  BY DEF MessageInv, OneMessage, KbNext, kbVars
<1>1. /\ Kept /\ InBounds /\ snap \in Settings /\ UNCHANGED faults
  BY KbInvParts DEF InBounds, KbNext, kbVars
<1>2. CASE Navigate
  BY <1>1, <1>2, MessageNavigate
<1>3. CASE ChangeSettings
  BY <1>1, <1>3, MessageChange
<1>4. CASE Commit \/ Abort
  BY <1>4 DEF Commit, Abort, Leave, MessageInv
<1>5. CASE EditCommand
  <2>1. active' = "topLayer" /\ shown' \subseteq ButtonsOf["topLayer"]
    BY <1>1, <1>5, BeginKeeps
  <2> QED
    BY <2>1 DEF MessageInv, PlantsShown, Details, Editors, Screen
<1>6. CASE UNCHANGED kbVars
  BY <1>6 DEF kbVars, menu, info, MessageInv, PlantsShown, Valid
<1> QED
  BY <1>2, <1>3, <1>4, <1>5, <1>6 DEF KbNext

(***************************************************************************)
(* As long as one message is used and requests take effect or fail, users  *)
(* see what the menus know and edit plants that exist (keyboards.cpp:310). *)
(***************************************************************************)
THEOREM UsersSeeTheMenus == KbSpec => []OneMessageWorks
<1>1. KbInit => MessageInv
  BY DEF KbInit, MessageInv
<1>2. KbInv /\ MessageInv => OneMessageWorks
  <2> SUFFICES ASSUME KbInv, MessageInv, OneMessage
               PROVE  ShownWorks /\ EditsActivePlants
    BY DEF OneMessageWorks
  <2>1. Kept
    BY KbInvParts
  <2>2. ShownWorks
    <3>1. active # "none" => Screen(active, row) \subseteq ButtonsOf[active]
      BY <2>1, ScreenButtons DEF Kept
    <3> QED
      BY <3>1 DEF MessageInv, ShownWorks
  <2>3. EditsActivePlants
    BY DEF MessageInv, EditsActivePlants, PlantsShown, Details, Editors
  <2> QED
    BY <2>2, <2>3
<1> QED
  BY <1>1, <1>2, KbInvariant, MessageStep, PTL DEF KbSpec
============================================================================
