--------------------------- MODULE Console_proofs ---------------------------
(***************************************************************************)
(* Theorems of Console.tla, for arrays of any size, any number of          *)
(* addresses, any characters and any number of losses of power.            *)
(***************************************************************************)
EXTENDS Console, TLAPS, SequenceTheorems, WellFoundedInduction

-----------------------------------------------------------------------------
(* Arrays and records.                                                     *)

\* The array f has n cells.
Cells(f, n) == f = [i \in 1..n |-> f[i]]

LEMMA CellsCounted ==
  ASSUME NEW n \in Nat, NEW f, Cells(f, n)
  PROVE  DOMAIN f = 1..n /\ Len(f) = n
<1> DEFINE V == {f[i] : i \in 1..n}
<1>1. f \in [1..n -> V]
  BY DEF Cells
<1>2. f \in Seq(V)
  BY <1>1
<1>3. DOMAIN f = 1..n
  BY <1>1
<1>4. Len(f) \in Nat /\ DOMAIN f = 1..Len(f)
  BY <1>2
<1> QED
  BY <1>3, <1>4

Names == {Records[i] : i \in DOMAIN Records}

LEMMA NamesListed ==
  /\ Names = {"ssid", "password", "adresse", "StationName", "t_sleep"}
  /\ DOMAIN Records = 1..5 /\ Len(Records) = 5
  /\ Records[1] = "ssid" /\ Records[2] = "password" /\ Records[3] = "adresse"
  /\ Records[4] = "StationName" /\ Records[5] = "t_sleep"
  /\ Arrays = {"ssid", "password", "adresse", "StationName", "topic"}
BY DEF Names, Records, Arrays, Size

LEMMA NamesDiffer ==
  \A i, j \in 1..5 : Records[i] = Records[j] => i = j
BY NamesListed

Cell(r) == IF r = "t_sleep" THEN 1 ELSE Size[r]

LEMMA SizesPositive ==
  /\ \A a \in Arrays : Size[a] \in Nat \ {0}
  /\ \A r \in Names : Cell(r) \in Nat \ {0}
<1>1. MAX_ADRESSE_LENGTH * NB_ADRESSE \in Nat \ {0}
  BY ConsoleAssumption
<1>2. \A a \in Arrays : Size[a] \in Nat \ {0}
  BY <1>1, ConsoleAssumption DEF Arrays, Size
<1> QED
  BY <1>2, NamesListed DEF Cell

\* Every string has room for a character and the 0, the topic maybe for the 0.
LEMMA PlacesFit ==
  ASSUME NEW s \in Strings
  PROVE  /\ s[1] \in Arrays /\ Start(s) \in Nat /\ Start(s) + 1 <= Size[s[1]]
         /\ s[1] # "topic" => Start(s) + 2 <= Size[s[1]]
<1>1. s[1] \in Arrays
  BY NamesListed DEF Strings
<1>2. CASE s[1] = "adresse"
  <2> DEFINE n == s[2]
  <2>1. n \in 0..NB_ADRESSE - 1
    BY <1>2, ConsoleAssumption DEF Strings
  <2>2. MAX_ADRESSE_LENGTH \in Nat /\ MAX_ADRESSE_LENGTH >= 2 /\ NB_ADRESSE \in Nat
    BY ConsoleAssumption
  <2>3. Size[s[1]] = NB_ADRESSE * MAX_ADRESSE_LENGTH
    BY <1>2, <2>2 DEF Size
  <2>4. Start(s) = n * MAX_ADRESSE_LENGTH
    BY DEF Start
  <2> HIDE DEF n
  <2>5. \A b, d, m \in Nat : b <= d => b * m \in Nat /\ d * m \in Nat /\ b * m <= d * m
    OBVIOUS
  <2>6. (n + 1) * MAX_ADRESSE_LENGTH <= NB_ADRESSE * MAX_ADRESSE_LENGTH
    BY <2>1, <2>2, <2>5
  <2>7. (n + 1) * MAX_ADRESSE_LENGTH = n * MAX_ADRESSE_LENGTH + MAX_ADRESSE_LENGTH
    BY <2>1, <2>2
  <2>8. n * MAX_ADRESSE_LENGTH \in Nat /\ NB_ADRESSE * MAX_ADRESSE_LENGTH \in Nat
    BY <2>1, <2>2
  <2> QED
    BY <1>1, <2>2, <2>3, <2>4, <2>6, <2>7, <2>8
<1>3. CASE s[1] # "adresse"
  <2>1. s[2] = 0
    BY <1>3 DEF Strings
  <2>2. Start(s) = 0
    BY <2>1, ConsoleAssumption DEF Start
  <2>3. s[1] # "topic" => Size[s[1]] >= 2
    BY <1>1, <1>3, ConsoleAssumption, NamesListed DEF Size
  <2> QED
    BY <1>1, <2>2, <2>3, SizesPositive
<1> QED
  BY <1>2, <1>3

\* The record that save_and_restart writes after the one at k.
LEMMA NextRecord ==
  ASSUME NEW k \in 1..5
  PROVE  Following(Records[k]) = IF k = 5 THEN "restart" ELSE Records[k + 1]
<1> DEFINE i == CHOOSE i \in DOMAIN Records : Records[i] = Records[k]
<1>1. i \in DOMAIN Records /\ Records[i] = Records[k]
  BY NamesListed
<1>2. i = k
  BY <1>1, NamesListed, NamesDiffer
<1> QED
  BY <1>2, NamesListed DEF Following

-----------------------------------------------------------------------------
(* The inductive invariant.                                                *)

\* The arrays and records keep their sizes.
Shapes ==
  /\ DOMAIN flash = Names /\ DOMAIN mem = Arrays
  /\ \A r \in Names : Cells(flash[r], Cell(r)) /\ Cells(saved[r], Cell(r))
  /\ \A a \in Arrays : Cells(mem[a], Size[a])

\* The flash holds saved up to cell n of record k, and nothing after it.
WrittenTo(k, n) ==
  \A j \in 1..5 : \A i \in 1..Cell(Records[j]) :
    flash[Records[j]][i] =
      IF j < k \/ (j = k /\ i <= n) THEN saved[Records[j]][i] ELSE Erased

\* save_and_restart is about to write the record step, of what memory holds;
\* otherwise it has not begun, has been cut or has written all.
FlashInv ==
  /\ step \in {"none", "erase", "restart"} \cup Names
  /\ \A k \in 1..5 : step = Records[k] =>
       saved = Configuration(mem, t_sleep) /\ WrittenTo(k, 0)
  /\ step \notin Names => \E k \in 1..5 : \E n \in 0..Cell(Records[k]) : WrittenTo(k, n)

\* rx_uart0 has reached the last cell of the array a.
AtEnd(a) ==
  /\ state \in DOMAIN ArrayOf /\ ArrayOf[state] = a
  /\ Start(Target) + pointeur >= Size[a] - 1

\* The last cell of an array ends it, but while it is being typed.
LastCellInv ==
  /\ state \in {"WAIT"} \cup DOMAIN LastOf
  /\ pointeur \in Nat /\ num_adresse \in Nat
  /\ \A a \in Arrays : mem[a][Size[a]] = 0 \/ AtEnd(a)

IInv == Shapes /\ FlashInv /\ LastCellInv

-----------------------------------------------------------------------------
(* Steps of save_and_restart.                                              *)

\* n cells of record k are written after those before it.
LEMMA WritingExtends ==
  ASSUME Shapes, NEW k \in 1..5, WrittenTo(k, 0), saved = Configuration(mem, t_sleep),
         NEW n \in 0..Cell(Records[k]), Written(Records[k], n), UNCHANGED saved
  PROVE  /\ DOMAIN flash' = Names
         /\ \A r \in Names : Cells(flash'[r], Cell(r))
         /\ WrittenTo(k, n)'
<1> DEFINE R == Records[k]
<1>0. R \in Names /\ Cell(R) \in Nat
  BY NamesListed, SizesPositive
<1>1. R \in Names /\ Cell(R) \in Nat /\ DOMAIN flash[R] = 1..Cell(R)
  <2>1. Cells(flash[R], Cell(R))
    BY <1>0 DEF Shapes
  <2> QED BY <1>0, <2>1, CellsCounted
<1>2. flash' = [flash EXCEPT ![R] =
                  [i \in DOMAIN flash[R] |-> IF i <= n THEN saved[R][i] ELSE flash[R][i]]]
  BY DEF Written
<1>3. DOMAIN flash' = Names
  BY <1>2 DEF Shapes
<1>4. flash'[R] = [i \in 1..Cell(R) |-> IF i <= n THEN saved[R][i] ELSE flash[R][i]]
  BY <1>1, <1>2 DEF Shapes
<1>5. \A r \in Names : r # R => flash'[r] = flash[r]
  BY <1>2 DEF Shapes
<1>6. \A r \in Names : Cells(flash'[r], Cell(r))
  BY <1>4, <1>5 DEF Shapes, Cells
<1>7. WrittenTo(k, n)'
  <2> SUFFICES ASSUME NEW j \in 1..5, NEW i \in 1..Cell(Records[j])
               PROVE  flash'[Records[j]][i] =
                        IF j < k \/ (j = k /\ i <= n) THEN saved[Records[j]][i] ELSE Erased
    BY DEF WrittenTo
  <2>0. Cell(Records[j]) \in Nat
    BY SizesPositive, NamesListed
  <2>1. flash[Records[j]][i] = IF j < k THEN saved[Records[j]][i] ELSE Erased
    <3>1. ~(i <= 0)
      BY <2>0
    <3> QED
      BY <3>1 DEF WrittenTo
  <2>2. CASE j = k
    BY <1>4, <2>0, <2>1, <2>2
  <2>3. CASE j # k
    <3>1. Records[j] # R /\ Records[j] \in Names
      BY <2>3, NamesDiffer, NamesListed
    <3> QED
      BY <1>5, <2>1, <2>3, <3>1
  <2> QED
    BY <2>2, <2>3
<1> QED
  BY <1>3, <1>6, <1>7

\* user_init gives every array its size and an end.
LEMMA InitShapes ==
  ASSUME NEW f, DOMAIN f = Names, \A r \in Names : Cells(f[r], Cell(r)), user_init(f)
  PROVE  /\ DOMAIN mem' = Arrays
         /\ \A a \in Arrays : Cells(mem'[a], Size[a])
         /\ LastCellInv'
<1>1. \A a \in Arrays : mem'[a] = IF a = "topic" THEN [i \in 1..Size[a] |-> 0]
                                                 ELSE Ended(a, f[a])
  BY DEF user_init
<1>2. DOMAIN mem' = Arrays
  BY DEF user_init
<1>3. ASSUME NEW a \in Arrays PROVE Cells(mem'[a], Size[a]) /\ mem'[a][Size[a]] = 0
  <2>1. Size[a] \in Nat \ {0}
    BY SizesPositive
  <2>2. CASE a = "topic"
    <3>1. mem'[a] = [i \in 1..Size[a] |-> 0]
      BY <1>1, <2>2
    <3>2. Cells(mem'[a], Size[a])
      BY <3>1 DEF Cells
    <3>3. Size[a] \in 1..Size[a]
      BY <2>1
    <3> QED
      BY <3>1, <3>2, <3>3
  <2>3. CASE a # "topic"
    <3>1. a \in Names /\ a # "t_sleep" /\ Cell(a) = Size[a]
      BY <2>3, NamesListed DEF Cell
    <3>2. DOMAIN f[a] = 1..Size[a]
      BY <2>1, <3>1, CellsCounted
    <3>3. \E s \in Strings : s[1] = a /\ Size[a] = Start(s) + Place(s)
      <4>1. CASE a = "adresse"
        <5> DEFINE s == <<"adresse", NB_ADRESSE - 1>>
        <5>1. s \in Strings /\ s[1] = a /\ s[2] = NB_ADRESSE - 1
          BY <4>1, ConsoleAssumption DEF Strings
        <5>2. Start(s) + Place(s) = (NB_ADRESSE - 1) * MAX_ADRESSE_LENGTH + MAX_ADRESSE_LENGTH
          BY <4>1, <5>1 DEF Start, Place
        <5>3. Size[a] = MAX_ADRESSE_LENGTH * NB_ADRESSE
          BY <4>1 DEF Size
        <5>4. MAX_ADRESSE_LENGTH \in Nat /\ NB_ADRESSE \in Nat
          BY ConsoleAssumption
        <5>5. Size[a] = Start(s) + Place(s)
          BY <5>2, <5>3, <5>4
        <5> QED
          BY <5>1, <5>5
      <4>2. CASE a # "adresse"
        <5> DEFINE s == <<a, 0>>
        <5>1. s \in Strings /\ s[1] = a /\ s[2] = 0
          BY DEF Strings
        <5>2. Start(s) = 0 /\ Place(s) = Size[a]
          BY <4>2, <5>1, ConsoleAssumption DEF Start, Place
        <5> QED
          BY <2>1, <5>1, <5>2
      <4> QED
        BY <4>1, <4>2
    <3>4. mem'[a] = [i \in 1..Size[a] |->
                       IF \E s \in Strings : s[1] = a /\ i = Start(s) + Place(s) THEN 0
                                                                                 ELSE f[a][i]]
      BY <1>1, <2>3, <3>2 DEF Ended
    <3>5. Cells(mem'[a], Size[a])
      BY <3>4 DEF Cells
    <3>6. mem'[a][Size[a]] = 0
      BY <2>1, <3>3, <3>4
    <3> QED
      BY <3>5, <3>6
  <2> QED
    BY <2>2, <2>3
<1>4. pointeur' = 0 /\ num_adresse' = 0 /\ state' = "WAIT"
  BY DEF user_init
<1> QED
  BY <1>2, <1>3, <1>4 DEF LastCellInv


\* save_and_restart erases the sector.
LEMMA EraseKeepsInv == IInv /\ SectorErased => IInv'
<1> SUFFICES ASSUME IInv, SectorErased PROVE IInv'
  OBVIOUS
<1>1. /\ step' = "ssid" /\ saved' = Configuration(mem, t_sleep) /\ flash' = Blank
      /\ UNCHANGED <<uart, config>>
  BY DEF SectorErased, Erase
<1>2. UNCHANGED <<state, pointeur, num_adresse, mem, t_sleep>>
  BY <1>1 DEF uart, config
<1>3. \A r \in Names : Cells(flash[r], Cell(r)) /\ DOMAIN flash[r] = 1..Cell(r)
  BY CellsCounted, SizesPositive DEF IInv, Shapes
<1>4. /\ DOMAIN flash' = Names
      /\ \A r \in Names : flash'[r] = [i \in 1..Cell(r) |-> Erased]
  BY <1>1, <1>3 DEF Blank, IInv, Shapes
<1>5. \A r \in Names : Cells(flash'[r], Cell(r))
  BY <1>4 DEF Cells
<1>6. \A r \in Names : saved'[r] = IF r = "t_sleep" THEN <<t_sleep>> ELSE mem[r]
  BY <1>1 DEF Configuration, Names
<1>7. ASSUME NEW r \in Names PROVE Cells(saved'[r], Cell(r))
  <2>1. CASE r = "t_sleep"
    <3>1. saved'[r] = <<t_sleep>> /\ Cell(r) = 1
      BY <1>6, <2>1 DEF Cell
    <3> QED
      BY <3>1 DEF Cells
  <2>2. CASE r # "t_sleep"
    BY <1>6, <2>2, NamesListed DEF IInv, Shapes, Cell
  <2> QED
    BY <2>1, <2>2
<1>8. Shapes'
  BY <1>2, <1>4, <1>5, <1>7 DEF Shapes, IInv
<1>9. WrittenTo(1, 0)'
  <2> SUFFICES ASSUME NEW j \in 1..5, NEW i \in 1..Cell(Records[j])
               PROVE  flash'[Records[j]][i] =
                        IF j < 1 \/ (j = 1 /\ i <= 0) THEN saved'[Records[j]][i] ELSE Erased
    BY DEF WrittenTo
  <2>1. Records[j] \in Names /\ Cell(Records[j]) \in Nat
    BY NamesListed, SizesPositive
  <2> QED
    BY <1>4, <2>1
<1>10. FlashInv'
  <2>1. step' \in Names /\ step' = Records[1]
    BY <1>1, NamesListed
  <2>2. \A k \in 1..5 : step' = Records[k] => k = 1
    BY <1>1, NamesListed
  <2>3. saved' = Configuration(mem', t_sleep')
    BY <1>1, <1>2
  <2> QED
    BY <1>9, <2>1, <2>2, <2>3 DEF FlashInv
<1>11. LastCellInv'
  BY <1>2 DEF IInv, LastCellInv, AtEnd, Target, Start, LastOf
<1> QED
  BY <1>8, <1>10, <1>11 DEF IInv

\* It writes one record whole.
LEMMA WriteKeepsInv == IInv /\ RecordWritten => IInv'
<1> SUFFICES ASSUME IInv, RecordWritten PROVE IInv'
  OBVIOUS
<1>1. /\ step \in Names /\ Written(step, Len(flash[step])) /\ step' = Following(step)
      /\ UNCHANGED <<uart, config, saved>>
  BY DEF RecordWritten, IInv, Shapes
<1>2. UNCHANGED <<state, pointeur, num_adresse, mem, t_sleep, saved>>
  BY <1>1 DEF uart, config
<1>3. PICK k \in 1..5 : step = Records[k]
  BY <1>1, NamesListed
<1>4. saved = Configuration(mem, t_sleep) /\ WrittenTo(k, 0)
  BY <1>3 DEF IInv, FlashInv
<1>5. Cell(Records[k]) \in Nat /\ Len(flash[Records[k]]) = Cell(Records[k])
  BY <1>1, <1>3, CellsCounted, SizesPositive DEF IInv, Shapes
<1>6. /\ DOMAIN flash' = Names
      /\ \A r \in Names : Cells(flash'[r], Cell(r))
      /\ WrittenTo(k, Cell(Records[k]))'
  BY <1>1, <1>2, <1>3, <1>4, <1>5, WritingExtends DEF IInv
<1>7. Shapes'
  BY <1>2, <1>6 DEF IInv, Shapes
<1>8. FlashInv'
  <2>1. CASE k = 5
    <3>1. step' = "restart" /\ "restart" \notin Names
      BY <1>1, <1>3, <2>1, NextRecord, NamesListed
    <3>2. \A m \in 1..5 : step' # Records[m]
      BY <3>1, NamesListed
    <3> QED
      BY <1>5, <1>6, <3>1, <3>2 DEF FlashInv
  <2>2. CASE k # 5
    <3>1. k + 1 \in 1..5 /\ step' = Records[k + 1] /\ step' \in Names
      BY <1>1, <1>3, <2>2, NextRecord, NamesListed
    <3>2. \A m \in 1..5 : step' = Records[m] => m = k + 1
      BY <3>1, NamesDiffer
    <3>3. WrittenTo(k + 1, 0)'
      <4> SUFFICES ASSUME NEW j \in 1..5, NEW i \in 1..Cell(Records[j])
                   PROVE  flash'[Records[j]][i] =
                            IF j < k + 1 \/ (j = k + 1 /\ i <= 0)
                            THEN saved'[Records[j]][i] ELSE Erased
        BY DEF WrittenTo
      <4>1. flash'[Records[j]][i] =
              IF j < k \/ (j = k /\ i <= Cell(Records[k])) THEN saved'[Records[j]][i] ELSE Erased
        BY <1>6 DEF WrittenTo
      <4>2. Cell(Records[j]) \in Nat
        BY NamesListed, SizesPositive
      <4>3. ~(i <= 0) /\ (j = k => i <= Cell(Records[k]))
        BY <4>2
      <4> QED
        BY <4>1, <4>3
    <3>4. saved' = Configuration(mem', t_sleep')
      BY <1>2, <1>4
    <3> QED
      BY <3>1, <3>2, <3>3, <3>4 DEF FlashInv
  <2> QED
    BY <2>1, <2>2
<1>9. LastCellInv'
  BY <1>2 DEF IInv, LastCellInv, AtEnd, Target, Start, LastOf
<1> QED
  BY <1>7, <1>8, <1>9 DEF IInv

\* The device starts again, from what the flash holds.
LEMMA RestartKeepsInv == IInv /\ Restart => IInv'
<1> SUFFICES ASSUME IInv, Restart PROVE IInv'
  OBVIOUS
<1>1. step = "restart" /\ user_init(flash) /\ UNCHANGED <<flash, saved>>
  BY DEF Restart
<1>2. Shapes' /\ LastCellInv'
  BY <1>1, InitShapes DEF IInv, Shapes
<1>3. FlashInv'
  <2>1. step' = "none"
    BY <1>1 DEF user_init
  <2>2. step \notin Names /\ step' \notin Names /\ \A k \in 1..5 : step' # Records[k]
    <3>1. "restart" \notin Names /\ "none" \notin Names
      BY NamesListed
    <3>2. \A k \in 1..5 : Records[k] \in Names
      BY NamesListed
    <3> QED
      BY <1>1, <2>1, <3>1, <3>2, Zenon
  <2>3. PICK k \in 1..5 : \E n \in 0..Cell(Records[k]) : WrittenTo(k, n)
    BY <2>2 DEF IInv, FlashInv
  <2>4. \E n \in 0..Cell(Records[k]) : WrittenTo(k, n)'
    BY <1>1, <2>3 DEF WrittenTo
  <2> QED
    BY <2>1, <2>2, <2>4 DEF FlashInv
<1> QED
  BY <1>2, <1>3 DEF IInv

\* The power fails, maybe in the middle of a record.
LEMMA LossKeepsInv == IInv /\ PowerLoss => IInv'
<1> SUFFICES ASSUME IInv, PowerLoss PROVE IInv'
  OBVIOUS
<1>1. user_init(flash') /\ UNCHANGED saved /\ step' = "none"
  BY DEF PowerLoss, user_init
<1>2. /\ DOMAIN flash' = Names
      /\ \A r \in Names : Cells(flash'[r], Cell(r))
      /\ \E k \in 1..5 : \E n \in 0..Cell(Records[k]) : WrittenTo(k, n)'
  <2>1. CASE step \in Names
    <3>1. PICK k \in 1..5 : step = Records[k]
      BY <2>1, NamesListed
    <3>2. saved = Configuration(mem, t_sleep) /\ WrittenTo(k, 0)
      BY <3>1 DEF IInv, FlashInv
    <3>3. Len(flash[Records[k]]) = Cell(Records[k])
      BY <2>1, <3>1, CellsCounted, SizesPositive DEF IInv, Shapes
    <3>4. PICK n \in 0..Cell(Records[k]) : Written(Records[k], n)
      BY <2>1, <3>1, <3>3 DEF PowerLoss, IInv, Shapes
    <3> QED
      BY <1>1, <3>2, <3>4, WritingExtends DEF IInv
  <2>2. CASE step \notin Names
    <3>1. UNCHANGED flash
      BY <2>2 DEF PowerLoss, IInv, Shapes
    <3>2. PICK k \in 1..5 : \E n \in 0..Cell(Records[k]) : WrittenTo(k, n)
      BY <2>2 DEF IInv, FlashInv
    <3>3. \E n \in 0..Cell(Records[k]) : WrittenTo(k, n)'
      BY <1>1, <3>1, <3>2 DEF WrittenTo
    <3> QED
      BY <3>1, <3>3 DEF IInv, Shapes
  <2> QED
    BY <2>1, <2>2
<1>3. Shapes' /\ LastCellInv'
  BY <1>1, <1>2, InitShapes DEF IInv, Shapes
<1>4. FlashInv'
  <2>1. step' \notin Names /\ \A k \in 1..5 : step' # Records[k]
    BY <1>1, NamesListed
  <2> QED
    BY <1>1, <1>2, <2>1 DEF FlashInv
<1> QED
  BY <1>3, <1>4 DEF IInv

-----------------------------------------------------------------------------
(* Steps of rx_uart0.                                                      *)

\* Nothing is being written while keys come.
LEMMA TypingKeepsFlash ==
  ASSUME FlashInv, step = "none", step' \in {"none", "erase"}, UNCHANGED <<flash, saved>>
  PROVE  FlashInv'
<1>1. step \notin Names /\ step' \notin Names /\ \A k \in 1..5 : step' # Records[k]
  BY NamesListed
<1>2. PICK k \in 1..5 : \E n \in 0..Cell(Records[k]) : WrittenTo(k, n)
  BY <1>1 DEF FlashInv
<1>3. \E n \in 0..Cell(Records[k]) : WrittenTo(k, n)'
  BY <1>2 DEF WrittenTo
<1> QED
  BY <1>1, <1>3 DEF FlashInv

LEMMA LetterKeepsInv == IInv /\ Letter => IInv'
<1> SUFFICES ASSUME IInv, Letter PROVE IInv'
  OBVIOUS
<1>1. /\ step = "none" /\ state = "WAIT"
      /\ UNCHANGED <<str_number, mem, t_sleep, subscribed, step, flash, saved>>
  BY DEF Letter, Key, Untouched, config
<1>2. PICK to \in DOMAIN LastOf :
        \E n \in IF to = "CONFIG_ADDRESSE" THEN 0..NB_ADRESSE - 1 ELSE {num_adresse} :
          Begins(to, n)
  BY DEF Letter
<1>3. pointeur' = 0 /\ num_adresse' \in Nat /\ state' \in DOMAIN LastOf
  BY <1>2, ConsoleAssumption DEF Begins, IInv, LastCellInv
<1>4. \A a \in Arrays : mem'[a][Size[a]] = 0
  BY <1>1 DEF IInv, LastCellInv, AtEnd, ArrayOf
<1>5. FlashInv'
  BY <1>1, TypingKeepsFlash DEF IInv
<1>6. Shapes'
  BY <1>1 DEF IInv, Shapes
<1> QED
  BY <1>3, <1>4, <1>5, <1>6 DEF IInv, LastCellInv

\* Where Put writes: the cell of the array that is typed, if one is.
LEMMA PutWrites ==
  ASSUME IInv, NEW c, state # "WAIT", InArray, Put(c)
  PROVE  /\ DOMAIN mem' = Arrays
         /\ \A a \in Arrays : Cells(mem'[a], Size[a])
         /\ \A a \in Arrays :
              mem'[a][Size[a]] =
                IF state # "CONFIG_T_SLEEP" /\ ArrayOf[state] = a
                   /\ Start(Target) + pointeur + 1 = Size[a]
                THEN c ELSE mem[a][Size[a]]
<1>1. CASE state = "CONFIG_T_SLEEP"
  BY <1>1 DEF Put, IInv, Shapes
<1>2. CASE state # "CONFIG_T_SLEEP"
  <2>0. PICK A, k : A = ArrayOf[state] /\ k = Start(Target) + pointeur + 1
    OBVIOUS
  <2>1. mem' = [mem EXCEPT ![A][k] = c]
    BY <1>2, <2>0 DEF Put
  <2>2. \A a \in Arrays : Size[a] \in 1..Size[a] /\ DOMAIN mem[a] = 1..Size[a]
    BY SizesPositive, CellsCounted DEF IInv, Shapes
  <2>3. DOMAIN mem' = Arrays
    BY <2>1 DEF IInv, Shapes
  <2>4. \A b \in Arrays : b # A => mem'[b] = mem[b]
    BY <2>1 DEF IInv, Shapes
  <2>5. A \in Arrays => mem'[A] = [i \in 1..Size[A] |-> IF i = k THEN c ELSE mem[A][i]]
    BY <2>1, <2>2 DEF IInv, Shapes
  <2>6. ASSUME NEW b \in Arrays PROVE Cells(mem'[b], Size[b])
    BY <2>4, <2>5 DEF IInv, Shapes, Cells
  <2>7. \A b \in Arrays :
          mem'[b][Size[b]] = IF b = A /\ Size[b] = k THEN c ELSE mem[b][Size[b]]
    BY <2>2, <2>4, <2>5
  <2> QED
    BY <1>2, <2>0, <2>3, <2>6, <2>7
<1> QED
  BY <1>1, <1>2

\* While a string is typed only its own array may be without an end.
LEMMA CharacterKeepsInv ==
  IInv /\ (\E c \in Chars : Character(c)) => IInv'
<1> SUFFICES ASSUME IInv, NEW c \in Chars, Character(c) PROVE IInv'
  OBVIOUS
<1>1. /\ step = "none" /\ state # "WAIT" /\ InArray /\ Put(c) /\ pointeur' = Advance
      /\ UNCHANGED <<state, num_adresse, step, flash, saved>>
  BY DEF Character, Key, Untouched
<1>2. /\ DOMAIN mem' = Arrays
      /\ \A a \in Arrays : Cells(mem'[a], Size[a])
      /\ \A a \in Arrays :
           mem'[a][Size[a]] =
             IF state # "CONFIG_T_SLEEP" /\ ArrayOf[state] = a
                /\ Start(Target) + pointeur + 1 = Size[a]
             THEN c ELSE mem[a][Size[a]]
  BY <1>1, PutWrites
<1>3. pointeur \in Nat /\ pointeur' \in Nat /\ pointeur' >= pointeur
  BY <1>1 DEF IInv, LastCellInv, Advance
<1>4. Start(Target)' = Start(Target) /\ Start(Target) \in Nat
  <2>1. Target' = Target /\ (Target[2] = num_adresse \/ Target[2] = 0)
    BY <1>1 DEF Target
  <2>2. Start(Target) \in Nat
    BY <2>1, ConsoleAssumption DEF Start, IInv, LastCellInv
  <2> QED
    BY <2>1, <2>2 DEF Start
<1>5. ASSUME NEW a \in Arrays PROVE mem'[a][Size[a]] = 0 \/ AtEnd(a)'
  <2>1. Size[a] \in Nat
    BY SizesPositive
  <2>2. CASE AtEnd(a)
    BY <1>1, <1>3, <1>4, <2>1, <2>2 DEF AtEnd
  <2>3. CASE mem[a][Size[a]] = 0 /\ mem'[a][Size[a]] # 0
    <3>1. /\ state # "CONFIG_T_SLEEP" /\ ArrayOf[state] = a
          /\ Start(Target) + pointeur + 1 = Size[a]
      BY <1>2, <2>3
    <3>2. state \in DOMAIN ArrayOf
      BY <1>1, <3>1 DEF IInv, LastCellInv, LastOf, ArrayOf
    <3> QED
      BY <1>1, <1>3, <1>4, <2>1, <3>1, <3>2 DEF AtEnd
  <2> QED
    BY <2>2, <2>3 DEF IInv, LastCellInv
<1>6. LastCellInv'
  BY <1>1, <1>3, <1>5 DEF IInv, LastCellInv, LastOf
<1>7. Shapes' /\ FlashInv'
  BY <1>1, <1>2, TypingKeepsFlash DEF IInv, Shapes
<1> QED
  BY <1>6, <1>7 DEF IInv

\* The end of the line puts the end back.
LEMMA EndOfLineKeepsInv == IInv /\ EndOfLine => IInv'
<1> SUFFICES ASSUME IInv, EndOfLine PROVE IInv'
  OBVIOUS
<1>1. /\ step = "none" /\ state # "WAIT" /\ InArray /\ Put(0)
      /\ state' = "WAIT" /\ UNCHANGED <<pointeur, num_adresse, step, flash, saved>>
  BY DEF EndOfLine, Key, Untouched
<1>2. /\ DOMAIN mem' = Arrays
      /\ \A a \in Arrays : Cells(mem'[a], Size[a])
      /\ \A a \in Arrays :
           mem'[a][Size[a]] =
             IF state # "CONFIG_T_SLEEP" /\ ArrayOf[state] = a
                /\ Start(Target) + pointeur + 1 = Size[a]
             THEN 0 ELSE mem[a][Size[a]]
  BY <1>1, PutWrites
<1>3. Start(Target) \in Nat /\ pointeur \in Nat
  BY ConsoleAssumption DEF Target, Start, IInv, LastCellInv
<1>4. ASSUME NEW a \in Arrays PROVE mem'[a][Size[a]] = 0
  <2>1. CASE AtEnd(a)
    <3>1. state # "CONFIG_T_SLEEP" /\ ArrayOf[state] = a
      BY <2>1 DEF AtEnd, ArrayOf
    <3>2. Start(Target) + pointeur < Size[a] /\ Start(Target) + pointeur >= Size[a] - 1
      BY <1>1, <2>1, <3>1 DEF AtEnd, InArray
    <3>3. Start(Target) + pointeur + 1 = Size[a]
      BY <1>3, <3>2, SizesPositive
    <3> QED
      BY <1>2, <3>1, <3>3
  <2>2. CASE ~AtEnd(a)
    BY <1>2, <2>2 DEF IInv, LastCellInv
  <2> QED
    BY <2>1, <2>2
<1>5. LastCellInv'
  BY <1>1, <1>4 DEF IInv, LastCellInv
<1>6. Shapes' /\ FlashInv'
  BY <1>1, <1>2, TypingKeepsFlash DEF IInv, Shapes
<1> QED
  BY <1>5, <1>6 DEF IInv

LEMMA SaveKeepsInv == IInv /\ Save => IInv'
<1> SUFFICES ASSUME IInv, Save PROVE IInv'
  OBVIOUS
<1>1. /\ step = "none" /\ step' = "erase"
      /\ UNCHANGED <<state, pointeur, num_adresse, mem, flash, saved>>
  BY DEF Save, Key, Untouched, uart, config
<1>2. Shapes' /\ FlashInv'
  BY <1>1, TypingKeepsFlash DEF IInv, Shapes
<1>3. LastCellInv'
  BY <1>1 DEF IInv, LastCellInv, AtEnd, Target, Start, LastOf
<1> QED
  BY <1>2, <1>3 DEF IInv

-----------------------------------------------------------------------------
(* The theorems.                                                           *)

LEMMA InitInv == ConsoleInit => IInv
<1> SUFFICES ASSUME ConsoleInit PROVE IInv
  OBVIOUS
<1>1. /\ flash = Configuration(Factory, 1) /\ saved = flash /\ step = "none"
      /\ state = "WAIT" /\ pointeur = 0 /\ num_adresse = 0
      /\ mem = [a \in Arrays |-> IF a = "topic" THEN [i \in 1..Size[a] |-> 0] ELSE Factory[a]]
  BY DEF ConsoleInit
<1>2. \A a \in Arrays \ {"topic"} :
        Factory[a] = [i \in 1..Size[a] |->
                        IF \E s \in Strings : s[1] = a /\ i = Start(s) + 1 THEN 1 ELSE 0]
  BY DEF Factory
<1>3. \A a \in Arrays \ {"topic"} : Cells(Factory[a], Size[a])
  BY <1>2 DEF Cells
<1>4. /\ DOMAIN flash = Names
      /\ \A r \in Names : flash[r] = IF r = "t_sleep" THEN <<1>> ELSE Factory[r]
  BY <1>1 DEF Configuration, Names
<1>5. ASSUME NEW r \in Names PROVE Cells(flash[r], Cell(r))
  <2>1. CASE r = "t_sleep"
    <3>1. flash[r] = <<1>> /\ Cell(r) = 1
      BY <1>4, <2>1 DEF Cell
    <3> QED
      BY <3>1 DEF Cells
  <2>2. CASE r # "t_sleep"
    BY <1>3, <1>4, <2>2, NamesListed DEF Cell
  <2> QED
    BY <2>1, <2>2
<1>6. ASSUME NEW a \in Arrays PROVE Cells(mem[a], Size[a])
  <2>1. CASE a = "topic"
    <3>1. mem[a] = [i \in 1..Size[a] |-> 0]
      BY <1>1, <2>1
    <3> QED
      BY <3>1 DEF Cells
  <2>2. CASE a # "topic"
    BY <1>1, <1>3, <2>2
  <2> QED
    BY <2>1, <2>2
<1>7. Shapes
  BY <1>1, <1>4, <1>5, <1>6 DEF Shapes
<1>8. FlashInv
  <2>1. WrittenTo(5, 1)
    <3> SUFFICES ASSUME NEW j \in 1..5, NEW i \in 1..Cell(Records[j])
                 PROVE  j < 5 \/ i <= 1
      BY <1>1 DEF WrittenTo
    <3> QED
      BY NamesListed DEF Cell
  <2>2. 1 \in 0..Cell(Records[5])
    BY NamesListed DEF Cell
  <2>3. step \notin Names /\ \A k \in 1..5 : step # Records[k]
    BY <1>1, NamesListed
  <2> QED
    BY <1>1, <2>1, <2>2, <2>3 DEF FlashInv
<1>9. ASSUME NEW a \in Arrays PROVE mem[a][Size[a]] = 0
  <2>1. Size[a] \in 1..Size[a]
    BY SizesPositive
  <2>2. CASE a = "topic"
    BY <1>1, <2>1, <2>2
  <2>3. CASE a # "topic"
    <3>1. \A s \in Strings : s[1] = a => Size[a] # Start(s) + 1
      BY <2>3, PlacesFit
    <3>2. mem[a] = [i \in 1..Size[a] |->
                      IF \E s \in Strings : s[1] = a /\ i = Start(s) + 1 THEN 1 ELSE 0]
      BY <1>1, <1>2, <2>3
    <3> QED
      BY <2>1, <3>1, <3>2
  <2> QED
    BY <2>2, <2>3
<1> QED
  BY <1>1, <1>7, <1>8, <1>9 DEF IInv, LastCellInv

LEMMA NextKeepsInv == IInv /\ [ConsoleNext]_consoleVars => IInv'
<1> SUFFICES ASSUME IInv, [ConsoleNext]_consoleVars PROVE IInv'
  OBVIOUS
<1>1. CASE Letter
  BY <1>1, LetterKeepsInv
<1>2. CASE EndOfLine
  BY <1>2, EndOfLineKeepsInv
<1>3. CASE Save
  BY <1>3, SaveKeepsInv
<1>4. CASE SectorErased
  BY <1>4, EraseKeepsInv
<1>5. CASE RecordWritten
  BY <1>5, WriteKeepsInv
<1>6. CASE Restart
  BY <1>6, RestartKeepsInv
<1>7. CASE PowerLoss
  BY <1>7, LossKeepsInv
<1>8. CASE \E c \in Chars : Character(c)
  BY <1>8, CharacterKeepsInv
<1>9. CASE UNCHANGED consoleVars
  <2>1. UNCHANGED <<state, pointeur, num_adresse, mem, t_sleep, flash, step, saved>>
    BY <1>9 DEF consoleVars, uart, config
  <2>2. Shapes'
    BY <2>1 DEF IInv, Shapes
  <2>3. FlashInv'
    BY <2>1 DEF IInv, FlashInv, WrittenTo, Configuration
  <2>4. LastCellInv'
    BY <2>1 DEF IInv, LastCellInv, AtEnd, Target, Start, LastOf
  <2> QED
    BY <2>2, <2>3, <2>4 DEF IInv
<1> QED
  BY <1>1, <1>2, <1>3, <1>4, <1>5, <1>6, <1>7, <1>8, <1>9 DEF ConsoleNext

LEMMA InvHolds == ConsoleSpec => []IInv
<1> QED
  BY InitInv, NextKeepsInv, PTL DEF ConsoleSpec

\* However often and wherever save_and_restart is cut, the flash holds the
\* beginning of one configuration and nothing of another.
THEOREM FlashNeverMixed == ConsoleSpec => []NeverMixed
<1>1. IInv => NeverMixed
  <2> SUFFICES ASSUME IInv
               PROVE  \E k \in DOMAIN Records : \E n \in 0..Len(saved[Records[k]]) :
                        \A j \in DOMAIN Records : \A i \in DOMAIN flash[Records[j]] :
                          flash[Records[j]][i] =
                            IF j < k \/ (j = k /\ i <= n) THEN saved[Records[j]][i] ELSE Erased
    BY DEF NeverMixed
  <2>1. \A j \in 1..5 : /\ DOMAIN flash[Records[j]] = 1..Cell(Records[j])
                        /\ Len(saved[Records[j]]) = Cell(Records[j])
                        /\ Records[j] \in Names /\ Cell(Records[j]) \in Nat
    BY NamesListed, CellsCounted, SizesPositive DEF IInv, Shapes
  <2>2. PICK k \in 1..5 : \E n \in 0..Cell(Records[k]) : WrittenTo(k, n)
    <3>1. CASE step \in Names
      <4>1. PICK k \in 1..5 : step = Records[k]
        BY <3>1, NamesListed
      <4>2. WrittenTo(k, 0) /\ 0 \in 0..Cell(Records[k])
        BY <2>1, <4>1 DEF IInv, FlashInv
      <4> QED
        BY <4>2
    <3>2. CASE step \notin Names
      BY <3>2 DEF IInv, FlashInv
    <3> QED
      BY <3>1, <3>2
  <2>3. PICK n \in 0..Cell(Records[k]) : WrittenTo(k, n)
    BY <2>2
  <2>4. ASSUME NEW j \in DOMAIN Records, NEW i \in DOMAIN flash[Records[j]]
        PROVE  flash[Records[j]][i] =
                 IF j < k \/ (j = k /\ i <= n) THEN saved[Records[j]][i] ELSE Erased
    BY <2>1, <2>3, NamesListed DEF WrittenTo
  <2>5. k \in DOMAIN Records /\ n \in 0..Len(saved[Records[k]])
    BY <2>1, <2>3, NamesListed
  <2> QED
    BY <2>4, <2>5
<1> QED
  BY <1>1, InvHolds, PTL

\* The string functions find the end of every string that is not being typed,
\* whatever was typed or torn.
THEOREM StringsAlwaysEnd == ConsoleSpec => []StringsEnd
<1>1. IInv => StringsEnd
  <2> SUFFICES ASSUME IInv, NEW s \in Strings, Ends(mem, s) = {}
               PROVE  state # "WAIT" /\ Target[1] = s[1]
    BY DEF StringsEnd
  <2>1. s[1] \in Arrays /\ Start(s) \in Nat /\ Start(s) + 1 <= Size[s[1]]
    BY PlacesFit
  <2>2. Size[s[1]] \in Start(s) + 1..Size[s[1]]
    BY <2>1, SizesPositive
  <2>3. mem[s[1]][Size[s[1]]] # 0
    BY <2>2 DEF Ends
  <2>4. AtEnd(s[1])
    BY <2>1, <2>3 DEF IInv, LastCellInv
  <2> QED
    BY <2>4 DEF AtEnd, Target, ArrayOf
<1> QED
  BY <1>1, InvHolds, PTL

-----------------------------------------------------------------------------
(* The rest of the invariant: numbers and characters, what is saved, what  *)
(* user_init leaves, and the string that is typed.                         *)

\* What a cell of an array can hold.
CellValues == {0, Erased, 1} \cup Chars

\* The numbers of rx_uart0, and what stringToUint is given and returns.
NumberInv ==
  /\ state # "WAIT" => pointeur \in 0..LastOf[state]
  /\ num_adresse \in 0..NB_ADRESSE - 1
  /\ str_number \in [1..MAX_NUMBER -> Nat]
  /\ t_sleep \in Nat

\* Memory and flash hold characters, t_sleep apart.
ValuesInv ==
  /\ \A a \in Arrays : \A i \in 1..Size[a] : mem[a][i] \in CellValues
  /\ \A a \in Arrays \ {"topic"} : \A i \in 1..Size[a] :
       flash[a][i] \in CellValues /\ saved[a][i] \in CellValues
  /\ flash["t_sleep"][1] \in Nat /\ saved["t_sleep"][1] \in Nat

\* save_and_restart saves when nothing is typed, so what it saves ends.
SavedInv ==
  /\ step # "none" => state = "WAIT"
  /\ \A a \in Arrays \ {"topic"} : saved[a][Size[a]] = 0

\* What user_init read is still in memory, until a key.
FreshInv ==
  fresh => /\ step = "none"
           /\ t_sleep = flash["t_sleep"][1]
           /\ \A a \in Arrays \ {"topic"} : mem[a] = Ended(a, flash[a])

\* The last place of a string that a character is kept at, and how many are.
LastIn(s) == IF s[1] = "adresse" THEN MAX_PASSWORD_LENGTH - 1 ELSE Size[s[1]] - 1
Stored == IF Len(typed) < LastIn(edited) THEN Len(typed) ELSE LastIn(edited)

\* While a string is typed, and after: memory is what it was before, but for
\* the characters typed and the cell behind them.
EditInv ==
  /\ typed \in Seq(Nat \ {0})
  /\ DOMAIN before = Arrays
  /\ \A a \in Arrays : before[a] \in [1..Size[a] -> Nat] /\ before[a][Size[a]] = 0
  /\ state \in DOMAIN ArrayOf => edited = Target /\ pointeur = Stored
  /\ state = "CONFIG_T_SLEEP" => edited = <<>>
  /\ edited = <<>> \/ edited \in Strings
  /\ edited = <<>> => mem = before
  /\ edited # <<>> =>
       /\ \A a \in Arrays \ {edited[1]} : mem[a] = before[a]
       /\ \A j \in 1..Size[edited[1]] :
            j <= Start(edited) \/ j > Start(edited) + Stored + 1 =>
              mem[edited[1]][j] = before[edited[1]][j]
       /\ Start(edited) + Stored <= Size[edited[1]]
       /\ \A i \in 1..Stored : mem[edited[1]][Start(edited) + i] = typed[i]
       /\ state = "WAIT" => /\ Start(edited) + Stored < Size[edited[1]]
                            /\ mem[edited[1]][Start(edited) + Stored + 1] = 0

-----------------------------------------------------------------------------
(* What the operations write, cell by cell.                                *)

\* ValuesInv of a flash.
ValuesOf(f) ==
  /\ \A a \in Arrays \ {"topic"} : \A i \in 1..Size[a] : f[a][i] \in CellValues
  /\ f["t_sleep"][1] \in Nat

\* save_and_restart writes what memory holds.
LEMMA ConfigurationCells ==
  /\ \A a \in Arrays \ {"topic"} : Configuration(mem, t_sleep)[a] = mem[a]
  /\ Configuration(mem, t_sleep)["t_sleep"] = <<t_sleep>>
BY NamesListed DEF Configuration, Names

\* One cell of one array, the one rx_uart0 points to.
LEMMA PutCells ==
  ASSUME IInv, NEW c, state # "WAIT", InArray, Put(c), NEW a \in Arrays, NEW i \in 1..Size[a]
  PROVE  mem'[a][i] = IF /\ state # "CONFIG_T_SLEEP" /\ ArrayOf[state] = a
                         /\ i = Start(Target) + pointeur + 1
                      THEN c ELSE mem[a][i]
<1>1. CASE state = "CONFIG_T_SLEEP"
  BY <1>1 DEF Put
<1>2. CASE state # "CONFIG_T_SLEEP"
  <2>0. PICK A, k : A = ArrayOf[state] /\ k = Start(Target) + pointeur + 1
    OBVIOUS
  <2>1. mem' = [mem EXCEPT ![A][k] = c]
    BY <1>2, <2>0 DEF Put
  <2>2. DOMAIN mem[a] = 1..Size[a] /\ DOMAIN mem = Arrays
    BY SizesPositive, CellsCounted DEF IInv, Shapes
  <2>3. mem'[a] = IF a = A THEN [mem[a] EXCEPT ![k] = c] ELSE mem[a]
    BY <2>1, <2>2
  <2>4. mem'[a][i] = IF a = A /\ i = k THEN c ELSE mem[a][i]
    BY <2>2, <2>3
  <2> QED BY <1>2, <2>0, <2>4
<1> QED BY <1>1, <1>2

\* The first n cells of one record.
LEMMA WrittenCells ==
  ASSUME Shapes, NEW r \in Names, NEW n, Written(r, n), NEW q \in Names, NEW i \in 1..Cell(q)
  PROVE  flash'[q][i] = IF q = r /\ i <= n THEN Configuration(mem, t_sleep)[q][i]
                                          ELSE flash[q][i]
<1>1. DOMAIN flash[q] = 1..Cell(q) /\ DOMAIN flash = Names
  BY CellsCounted, SizesPositive DEF Shapes
<1>2. CASE q = r
  <2>1. flash'[q] = [k \in DOMAIN flash[q] |->
                       IF k <= n THEN Configuration(mem, t_sleep)[q][k] ELSE flash[q][k]]
    BY <1>1, <1>2 DEF Written
  <2> QED BY <1>1, <1>2, <2>1
<1>3. CASE q # r
  BY <1>1, <1>3 DEF Written
<1> QED BY <1>2, <1>3

\* What user_init reads.
LEMMA InitCells ==
  ASSUME NEW f, DOMAIN f = Names, \A r \in Names : Cells(f[r], Cell(r)), user_init(f)
  PROVE  /\ \A a \in Arrays \ {"topic"} : \A i \in 1..Size[a] : mem'[a][i] \in {0, f[a][i]}
         /\ \A i \in 1..Size["topic"] : mem'["topic"][i] = 0
         /\ \A a \in Arrays \ {"topic"} : mem'[a] = Ended(a, f[a])
<1>1. "topic" \in Arrays /\ \A a \in Arrays : mem'[a] = IF a = "topic" THEN [i \in 1..Size[a] |-> 0]
                                                 ELSE Ended(a, f[a])
  BY NamesListed DEF user_init
<1>2. ASSUME NEW a \in Arrays \ {"topic"}, NEW i \in 1..Size[a]
      PROVE  mem'[a][i] \in {0, f[a][i]}
  <2>1. a \in Names /\ Cell(a) = Size[a]
    BY NamesListed DEF Cell
  <2>2. DOMAIN f[a] = 1..Size[a]
    BY <2>1, CellsCounted, SizesPositive
  <2> QED BY <1>1, <2>2 DEF Ended
<1> QED BY <1>1, <1>2

\* Whatever cuts save_and_restart, the flash holds what it held, what memory
\* holds, or nothing.
LEMMA StepFlashValues ==
  ASSUME IInv, NumberInv, ValuesInv, [ConsoleNext]_consoleVars
  PROVE  ValuesOf(flash') /\ ValuesOf(saved')
<1>0. ValuesOf(flash) /\ ValuesOf(saved) /\ t_sleep \in Nat
  BY DEF ValuesInv, ValuesOf, NumberInv
<1>00. /\ Shapes /\ Erased \in Nat /\ "t_sleep" \in Names /\ Cell("t_sleep") = 1
       /\ \A a \in Arrays \ {"topic"} : a \in Names /\ a # "t_sleep" /\ Cell(a) = Size[a]
  BY ConsoleAssumption, NamesListed DEF IInv, Cell
<1>1. CASE UNCHANGED <<flash, saved>>
  BY <1>0, <1>1
<1>2. CASE SectorErased
  <2>1. flash' = Blank /\ saved' = Configuration(mem, t_sleep)
    BY <1>2 DEF SectorErased, Erase
  <2>2. \A r \in Names : DOMAIN flash[r] = 1..Cell(r)
    BY CellsCounted, SizesPositive DEF IInv, Shapes
  <2>3. \A r \in Names : \A i \in 1..Cell(r) : flash'[r][i] = Erased
    BY <2>1, <2>2 DEF Blank, IInv, Shapes
  <2>4. ValuesOf(flash')
    BY <1>00, <2>3 DEF ValuesOf, CellValues
  <2>5. ValuesOf(saved')
    BY <1>0, <2>1, ConfigurationCells DEF ValuesOf, ValuesInv
  <2> QED BY <2>4, <2>5
<1>3. ASSUME NEW r \in Names, NEW n, Written(r, n), UNCHANGED saved
      PROVE  ValuesOf(flash') /\ ValuesOf(saved')
  <2>1. \A q \in Names : \A i \in 1..Cell(q) :
          flash'[q][i] \in {Configuration(mem, t_sleep)[q][i], flash[q][i]}
    BY <1>00, <1>3, WrittenCells
  <2>2. ASSUME NEW a \in Arrays \ {"topic"}, NEW i \in 1..Size[a]
        PROVE  flash'[a][i] \in CellValues
    <3>1. flash'[a][i] \in {mem[a][i], flash[a][i]}
      BY <1>00, <2>1, ConfigurationCells
    <3>2. mem[a][i] \in CellValues /\ flash[a][i] \in CellValues
      BY DEF ValuesInv
    <3> QED BY <3>1, <3>2
  <2>3. flash'["t_sleep"][1] \in Nat
    <3>1. flash'["t_sleep"][1] \in {t_sleep, flash["t_sleep"][1]}
      BY <1>00, <2>1, ConfigurationCells
    <3> QED BY <1>0, <3>1 DEF ValuesOf
  <2> QED BY <1>0, <1>3, <2>2, <2>3 DEF ValuesOf
<1>4. CASE RecordWritten
  BY <1>3, <1>4 DEF RecordWritten, IInv, Shapes
<1>5. CASE PowerLoss
  BY <1>1, <1>3, <1>5 DEF PowerLoss, IInv, Shapes
<1>6. CASE Letter \/ EndOfLine \/ Save \/ Restart \/ UNCHANGED consoleVars
  BY <1>1, <1>6 DEF Letter, EndOfLine, Save, Restart, Untouched, consoleVars
<1>7. CASE \E c \in Chars : Character(c)
  BY <1>1, <1>7 DEF Character, Untouched
<1> QED BY <1>2, <1>4, <1>5, <1>6, <1>7 DEF ConsoleNext

\* The array of a state, and its place.
LEMMA TargetPlace ==
  ASSUME NumberInv, state \in DOMAIN ArrayOf
  PROVE  Target \in Strings /\ Target[1] = ArrayOf[state] /\ Start(Target) \in Nat
<1>1. NB_ADRESSE \in Nat /\ MAX_ADRESSE_LENGTH \in Nat
  BY ConsoleAssumption
<1>2. Target \in Strings
  BY NamesListed DEF Target, ArrayOf, Strings, NumberInv
<1> QED BY <1>2, PlacesFit DEF Target

\* Memory holds what is typed, and what user_init reads.
LEMMA StepMemValues ==
  ASSUME IInv, IInv', NumberInv, ValuesInv, [ConsoleNext]_consoleVars
  PROVE  \A a \in Arrays : \A i \in 1..Size[a] : mem'[a][i] \in CellValues
<1>1. CASE UNCHANGED mem
  BY <1>1 DEF ValuesInv
<1>2. ASSUME NEW c \in CellValues, state # "WAIT", InArray, Put(c)
      PROVE  \A a \in Arrays : \A i \in 1..Size[a] : mem'[a][i] \in CellValues
  BY <1>2, PutCells DEF ValuesInv
<1>3. CASE EndOfLine
  BY <1>2, <1>3 DEF EndOfLine, CellValues
<1>4. CASE \E c \in Chars : Character(c)
  BY <1>2, <1>4 DEF Character, CellValues
<1>5. ASSUME user_init(flash')
      PROVE  \A a \in Arrays : \A i \in 1..Size[a] : mem'[a][i] \in CellValues
  <2>1. DOMAIN flash' = Names /\ \A r \in Names : Cells(flash'[r], Cell(r))
    BY DEF IInv, Shapes
  <2>2. ValuesOf(flash')
    BY StepFlashValues
  <2>3. /\ \A a \in Arrays \ {"topic"} : \A i \in 1..Size[a] : mem'[a][i] \in {0, flash'[a][i]}
        /\ \A i \in 1..Size["topic"] : mem'["topic"][i] = 0
    BY <1>5, <2>1, InitCells
  <2>4. ASSUME NEW a \in Arrays, NEW i \in 1..Size[a] PROVE mem'[a][i] \in CellValues
    <3>1. 0 \in CellValues
      BY DEF CellValues
    <3>2. CASE a = "topic"
      BY <2>3, <3>1, <3>2
    <3>3. CASE a # "topic"
      BY <2>2, <2>3, <3>1, <3>3 DEF ValuesOf
    <3> QED BY <3>2, <3>3
  <2> QED BY <2>4
<1>6. CASE Restart \/ PowerLoss
  BY <1>5, <1>6 DEF Restart, PowerLoss
<1>7. CASE Letter \/ Save \/ SectorErased \/ RecordWritten \/ UNCHANGED consoleVars
  BY <1>1, <1>7 DEF Letter, Save, SectorErased, RecordWritten, consoleVars, config
<1> QED BY <1>3, <1>4, <1>6, <1>7 DEF ConsoleNext

-----------------------------------------------------------------------------
(* Least elements and induction.                                           *)

Less == {z \in Nat \X Nat : z[1] < z[2]}

\* There is no infinite descent in the numbers.
LEMMA LessIsWellFounded == IsWellFoundedOn(Less, Nat)
BY NatLessThanWellFounded DEF OpToRel, Less

\* A set of numbers has a least one.
LEMMA LeastExists ==
  ASSUME NEW T, T \subseteq Nat, T # {}
  PROVE  \E x \in T : \A y \in T : x <= y
<1>1. PICK x \in T : \A y \in T : ~(<<y, x>> \in Less)
  BY LessIsWellFounded, WFMin
<1>2. ASSUME NEW y \in T PROVE x <= y
  <2>1. x \in Nat /\ y \in Nat /\ ~(<<y, x>> \in Less)
    BY <1>1
  <2>2. ~(y < x)
    BY <2>1 DEF Less
  <2> QED BY <2>1, <2>2
<1> QED BY <1>2

\* Induction over the naturals, for a set in place of a predicate.
LEMMA InductionOnSet ==
  ASSUME NEW S, 0 \in S, \A n \in Nat : n \in S => n + 1 \in S
  PROVE  Nat \subseteq S
<1> DEFINE T == Nat \ S
<1> SUFFICES ASSUME T # {} PROVE FALSE
  OBVIOUS
<1>1. T \subseteq Nat
  OBVIOUS
<1> HIDE DEF T
<1>2. PICK x \in T : \A y \in T : x <= y
  BY <1>1, LeastExists
<1> USE DEF T
<1>3. x # 0 /\ x - 1 \in Nat /\ ~(x <= x - 1)
  BY <1>2
<1>4. x - 1 \notin T
  BY <1>2, <1>3
<1> QED BY <1>3, <1>4

-----------------------------------------------------------------------------
(* stringToUint.                                                           *)

\* The equations of the value of n digits of string.
ValueBy(g, string, n) ==
  g = [k \in 0..n |-> IF k = 0 THEN 0 ELSE 10 * g[k - 1] + string[k]]

\* They have a solution, as the recursive function of stringToUint needs.
LEMMA ValueExists ==
  ASSUME NEW string, NEW d \in Nat, \A i \in 1..d : string[i] \in Nat
  PROVE  \E g \in [0..d -> Nat] : ValueBy(g, string, d)
<1> DEFINE S == {n \in Nat : n <= d => \E g \in [0..n -> Nat] : ValueBy(g, string, n)}
<1>1. 0 \in S
  <2> DEFINE g == [k \in 0..0 |-> 0]
  <2>1. g \in [0..0 -> Nat] /\ ValueBy(g, string, 0)
    BY DEF ValueBy
  <2> QED BY <2>1
<1>2. ASSUME NEW n \in Nat, n \in S PROVE n + 1 \in S
  <2> SUFFICES ASSUME n + 1 <= d
               PROVE  \E h \in [0..n + 1 -> Nat] : ValueBy(h, string, n + 1)
    OBVIOUS
  <2>1. PICK g \in [0..n -> Nat] : ValueBy(g, string, n)
    BY <1>2
  <2> DEFINE h == [k \in 0..n + 1 |-> IF k = n + 1 THEN 10 * g[n] + string[n + 1] ELSE g[k]]
  <2>2. \A k \in 0..n : g[k] = IF k = 0 THEN 0 ELSE 10 * g[k - 1] + string[k]
    BY <2>1 DEF ValueBy
  <2>3. g[n] \in Nat /\ string[n + 1] \in Nat
    BY <2>1
  <2>4. h \in [0..n + 1 -> Nat]
    BY <2>1, <2>3
  <2>5. ASSUME NEW k \in 0..n + 1
        PROVE  h[k] = IF k = 0 THEN 0 ELSE 10 * h[k - 1] + string[k]
    <3>1. CASE k = n + 1
      <4>1. k # 0 /\ h[k] = 10 * g[n] + string[n + 1] /\ k - 1 = n /\ h[k - 1] = g[n]
        BY <3>1
      <4> QED BY <3>1, <4>1
    <3>2. CASE k = 0
      BY <2>2, <3>2
    <3>3. CASE k \in 1..n
      <4>1. h[k] = g[k] /\ h[k - 1] = g[k - 1] /\ k # 0 /\ k \in 0..n
        BY <3>3
      <4> HIDE DEF h
      <4> QED BY <4>1, <2>2
    <3> QED BY <3>1, <3>2, <3>3
  <2>6. ValueBy(h, string, n + 1)
    BY <2>5 DEF ValueBy
  <2> QED BY <2>4, <2>6
<1> HIDE DEF S
<1>3. Nat \subseteq S
  BY <1>1, <1>2, InductionOnSet
<1> QED BY <1>3 DEF S

\* stringToUint returns a number, whatever the characters.
LEMMA UintType ==
  ASSUME NEW n \in Nat, NEW string \in [1..n -> Nat]
  PROVE  stringToUint(string) \in Nat
<1>0. Len(string) = n /\ \A i \in 1..n : string[i] \in Nat
  OBVIOUS
<1> DEFINE Good(k) == /\ \A i \in 1..k : IsDigit(string[i])
                      /\ k = Len(string) \/ ~IsDigit(string[k + 1])
           T == {k \in 0..n : k = n \/ ~IsDigit(string[k + 1])}
           digits == CHOOSE k \in 0..Len(string) : Good(k)
<1>1. \E k \in 0..n : Good(k)
  <2>1. T \subseteq Nat /\ n \in T
    OBVIOUS
  <2> HIDE DEF T
  <2>2. PICK k \in T : \A y \in T : k <= y
    BY <2>1, LeastExists
  <2> USE DEF T
  <2>3. ASSUME NEW i \in 1..k PROVE IsDigit(string[i])
    <3>1. i - 1 \in 0..n /\ i - 1 # n /\ ~(k <= i - 1) /\ (i - 1) + 1 = i
      BY <2>2
    <3> QED BY <2>2, <3>1
  <2> QED BY <1>0, <2>2, <2>3
<1>2. digits \in 0..n
  BY <1>0, <1>1
<1> HIDE DEF digits
<1> DEFINE value == CHOOSE g : ValueBy(g, string, digits)
<1>3. PICK g \in [0..digits -> Nat] : ValueBy(g, string, digits)
  <2>1. digits \in Nat /\ \A i \in 1..digits : string[i] \in Nat
    BY <1>0, <1>2
  <2> QED BY <2>1, ValueExists
<1>4. ValueBy(value, string, digits)
  BY <1>3
<1> HIDE DEF value
<1>5. value[digits] \in Nat
  <2> DEFINE S == {k \in Nat : k <= digits => value[k] \in Nat}
  <2>0. \A k \in 0..digits : value[k] = IF k = 0 THEN 0 ELSE 10 * value[k - 1] + string[k]
    BY <1>4 DEF ValueBy
  <2>1. 0 \in S
    BY <1>2, <2>0
  <2>2. ASSUME NEW k \in Nat, k \in S PROVE k + 1 \in S
    <3> SUFFICES ASSUME k + 1 <= digits PROVE value[k + 1] \in Nat
      OBVIOUS
    <3>1. k + 1 \in 0..digits /\ k + 1 # 0 /\ (k + 1) - 1 = k /\ value[k] \in Nat
      BY <1>2, <2>2
    <3>2. string[k + 1] \in Nat
      BY <1>0, <1>2, <3>1
    <3>3. value[k + 1] = 10 * value[k] + string[k + 1]
      BY <2>0, <3>1
    <3> QED BY <3>1, <3>2, <3>3
  <2> HIDE DEF S
  <2>3. Nat \subseteq S
    BY <2>1, <2>2, InductionOnSet
  <2> QED BY <1>2, <2>3 DEF S
<1>6. stringToUint(string) = value[digits]
  BY DEF stringToUint, digits, value, ValueBy
<1> QED BY <1>5, <1>6

-----------------------------------------------------------------------------
(* Every step keeps numbers, characters, and what a restart needs.         *)

\* pointeur has places to go to in every state.
LEMMA LastPlaces == \A t \in DOMAIN LastOf : LastOf[t] \in Nat
BY ConsoleAssumption DEF LastOf

\* Every step keeps the numbers of rx_uart0 in their ranges.
LEMMA StepNumbers ==
  ASSUME NumberInv, ValuesInv, IInv, [ConsoleNext]_consoleVars
  PROVE  NumberInv'
<1>0. MAX_NUMBER \in Nat \ {0} /\ NB_ADRESSE \in Nat \ {0} /\ Chars \subseteq Nat
  BY ConsoleAssumption
<1>00. state \in {"WAIT"} \cup DOMAIN LastOf
  BY DEF IInv, LastCellInv
<1>1. ASSUME UNCHANGED <<uart, t_sleep>> PROVE NumberInv'
  BY <1>1 DEF uart, NumberInv
<1>2. CASE Letter
  <2>1. PICK to \in DOMAIN LastOf :
          \E n \in IF to = "CONFIG_ADDRESSE" THEN 0..NB_ADRESSE - 1 ELSE {num_adresse} :
            Begins(to, n)
    BY <1>2 DEF Letter
  <2>2. state' = to /\ pointeur' = 0 /\ num_adresse' \in 0..NB_ADRESSE - 1
    BY <2>1 DEF Begins, NumberInv
  <2>3. UNCHANGED <<str_number, t_sleep>>
    BY <1>2 DEF Letter, config
  <2>4. 0 \in 0..LastOf[to]
    BY <2>1, LastPlaces
  <2> QED BY <2>2, <2>3, <2>4 DEF NumberInv
<1>3. ASSUME NEW c \in Nat, state # "WAIT", Put(c) PROVE str_number' \in [1..MAX_NUMBER -> Nat]
  BY <1>0, <1>3 DEF Put, NumberInv
<1>4. ASSUME NEW c \in Chars, Character(c) PROVE NumberInv'
  <2>1. /\ state # "WAIT" /\ Put(c) /\ pointeur' = Advance
        /\ UNCHANGED <<state, num_adresse, t_sleep>>
    BY <1>4 DEF Character
  <2>2. str_number' \in [1..MAX_NUMBER -> Nat]
    BY <1>0, <1>3, <2>1
  <2>3. LastOf[state] \in Nat /\ pointeur \in 0..LastOf[state]
    BY <1>00, <2>1, LastPlaces DEF NumberInv
  <2>4. pointeur' \in 0..LastOf[state]
    BY <2>1, <2>3 DEF Advance
  <2>5. pointeur' \in 0..LastOf[state']
    BY <2>1, <2>4
  <2> HIDE DEF LastOf
  <2> QED BY <2>1, <2>2, <2>5 DEF NumberInv, LastOf
<1>5. CASE EndOfLine
  <2>1. /\ state # "WAIT" /\ Put(0) /\ state' = "WAIT" /\ UNCHANGED num_adresse
        /\ t_sleep' \in {stringToUint(str_number'), t_sleep}
    BY <1>5 DEF EndOfLine
  <2>2. str_number' \in [1..MAX_NUMBER -> Nat]
    BY <1>3, <2>1
  <2>3. stringToUint(str_number') \in Nat
    BY <1>0, <2>2, UintType
  <2> QED BY <2>1, <2>2, <2>3 DEF NumberInv
<1>6. CASE Save \/ SectorErased \/ RecordWritten \/ UNCHANGED consoleVars
  BY <1>1, <1>6 DEF Save, SectorErased, RecordWritten, consoleVars, config
<1>7. CASE Restart \/ PowerLoss
  <2>1. user_init(flash')
    BY <1>7 DEF Restart, PowerLoss
  <2>2. flash'["t_sleep"][1] \in Nat
    BY StepFlashValues DEF ValuesOf
  <2>3. str_number' = [i \in 1..MAX_NUMBER |-> 0]
    BY <2>1 DEF user_init
  <2>4. str_number' \in [1..MAX_NUMBER -> Nat]
    BY <2>3
  <2>5. state' = "WAIT" /\ num_adresse' = 0 /\ t_sleep' \in Nat
    BY <2>1, <2>2 DEF user_init
  <2> QED BY <1>0, <2>4, <2>5 DEF NumberInv
<1> QED BY <1>2, <1>4, <1>5, <1>6, <1>7 DEF ConsoleNext

\* Every step keeps the characters.
LEMMA StepValues ==
  ASSUME NumberInv, ValuesInv, IInv, IInv', [ConsoleNext]_consoleVars
  PROVE  ValuesInv'
<1>1. ValuesOf(flash') /\ ValuesOf(saved')
  BY StepFlashValues
<1>2. \A a \in Arrays : \A i \in 1..Size[a] : mem'[a][i] \in CellValues
  BY StepMemValues
<1>3. Arrays' = Arrays /\ Size' = Size /\ CellValues' = CellValues
  BY DEF Arrays, Size, CellValues
<1> QED BY <1>1, <1>2, <1>3 DEF ValuesOf, ValuesInv

\* What save_and_restart begins to write ends in every array.
LEMMA StepSaved ==
  ASSUME SavedInv, IInv, [ConsoleNext]_consoleVars
  PROVE  SavedInv'
<1>1. CASE Letter
  BY <1>1 DEF Letter, Key, Untouched, SavedInv
<1>2. CASE \E c \in Chars : Character(c)
  BY <1>2 DEF Character, Key, Untouched, SavedInv
<1>3. CASE EndOfLine \/ Save
  BY <1>3 DEF EndOfLine, Save, Key, Untouched, SavedInv, uart
<1>4. CASE SectorErased
  <2>1. state = "WAIT" /\ UNCHANGED state
    BY <1>4 DEF SectorErased, SavedInv, uart
  <2>2. \A a \in Arrays : mem[a][Size[a]] = 0
    BY <2>1 DEF IInv, LastCellInv, AtEnd, ArrayOf
  <2>3. saved' = Configuration(mem, t_sleep)
    BY <1>4 DEF SectorErased
  <2>4. \A a \in Arrays \ {"topic"} : saved'[a][Size[a]] = 0
    BY <2>2, <2>3, ConfigurationCells
  <2> QED BY <2>1, <2>4 DEF SavedInv
<1>5. CASE RecordWritten
  <2>1. state = "WAIT" /\ UNCHANGED <<state, saved>>
    <3>1. step # "none"
      BY <1>5, NamesListed DEF RecordWritten, IInv, Shapes
    <3> QED BY <1>5, <3>1 DEF RecordWritten, SavedInv, uart
  <2> QED BY <2>1 DEF SavedInv
<1>6. CASE Restart \/ PowerLoss
  BY <1>6 DEF Restart, PowerLoss, user_init, SavedInv
<1>7. CASE UNCHANGED consoleVars
  BY <1>7 DEF consoleVars, uart, SavedInv
<1> QED BY <1>1, <1>2, <1>3, <1>4, <1>5, <1>6, <1>7 DEF ConsoleNext

\* user_init leaves what the flash holds, and a key ends that.
LEMMA StepFresh ==
  ASSUME FreshInv, IInv, IInv', [ConsoleNext]_consoleVars
  PROVE  FreshInv'
<1>1. CASE Letter \/ EndOfLine \/ Save \/ \E c \in Chars : Character(c)
  <2>1. fresh' = FALSE
    BY <1>1 DEF Letter, EndOfLine, Save, Character, Key
  <2> QED BY <2>1 DEF FreshInv
<1>2. CASE SectorErased \/ RecordWritten
  <2>1. step # "none" /\ fresh' = fresh
    BY <1>2, NamesListed DEF SectorErased, RecordWritten, IInv, Shapes
  <2> QED BY <2>1 DEF FreshInv
<1>3. CASE Restart \/ PowerLoss
  <2>1. user_init(flash') /\ DOMAIN flash' = Names /\ \A r \in Names : Cells(flash'[r], Cell(r))
    BY <1>3 DEF Restart, PowerLoss, IInv, Shapes
  <2>2. \A a \in Arrays \ {"topic"} : mem'[a] = Ended(a, flash'[a])
    BY <2>1, InitCells
  <2>3. step' = "none" /\ t_sleep' = flash'["t_sleep"][1]
    BY <2>1 DEF user_init
  <2> QED BY <2>2, <2>3 DEF FreshInv, Ended, Strings, Start, Place, Arrays, Size
<1>4. CASE UNCHANGED consoleVars
  BY <1>4 DEF consoleVars, config, FreshInv, Ended
<1> QED BY <1>1, <1>2, <1>3, <1>4 DEF ConsoleNext

-----------------------------------------------------------------------------
(* Strings.                                                                *)

\* The string that begins behind the cell b of the n cells of f ends at e.
EndsAt(f, b, n, e) ==
  /\ e \in b + 1..n /\ f[e] = 0
  /\ \A j \in b + 1..e - 1 : f[j] # 0

\* One that has a 0 ends somewhere.
LEMMA EndExists ==
  ASSUME NEW f, NEW b \in Nat, NEW n \in Nat, b < n, f[n] = 0
  PROVE  \E e \in b + 1..n : EndsAt(f, b, n, e)
<1> DEFINE T == {j \in b + 1..n : f[j] = 0}
<1>1. T \subseteq Nat /\ n \in T
  OBVIOUS
<1> HIDE DEF T
<1>2. PICK e \in T : \A y \in T : e <= y
  BY <1>1, LeastExists
<1> USE DEF T
<1>3. ASSUME NEW j \in b + 1..e - 1 PROVE f[j] # 0
  <2>1. j \in b + 1..n /\ ~(e <= j)
    OBVIOUS
  <2> QED BY <1>2, <2>1
<1> QED BY <1>2, <1>3 DEF EndsAt

\* Where it ends, it is what StringIn finds.
LEMMA StringIs ==
  ASSUME NEW m, NEW s \in Strings, NEW e, EndsAt(m[s[1]], Start(s), Size[s[1]], e)
  PROVE  StringIn(m, s) = SubSeq(m[s[1]], Start(s) + 1, e - 1)
<1>1. Start(s) \in Nat /\ Size[s[1]] \in Nat
  BY PlacesFit, SizesPositive
<1>2. e \in Ends(m, s)
  BY DEF EndsAt, Ends
<1>3. ASSUME NEW j \in Ends(m, s) PROVE e <= j
  <2>1. j \in Start(s) + 1..Size[s[1]] /\ m[s[1]][j] = 0
    BY DEF Ends
  <2>2. j \notin Start(s) + 1..e - 1
    BY <2>1 DEF EndsAt
  <2> QED BY <1>1, <2>1, <2>2 DEF EndsAt
<1> DEFINE c == CHOOSE i \in Ends(m, s) : \A j \in Ends(m, s) : i <= j
<1>4. c \in Ends(m, s) /\ \A j \in Ends(m, s) : c <= j
  BY <1>2, <1>3
<1>5. c = e
  <2>1. c <= e /\ e <= c
    BY <1>2, <1>3, <1>4
  <2>2. c \in Nat /\ e \in Nat
    BY <1>1, <1>2, <1>4 DEF Ends
  <2> QED BY <2>1, <2>2
<1> QED BY <1>5 DEF StringIn

\* The cells between b and e as a sequence.
LEMMA PartOf ==
  ASSUME NEW n \in Nat, NEW f \in [1..n -> Nat], NEW b \in Nat, NEW e \in b + 1..n + 1
  PROVE  /\ SubSeq(f, b + 1, e - 1) \in Seq(Nat)
         /\ Len(SubSeq(f, b + 1, e - 1)) = e - 1 - b
         /\ \A i \in 1..e - 1 - b : SubSeq(f, b + 1, e - 1)[i] = f[b + i]
<1>1. f \in Seq(Nat) /\ Len(f) = n
  OBVIOUS
<1>2. b + 1 \in 1..n + 1 /\ e - 1 \in b..n
  OBVIOUS
<1> QED BY <1>1, <1>2, SubSeqProperties

\* The beginning of a sequence.
LEMMA ShortenedIs ==
  ASSUME NEW t \in Seq(Nat), NEW n \in Nat
  PROVE  /\ Shortened(t, n) \in Seq(Nat)
         /\ Len(Shortened(t, n)) = IF Len(t) < n THEN Len(t) ELSE n
         /\ \A i \in 1..Len(Shortened(t, n)) : Shortened(t, n)[i] = t[i]
<1> DEFINE k == IF Len(t) < n THEN Len(t) ELSE n
<1>1. Len(t) \in Nat /\ k \in 0..Len(t)
  OBVIOUS
<1>2. Shortened(t, n) = SubSeq(t, 1, k)
  BY DEF Shortened
<1> HIDE DEF k
<1>3. SubSeq(t, 1, k) \in Seq(Nat) /\ Len(SubSeq(t, 1, k)) = k
      /\ \A i \in 1..k : SubSeq(t, 1, k)[i] = t[i]
  BY <1>1, SubSeqProperties
<1> QED BY <1>2, <1>3 DEF k

\* Sequences with the same elements are the same.
LEMMA SameSequence ==
  ASSUME NEW x \in Seq(Nat), NEW y \in Seq(Nat), Len(x) = Len(y),
         \A i \in 1..Len(x) : x[i] = y[i]
  PROVE  x = y
OBVIOUS

\* The places of an array, one behind the other.
LEMMA PlacesApart ==
  ASSUME NEW s \in Strings, NEW r \in Strings, s[1] = r[1]
  PROVE  /\ Start(s) \in Nat /\ Place(s) \in Nat \ {0}
         /\ Start(s) + Place(s) <= Size[s[1]]
         /\ s[1] # "topic" => Place(s) >= 2
         /\ s # r => /\ s[1] = "adresse"
                     /\ \/ Start(r) + Place(r) <= Start(s)
                        \/ Start(s) + Place(s) <= Start(r)
<1>0. MAX_ADRESSE_LENGTH \in Nat /\ MAX_ADRESSE_LENGTH >= 2 /\ NB_ADRESSE \in Nat
  BY ConsoleAssumption
<1>1. CASE s[1] = "adresse"
  <2> DEFINE n == s[2]
             m == r[2]
  <2>1. n \in 0..NB_ADRESSE - 1 /\ m \in 0..NB_ADRESSE - 1
    BY <1>1, ConsoleAssumption DEF Strings
  <2>2. s # r => n # m
    <3>1. \A t \in Strings : t = <<t[1], t[2]>>
      BY DEF Strings
    <3>2. s = <<s[1], n>> /\ r = <<s[1], m>>
      BY <3>1
    <3> QED BY <3>2
  <2>3. Size[s[1]] = NB_ADRESSE * MAX_ADRESSE_LENGTH
    BY <1>0, <1>1 DEF Size
  <2>4. /\ Start(s) = n * MAX_ADRESSE_LENGTH /\ Place(s) = MAX_ADRESSE_LENGTH
        /\ Start(r) = m * MAX_ADRESSE_LENGTH /\ Place(r) = MAX_ADRESSE_LENGTH
    BY <1>1 DEF Start, Place
  <2> HIDE DEF n, m
  <2>5. \A b, d, l \in Nat : b <= d => b * l \in Nat /\ d * l \in Nat /\ b * l <= d * l
    OBVIOUS
  <2>6. \A k \in Nat : (k + 1) * MAX_ADRESSE_LENGTH = k * MAX_ADRESSE_LENGTH + MAX_ADRESSE_LENGTH
    BY <1>0
  <2>7. n * MAX_ADRESSE_LENGTH + MAX_ADRESSE_LENGTH <= NB_ADRESSE * MAX_ADRESSE_LENGTH
    <3>1. n + 1 \in Nat /\ n + 1 <= NB_ADRESSE /\ n \in Nat
      BY <1>0, <2>1
    <3>2. (n + 1) * MAX_ADRESSE_LENGTH <= NB_ADRESSE * MAX_ADRESSE_LENGTH
      BY <1>0, <3>1, <2>5
    <3> QED BY <2>6, <3>1, <3>2
  <2>8. n * MAX_ADRESSE_LENGTH \in Nat /\ m * MAX_ADRESSE_LENGTH \in Nat
    BY <1>0, <2>1
  <2>9. n < m => n * MAX_ADRESSE_LENGTH + MAX_ADRESSE_LENGTH <= m * MAX_ADRESSE_LENGTH
    <3> SUFFICES ASSUME n < m
                 PROVE  n * MAX_ADRESSE_LENGTH + MAX_ADRESSE_LENGTH <= m * MAX_ADRESSE_LENGTH
      OBVIOUS
    <3>1. n \in Nat /\ n + 1 \in Nat /\ m \in Nat /\ n + 1 <= m
      BY <2>1
    <3>2. (n + 1) * MAX_ADRESSE_LENGTH <= m * MAX_ADRESSE_LENGTH
      BY <1>0, <3>1, <2>5
    <3> QED BY <2>6, <3>1, <3>2
  <2>10. m < n => m * MAX_ADRESSE_LENGTH + MAX_ADRESSE_LENGTH <= n * MAX_ADRESSE_LENGTH
    <3> SUFFICES ASSUME m < n
                 PROVE  m * MAX_ADRESSE_LENGTH + MAX_ADRESSE_LENGTH <= n * MAX_ADRESSE_LENGTH
      OBVIOUS
    <3>1. m \in Nat /\ m + 1 \in Nat /\ n \in Nat /\ m + 1 <= n
      BY <2>1
    <3>2. (m + 1) * MAX_ADRESSE_LENGTH <= n * MAX_ADRESSE_LENGTH
      BY <1>0, <3>1, <2>5
    <3> QED BY <2>6, <3>1, <3>2
  <2>11. n # m => n < m \/ m < n
    BY <2>1
  <2> QED BY <1>0, <1>1, <2>2, <2>3, <2>4, <2>7, <2>8, <2>9, <2>10, <2>11
<1>2. CASE s[1] # "adresse"
  <2>1. s[2] = 0 /\ r[2] = 0 /\ s = r
    BY <1>2 DEF Strings
  <2>2. Start(s) = 0
    BY <2>1, ConsoleAssumption DEF Start
  <2>3. Place(s) = Size[s[1]] /\ s[1] \in Arrays
    BY <1>2, PlacesFit DEF Place
  <2>4. Size[s[1]] \in Nat \ {0} /\ (s[1] # "topic" => Size[s[1]] >= 2)
    BY <1>2, <2>2, <2>3, SizesPositive, PlacesFit
  <2> QED BY <2>1, <2>2, <2>3, <2>4
<1> QED BY <1>1, <1>2

\* user_init ends a string that is too long at its last place.
LEMMA EndedString ==
  ASSUME NEW s \in Strings, NEW m, NEW w,
         m[s[1]] \in [1..Size[s[1]] -> Nat], w[s[1]] \in [1..Size[s[1]] -> Nat],
         m[s[1]] = Ended(s[1], w[s[1]]), w[s[1]][Size[s[1]]] = 0
  PROVE  StringIn(m, s) = Shortened(StringIn(w, s), Place(s) - 1)
<1> DEFINE f == w[s[1]]
           g == m[s[1]]
           n == Size[s[1]]
           b == Start(s)
           p == b + Place(s)
<1>1. b \in Nat /\ Place(s) \in Nat \ {0} /\ p \in Nat /\ n \in Nat /\ b < p /\ p <= n
  BY PlacesApart, PlacesFit, SizesPositive
<1>2. g = [i \in 1..n |-> IF \E r \in Strings : r[1] = s[1] /\ i = Start(r) + Place(r)
                          THEN 0 ELSE f[i]]
  BY DEF Ended
<1>3. \A r \in Strings : r[1] = s[1] => ~(b < Start(r) + Place(r) /\ Start(r) + Place(r) < p)
  <2> SUFFICES ASSUME NEW r \in Strings, r[1] = s[1],
                      b < Start(r) + Place(r), Start(r) + Place(r) < p
               PROVE  FALSE
    OBVIOUS
  <2>1. Start(r) \in Nat /\ Place(r) \in Nat \ {0}
    BY PlacesApart
  <2>2. s # r => \/ Start(r) + Place(r) <= Start(s)
                 \/ Start(s) + Place(s) <= Start(r)
    BY PlacesApart
  <2> QED BY <1>1, <2>1, <2>2
<1> HIDE DEF f, g, n, b, p
<1>4. PICK e \in b + 1..n : EndsAt(f, b, n, e)
  <2>1. f[n] = 0 /\ b < n
    BY <1>1 DEF f, n
  <2> QED BY <1>1, <2>1, EndExists
<1> DEFINE x == IF e < p THEN e ELSE p
<1>5. x \in b + 1..n /\ x <= e /\ x <= p
  BY <1>1
<1>6. \A j \in b + 1..x - 1 : g[j] = f[j] /\ f[j] # 0
  <2> SUFFICES ASSUME NEW j \in b + 1..x - 1 PROVE g[j] = f[j] /\ f[j] # 0
    OBVIOUS
  <2>1. j \in 1..n /\ b < j /\ j < p /\ j \in b + 1..e - 1
    BY <1>1
  <2> QED BY <1>2, <1>3, <1>4, <2>1 DEF EndsAt
<1>7. g[x] = 0
  <2>0. x \in 1..n
    BY <1>1, <1>5
  <2>1. CASE e < p
    BY <1>2, <1>4, <2>0, <2>1 DEF EndsAt
  <2>2. CASE ~(e < p)
    <3>1. x = Start(s) + Place(s)
      BY <2>2 DEF p, b
    <3> QED BY <1>2, <2>0, <3>1
  <2> QED BY <2>1, <2>2
<1>8. EndsAt(g, b, n, x)
  BY <1>5, <1>6, <1>7 DEF EndsAt
<1> HIDE DEF x
<1>9. StringIn(m, s) = SubSeq(g, b + 1, x - 1) /\ StringIn(w, s) = SubSeq(f, b + 1, e - 1)
  BY <1>4, <1>8, StringIs DEF f, g, b, n
<1>10. f \in [1..n -> Nat] /\ g \in [1..n -> Nat]
  BY DEF f, g, n
<1> DEFINE u == SubSeq(g, b + 1, x - 1)
           v == SubSeq(f, b + 1, e - 1)
<1>11. u \in Seq(Nat) /\ Len(u) = x - 1 - b /\ \A i \in 1..x - 1 - b : u[i] = g[b + i]
  <2>1. x \in b + 1..n + 1
    BY <1>1, <1>5
  <2> QED BY <1>1, <1>10, <2>1, PartOf
<1>12. v \in Seq(Nat) /\ Len(v) = e - 1 - b /\ \A i \in 1..e - 1 - b : v[i] = f[b + i]
  <2>1. e \in b + 1..n + 1
    BY <1>1
  <2> QED BY <1>1, <1>10, <2>1, PartOf
<1> HIDE DEF u, v
<1> DEFINE k == Place(s) - 1
           y == Shortened(v, k)
<1>13. k \in Nat /\ p = b + k + 1
  BY <1>1 DEF p
<1> HIDE DEF k
<1>14. /\ y \in Seq(Nat) /\ Len(y) = IF Len(v) < k THEN Len(v) ELSE k
       /\ \A i \in 1..Len(y) : y[i] = v[i]
  BY <1>12, <1>13, ShortenedIs
<1> HIDE DEF y
<1>15. Len(y) = Len(u)
  BY <1>1, <1>4, <1>11, <1>12, <1>13, <1>14 DEF x
<1>16. ASSUME NEW i \in 1..Len(u) PROVE u[i] = y[i]
  <2>1. i \in 1..x - 1 - b /\ i \in 1..e - 1 - b /\ b + i \in b + 1..x - 1
    BY <1>1, <1>4, <1>5, <1>11
  <2>2. u[i] = g[b + i] /\ v[i] = f[b + i] /\ g[b + i] = f[b + i]
    BY <1>6, <1>11, <1>12, <2>1
  <2>3. y[i] = v[i]
    BY <1>14, <1>15
  <2> QED BY <2>2, <2>3
<1>17. u = y
  BY <1>11, <1>14, <1>15, <1>16, SameSequence
<1> QED BY <1>9, <1>17 DEF u, v, y, k

-----------------------------------------------------------------------------
(* What a restart finds.                                                   *)

\* The arrays are functions of their cells, as the lemmas on strings need.
LEMMA MemArrays ==
  ASSUME IInv, ValuesInv, NEW a \in Arrays
  PROVE  /\ mem[a] \in [1..Size[a] -> Nat]
         /\ a # "topic" => saved[a] \in [1..Size[a] -> Nat] /\ flash[a] \in [1..Size[a] -> Nat]
<1>1. CellValues \subseteq Nat
  <2>1. Chars \subseteq Nat /\ Erased \in Nat
    BY ConsoleAssumption
  <2> QED BY <2>1 DEF CellValues
<1>2. Cells(mem[a], Size[a])
  BY DEF IInv, Shapes
<1>3. a # "topic" => Cells(saved[a], Size[a]) /\ Cells(flash[a], Size[a])
  BY NamesListed DEF IInv, Shapes, Cell
<1> QED BY <1>1, <1>2, <1>3 DEF ValuesInv, Cells

\* After a restart from a flash that was written whole, the strings in memory
\* are those that were saved, shortened to their places.
LEMMA RestartFinds ==
  ASSUME IInv, ValuesInv, SavedInv, FreshInv
  PROVE  RestartKeeps
<1> SUFFICES ASSUME fresh, flash = saved PROVE
      /\ <<t_sleep>> = saved["t_sleep"]
      /\ \A s \in Strings : s[1] # "topic" =>
           StringIn(mem, s) = Shortened(StringIn(saved, s), Place(s) - 1)
  BY DEF RestartKeeps
<1>1. <<t_sleep>> = saved["t_sleep"]
  <2>1. t_sleep = saved["t_sleep"][1]
    BY DEF FreshInv
  <2>2. saved["t_sleep"] = [i \in 1..1 |-> saved["t_sleep"][i]]
    BY NamesListed DEF IInv, Shapes, Cells, Cell
  <2>3. saved["t_sleep"] = [i \in 1..1 |-> t_sleep]
    BY <2>1, <2>2
  <2>4. <<t_sleep>> = [i \in 1..1 |-> t_sleep]
    OBVIOUS
  <2> QED BY <2>3, <2>4
<1>2. ASSUME NEW s \in Strings, s[1] # "topic"
      PROVE  StringIn(mem, s) = Shortened(StringIn(saved, s), Place(s) - 1)
  <2>1. s[1] \in Arrays
    BY PlacesFit
  <2>2. mem[s[1]] \in [1..Size[s[1]] -> Nat] /\ saved[s[1]] \in [1..Size[s[1]] -> Nat]
    BY <1>2, <2>1, MemArrays
  <2>3. mem[s[1]] = Ended(s[1], saved[s[1]])
    BY <1>2, <2>1 DEF FreshInv
  <2>4. saved[s[1]][Size[s[1]]] = 0
    BY <1>2, <2>1 DEF SavedInv
  <2> QED BY <2>2, <2>3, <2>4, EndedString
<1> QED BY <1>1, <1>2

-----------------------------------------------------------------------------
(* What an edit changes.                                                   *)

\* LastIn is rx_uart0's limit, that of the addresses is the password's.
LEMMA LastInType ==
  /\ \A s \in Strings : LastIn(s) \in Nat
  /\ state \in DOMAIN ArrayOf => LastIn(Target) = LastOf[state]
<1>1. ASSUME NEW s \in Strings PROVE LastIn(s) \in Nat
  BY PlacesFit, SizesPositive, ConsoleAssumption DEF LastIn
<1>2. ASSUME state \in DOMAIN ArrayOf PROVE LastIn(Target) = LastOf[state]
  <2>1. Target[1] = ArrayOf[state]
    BY DEF Target
  <2> QED BY <1>2, <2>1 DEF LastIn, LastOf, ArrayOf, Size
<1> QED BY <1>1, <1>2

\* A letter begins an edit: nothing is typed and nothing changed.
LEMMA LetterEdit ==
  ASSUME EditInv, IInv, NumberInv, NumberInv', ValuesInv, Letter
  PROVE  EditInv'
<1>1. PICK to \in DOMAIN LastOf :
        \E n \in IF to = "CONFIG_ADDRESSE" THEN 0..NB_ADRESSE - 1 ELSE {num_adresse} :
          /\ Begins(to, n)
          /\ edited' = IF to = "CONFIG_T_SLEEP" THEN <<>>
                       ELSE <<ArrayOf[to], IF to = "CONFIG_ADDRESSE" THEN n ELSE 0>>
  BY DEF Letter
<1>2. state' = to /\ pointeur' = 0 /\ typed' = <<>> /\ before' = mem /\ mem' = mem
      /\ state = "WAIT"
  BY <1>1 DEF Letter, Begins, config
<1>3. state' # "CONFIG_T_SLEEP" => edited' = Target'
  BY <1>1, <1>2 DEF Begins, Target
<1>4. \A a \in Arrays : before'[a] \in [1..Size[a] -> Nat] /\ before'[a][Size[a]] = 0
  <2>1. \A a \in Arrays : mem[a][Size[a]] = 0
    BY <1>2 DEF IInv, LastCellInv, AtEnd, ArrayOf
  <2> QED BY <1>2, <2>1, MemArrays
<1>5. DOMAIN before' = Arrays /\ typed' \in Seq(Nat \ {0}) /\ Len(typed') = 0
  BY <1>2 DEF IInv, Shapes
<1>6. CASE to = "CONFIG_T_SLEEP"
  <2>1. edited' = <<>> /\ state' \notin DOMAIN ArrayOf
    BY <1>1, <1>2, <1>6 DEF ArrayOf
  <2> QED BY <1>2, <1>4, <1>5, <2>1 DEF EditInv
<1>7. CASE to # "CONFIG_T_SLEEP"
  <2>1. to \in DOMAIN ArrayOf
    BY <1>7 DEF LastOf, ArrayOf
  <2>2. edited' = Target'
    BY <1>2, <1>3, <1>7
  <2>3. Target' \in Strings
    <3>1. NumberInv /\ state \in DOMAIN ArrayOf => Target \in Strings
      BY TargetPlace
    <3>2. (NumberInv /\ state \in DOMAIN ArrayOf => Target \in Strings)'
      BY <3>1, TargetPlace, PTL
    <3>3. state' \in DOMAIN ArrayOf'
      BY <1>2, <2>1 DEF ArrayOf
    <3>4. Strings' = Strings
      BY DEF Strings, Arrays, Size
    <3> QED BY <3>2, <3>3, <3>4
  <2>4. LastIn(edited') \in Nat
    BY <2>2, <2>3, LastInType
  <2>5. Stored' = 0
    <3>1. Stored' = IF Len(typed') < LastIn(edited') THEN Len(typed') ELSE LastIn(edited')
      BY DEF Stored, LastIn, Size
    <3> QED BY <1>5, <2>4, <3>1
  <2>6. Start(edited') + 0 <= Size[edited'[1]] /\ edited'[1] \in Arrays
    <3>1. Start(edited') \in Nat /\ Start(edited') + 1 <= Size[edited'[1]] /\ edited'[1] \in Arrays
      BY <2>2, <2>3, PlacesFit
    <3> QED BY <3>1, SizesPositive
  <2>7. edited' # <<>> /\ state' # "WAIT"
    BY <1>1, <1>2, <1>7 DEF LastOf
  <2> DEFINE E == edited'
  <2>8. (/\ \A a \in Arrays \ {edited[1]} : mem[a] = before[a]
         /\ \A j \in 1..Size[edited[1]] :
            j <= Start(edited) \/ j > Start(edited) + Stored + 1 =>
              mem[edited[1]][j] = before[edited[1]][j]
         /\ Start(edited) + Stored <= Size[edited[1]]
         /\ \A i \in 1..Stored : mem[edited[1]][Start(edited) + i] = typed[i])'
    <3>1. mem' = before'
      BY <1>2
    <3>2. Start(edited)' = Start(edited') /\ Size' = Size
      BY DEF Start, Size
    <3> QED BY <2>5, <2>6, <3>1, <3>2
  <2> QED BY <1>2, <1>4, <1>5, <1>7, <2>2, <2>3, <2>5, <2>7, <2>8 DEF EditInv, Strings, Arrays, Size
<1> QED BY <1>6, <1>7

\* The part of EditInv about an array.
Kept(m, s, k) ==
  /\ \A a \in Arrays \ {s[1]} : m[a] = before[a]
  /\ \A j \in 1..Size[s[1]] :
       j <= Start(s) \/ j > Start(s) + k + 1 => m[s[1]][j] = before[s[1]][j]

\* While a string is typed, rx_uart0 writes where it says.
LEMMA Typing ==
  ASSUME EditInv, IInv, NumberInv, state # "WAIT", state # "CONFIG_T_SLEEP"
  PROVE  /\ state \in DOMAIN ArrayOf /\ edited = Target /\ edited \in Strings
         /\ edited # <<>> /\ edited[1] = ArrayOf[state] /\ edited[1] \in Arrays
         /\ Start(edited) \in Nat /\ Size[edited[1]] \in Nat
         /\ LastIn(edited) \in Nat /\ LastIn(edited) = LastOf[state]
         /\ Stored \in Nat /\ Stored <= Len(typed) /\ pointeur = Stored
         /\ Stored <= LastIn(edited) /\ Len(typed) \in Nat
         /\ Stored # Len(typed) => Stored = LastIn(edited)
<1>1. state \in DOMAIN ArrayOf
  BY DEF IInv, LastCellInv, LastOf, ArrayOf
<1>2. edited = Target /\ pointeur = Stored
  BY <1>1 DEF EditInv
<1>3. Target \in Strings /\ Target[1] = ArrayOf[state] /\ Start(Target) \in Nat
  BY <1>1, TargetPlace
<1>4. edited # <<>>
  BY <1>2 DEF Target
<1>5. LastIn(edited) \in Nat /\ LastIn(edited) = LastOf[state]
  BY <1>1, <1>2, <1>3, LastInType
<1>6. Len(typed) \in Nat
  BY DEF EditInv
<1>7. edited[1] \in Arrays /\ Size[edited[1]] \in Nat
  BY <1>2, <1>3, PlacesFit, SizesPositive
<1> QED BY <1>1, <1>2, <1>3, <1>4, <1>5, <1>6, <1>7 DEF Stored

\* What Put leaves of the arrays while a string is typed.
LEMMA PutKept ==
  ASSUME EditInv, IInv, NumberInv, state # "WAIT", state # "CONFIG_T_SLEEP", InArray,
         NEW c, Put(c), NEW k \in Nat, Stored <= k
  PROVE  /\ Kept(mem', edited, k)
         /\ Start(edited) + Stored < Size[edited[1]]
         /\ mem'[edited[1]][Start(edited) + Stored + 1] = c
         /\ \A i \in 1..Stored : mem'[edited[1]][Start(edited) + i] = typed[i]
<1>1. /\ edited = Target /\ edited # <<>> /\ edited[1] = ArrayOf[state] /\ edited[1] \in Arrays
      /\ Start(edited) \in Nat /\ Size[edited[1]] \in Nat
      /\ Stored \in Nat /\ pointeur = Stored
  BY Typing
<1> DEFINE A == edited[1]
           b == Start(edited)
           n == Size[edited[1]]
<1>2. b + Stored < n
  BY <1>1 DEF InArray
<1>3. \A a \in Arrays : \A i \in 1..Size[a] :
        mem'[a][i] = IF a = A /\ i = b + Stored + 1 THEN c ELSE mem[a][i]
  BY <1>1, PutCells
<1>4. /\ \A a \in Arrays \ {A} : mem[a] = before[a]
      /\ \A j \in 1..n : j <= b \/ j > b + Stored + 1 => mem[A][j] = before[A][j]
      /\ \A i \in 1..Stored : mem[A][b + i] = typed[i]
  BY <1>1 DEF EditInv
<1>5. \A a \in Arrays \ {A} : mem'[a] = before[a]
  <2> SUFFICES ASSUME NEW a \in Arrays \ {A} PROVE mem'[a] = before[a]
    OBVIOUS
  <2>1. mem'[a] = mem[a]
    <3>1. mem' = [mem EXCEPT ![A][b + pointeur + 1] = c]
      BY <1>1 DEF Put
    <3> QED BY <3>1 DEF IInv, Shapes
  <2> QED BY <1>4, <2>1
<1> HIDE DEF A, b, n
<1>6. \A j \in 1..n : j <= b \/ j > b + k + 1 => mem'[A][j] = before[A][j]
  <2> SUFFICES ASSUME NEW j \in 1..n, j <= b \/ j > b + k + 1
               PROVE  mem'[A][j] = before[A][j]
    OBVIOUS
  <2>1. j # b + Stored + 1 /\ (j <= b \/ j > b + Stored + 1)
    BY <1>1 DEF b, n
  <2> QED BY <1>1, <1>3, <1>4, <2>1 DEF A, n
<1>7. mem'[A][b + Stored + 1] = c
  <2>1. b + Stored + 1 \in 1..n
    BY <1>1, <1>2 DEF b, n
  <2> QED BY <1>1, <1>3, <2>1 DEF A, n
<1>8. \A i \in 1..Stored : mem'[A][b + i] = typed[i]
  <2> SUFFICES ASSUME NEW i \in 1..Stored PROVE mem'[A][b + i] = typed[i]
    OBVIOUS
  <2>1. b + i \in 1..n /\ b + i # b + Stored + 1
    BY <1>1, <1>2 DEF b, n
  <2> QED BY <1>1, <1>3, <1>4, <2>1 DEF A, n
<1> QED BY <1>2, <1>5, <1>6, <1>7, <1>8 DEF Kept, A, b, n

\* A character is stored behind the others, or in place of the last.
LEMMA CharacterEdit ==
  ASSUME EditInv, IInv, NumberInv, NEW c \in Chars, Character(c)
  PROVE  EditInv'
<1>1. /\ state # "WAIT" /\ InArray /\ Put(c) /\ pointeur' = Advance
      /\ typed' = Append(typed, c)
      /\ UNCHANGED <<state, num_adresse, before, edited>>
  BY DEF Character
<1>2. c \in Nat \ {0}
  BY ConsoleAssumption
<1>3. /\ typed \in Seq(Nat \ {0}) /\ typed' \in Seq(Nat \ {0})
      /\ Len(typed) \in Nat /\ Len(typed') = Len(typed) + 1
      /\ \A i \in 1..Len(typed) : typed'[i] = typed[i]
      /\ typed'[Len(typed) + 1] = c
  BY <1>1, <1>2 DEF EditInv
<1>4. Target' = Target /\ state' = state /\ before' = before /\ edited' = edited
  BY <1>1 DEF Target
<1>5. CASE state = "CONFIG_T_SLEEP"
  <2>1. mem' = mem /\ edited = <<>> /\ state \notin DOMAIN ArrayOf
    BY <1>1, <1>5 DEF Put, EditInv, ArrayOf
  <2> QED BY <1>3, <1>4, <1>5, <2>1 DEF EditInv
<1>6. CASE state # "CONFIG_T_SLEEP"
  <2>1. /\ state \in DOMAIN ArrayOf /\ edited = Target /\ edited \in Strings
        /\ edited # <<>> /\ edited[1] = ArrayOf[state] /\ edited[1] \in Arrays
        /\ Start(edited) \in Nat /\ Size[edited[1]] \in Nat
        /\ LastIn(edited) \in Nat /\ LastIn(edited) = LastOf[state]
        /\ Stored \in Nat /\ Stored <= Len(typed) /\ pointeur = Stored
        /\ Stored <= LastIn(edited)
        /\ Stored # Len(typed) => Stored = LastIn(edited)
    BY <1>1, <1>6, Typing
  <2>2. Stored' = IF Stored < LastIn(edited) THEN Stored + 1 ELSE Stored
    <3>1. Stored' = IF Len(typed') < LastIn(edited) THEN Len(typed') ELSE LastIn(edited)
      BY <1>4 DEF Stored, LastIn, Size
    <3> QED BY <1>3, <2>1, <3>1 DEF Stored
  <2>3. pointeur' = Stored'
    BY <1>1, <2>1, <2>2 DEF Advance
  <2>4. Stored' \in Nat /\ Stored <= Stored' /\ Stored' <= Stored + 1
    BY <2>1, <2>2
  <2>5. /\ Kept(mem', edited, Stored')
        /\ Start(edited) + Stored < Size[edited[1]]
        /\ mem'[edited[1]][Start(edited) + Stored + 1] = c
        /\ \A i \in 1..Stored : mem'[edited[1]][Start(edited) + i] = typed[i]
    BY <1>1, <1>6, <2>4, PutKept
  <2>6. Start(edited) + Stored' <= Size[edited[1]]
    BY <2>1, <2>4, <2>5
  <2>7. ASSUME NEW i \in 1..Stored' PROVE mem'[edited[1]][Start(edited) + i] = typed'[i]
    <3>1. CASE i \in 1..Stored
      BY <1>3, <2>1, <2>5, <3>1
    <3>2. CASE i = Stored + 1
      <4>1. Stored = Len(typed)
        BY <2>1, <2>2, <2>4, <3>2
      <4>2. Start(edited) + i = Start(edited) + Stored + 1
        BY <2>1, <3>2
      <4> QED BY <1>3, <2>5, <3>2, <4>1, <4>2
    <3> QED BY <2>1, <2>4, <3>1, <3>2
  <2>8. (edited # <<>> =>
          /\ \A a \in Arrays \ {edited[1]} : mem[a] = before[a]
          /\ \A j \in 1..Size[edited[1]] :
               j <= Start(edited) \/ j > Start(edited) + Stored + 1 =>
                 mem[edited[1]][j] = before[edited[1]][j]
          /\ Start(edited) + Stored <= Size[edited[1]]
          /\ \A i \in 1..Stored : mem[edited[1]][Start(edited) + i] = typed[i])'
    BY <1>4, <2>5, <2>6, <2>7 DEF Kept, Start, Arrays, Size
  <2>9. edited' = Target' /\ edited' # <<>> /\ edited' \in Strings' /\ state' # "WAIT"
    BY <1>1, <1>4, <2>1 DEF Strings, Arrays, Size
  <2>10. (/\ DOMAIN before = Arrays
          /\ \A a \in Arrays : before[a] \in [1..Size[a] -> Nat] /\ before[a][Size[a]] = 0)'
    BY <1>4 DEF EditInv, Arrays, Size
  <2> QED BY <1>3, <1>4, <1>6, <2>3, <2>8, <2>9, <2>10 DEF EditInv
<1> QED BY <1>5, <1>6

\* The end of the line puts the 0 behind what is stored.
LEMMA EndOfLineEdit ==
  ASSUME EditInv, IInv, NumberInv, EndOfLine
  PROVE  EditInv'
<1>1. /\ state # "WAIT" /\ InArray /\ Put(0) /\ state' = "WAIT"
      /\ UNCHANGED <<pointeur, num_adresse, typed, before, edited>>
  BY DEF EndOfLine, edit
<1>2. state' \notin DOMAIN ArrayOf
  BY <1>1 DEF ArrayOf
<1>3. Stored' = Stored
  BY <1>1 DEF Stored, LastIn, Size
<1>4. (/\ DOMAIN before = Arrays
       /\ \A a \in Arrays : before[a] \in [1..Size[a] -> Nat] /\ before[a][Size[a]] = 0)'
  BY <1>1 DEF EditInv, Arrays, Size
<1>5. CASE state = "CONFIG_T_SLEEP"
  <2>1. mem' = mem /\ edited = <<>>
    BY <1>1, <1>5 DEF Put, EditInv
  <2> QED BY <1>1, <1>2, <1>4, <2>1 DEF EditInv, ArrayOf
<1>6. CASE state # "CONFIG_T_SLEEP"
  <2>1. Stored \in Nat /\ Start(edited) \in Nat /\ Size[edited[1]] \in Nat /\ edited # <<>>
        /\ edited \in Strings
    BY <1>1, <1>6, Typing
  <2>2. /\ Kept(mem', edited, Stored)
        /\ Start(edited) + Stored < Size[edited[1]]
        /\ mem'[edited[1]][Start(edited) + Stored + 1] = 0
        /\ \A i \in 1..Stored : mem'[edited[1]][Start(edited) + i] = typed[i]
    BY <1>1, <1>6, <2>1, PutKept
  <2>3. Start(edited) + Stored <= Size[edited[1]]
    BY <2>1, <2>2
  <2>4. (edited # <<>> =>
          /\ \A a \in Arrays \ {edited[1]} : mem[a] = before[a]
          /\ \A j \in 1..Size[edited[1]] :
               j <= Start(edited) \/ j > Start(edited) + Stored + 1 =>
                 mem[edited[1]][j] = before[edited[1]][j]
          /\ Start(edited) + Stored <= Size[edited[1]]
          /\ \A i \in 1..Stored : mem[edited[1]][Start(edited) + i] = typed[i]
          /\ state = "WAIT" => /\ Start(edited) + Stored < Size[edited[1]]
                               /\ mem[edited[1]][Start(edited) + Stored + 1] = 0)'
    BY <1>1, <1>3, <2>2, <2>3 DEF Kept, Start, Arrays, Size
  <2>5. edited' \in Strings'
    BY <1>1, <2>1 DEF Strings, Arrays, Size
  <2> QED BY <1>1, <1>2, <1>4, <2>1, <2>4, <2>5 DEF EditInv, ArrayOf
<1> QED BY <1>5, <1>6

\* Every step keeps the edit.
LEMMA StepEdit ==
  ASSUME EditInv, IInv, IInv', NumberInv, NumberInv', ValuesInv, ValuesInv',
         [ConsoleNext]_consoleVars
  PROVE  EditInv'
<1>1. CASE Letter
  BY <1>1, LetterEdit
<1>2. CASE \E c \in Chars : Character(c)
  BY <1>2, CharacterEdit
<1>3. CASE EndOfLine
  BY <1>3, EndOfLineEdit
<1>4. CASE Save \/ SectorErased \/ RecordWritten \/ UNCHANGED consoleVars
  <2>1. UNCHANGED <<state, pointeur, num_adresse, mem, typed, before, edited>>
    BY <1>4 DEF Save, SectorErased, RecordWritten, consoleVars, uart, config, edit
  <2>2. Stored' = Stored /\ Target' = Target
    BY <2>1 DEF Stored, LastIn, Size, Target
  <2> QED BY <2>1, <2>2 DEF EditInv, Start, Arrays, Size, Strings, ArrayOf
<1>5. CASE Restart \/ PowerLoss
  <2>1. user_init(flash')
    BY <1>5 DEF Restart, PowerLoss
  <2>2. /\ state' = "WAIT" /\ typed' = <<>> /\ before' = mem' /\ edited' = <<>>
    BY <2>1 DEF user_init
  <2>3. \A a \in Arrays : mem'[a] \in [1..Size[a] -> Nat]
    <3>1. CellValues \subseteq Nat
      <4>1. Chars \subseteq Nat /\ Erased \in Nat
        BY ConsoleAssumption
      <4> QED BY <4>1 DEF CellValues
    <3>2. \A a \in Arrays : \A i \in 1..Size[a] : mem'[a][i] \in Nat
      BY <3>1 DEF ValuesInv, Arrays, Size, CellValues
    <3>3. \A a \in Arrays : Cells(mem'[a], Size[a])
      BY DEF IInv, Shapes, Arrays, Size, Cells
    <3> QED BY <3>2, <3>3 DEF Cells
  <2>4. \A a \in Arrays : mem'[a][Size[a]] = 0
    BY <2>2 DEF IInv, LastCellInv, AtEnd, ArrayOf, Arrays, Size
  <2>5. DOMAIN mem' = Arrays
    BY DEF IInv, Shapes, Arrays, Size
  <2>6. state' \notin DOMAIN ArrayOf /\ typed' \in Seq(Nat \ {0})
    BY <2>2 DEF ArrayOf
  <2> QED BY <2>2, <2>3, <2>4, <2>5, <2>6 DEF EditInv, Arrays, Size, ArrayOf
<1> QED BY <1>1, <1>2, <1>3, <1>4, <1>5 DEF ConsoleNext

-----------------------------------------------------------------------------
(* The invariant holds, and what follows from it.                          *)

\* At the start the flash and the memory hold the same strings of one
\* character, which a restart would not shorten.
LEMMA InitStrings ==
  ASSUME ConsoleInit, NEW a \in Arrays \ {"topic"}
  PROVE  /\ mem[a] = flash[a] /\ saved[a] = flash[a]
         /\ flash[a] \in [1..Size[a] -> {0, 1}]
         /\ Ended(a, flash[a]) = flash[a]
<1>1. saved = flash /\ flash = Configuration(Factory, 1) /\ mem[a] = Factory[a]
  BY DEF ConsoleInit
<1>2. flash[a] = Factory[a]
  BY <1>1, NamesListed DEF Configuration, Names
<1>3. Factory[a] = [i \in 1..Size[a] |->
                      IF \E s \in Strings : s[1] = a /\ i = Start(s) + 1 THEN 1 ELSE 0]
  BY DEF Factory
<1>4. Factory[a] \in [1..Size[a] -> {0, 1}]
  BY <1>3
<1>5. ASSUME NEW s \in Strings, NEW r \in Strings, s[1] = a, r[1] = a
      PROVE  Start(r) + 1 # Start(s) + Place(s)
  <2>1. /\ Start(s) \in Nat /\ Place(s) \in Nat /\ Place(s) >= 2
        /\ s # r => \/ Start(r) + Place(r) <= Start(s)
                    \/ Start(s) + Place(s) <= Start(r)
    BY <1>5, PlacesApart
  <2>2. Start(r) \in Nat /\ Place(r) \in Nat /\ Place(r) >= 2
    BY <1>5, PlacesApart
  <2> QED BY <2>1, <2>2
<1>6. ASSUME NEW i \in 1..Size[a]
      PROVE  (IF \E s \in Strings : s[1] = a /\ i = Start(s) + Place(s) THEN 0
                                                                ELSE Factory[a][i])
               = Factory[a][i]
  BY <1>3, <1>5
<1>7. Ended(a, Factory[a]) = Factory[a]
  <2>1. DOMAIN Factory[a] = 1..Size[a]
    BY <1>3
  <2>2. Ended(a, Factory[a]) = [i \in 1..Size[a] |-> Factory[a][i]]
    BY <1>6, <2>1 DEF Ended
  <2> QED BY <1>4, <2>2
<1> QED BY <1>1, <1>2, <1>4, <1>7

\* A device that was configured before satisfies the rest of the invariant.
LEMMA InitOthers ==
  ASSUME ConsoleInit, IInv
  PROVE  NumberInv /\ ValuesInv /\ SavedInv /\ FreshInv /\ EditInv
<1>1. /\ saved = flash /\ t_sleep = 1 /\ state = "WAIT" /\ num_adresse = 0
      /\ str_number = [i \in 1..MAX_NUMBER |-> 0]
      /\ step = "none" /\ typed = <<>> /\ before = mem /\ edited = <<>>
  BY DEF ConsoleInit
<1>2. flash["t_sleep"] = <<1>>
  BY NamesListed DEF ConsoleInit, Configuration, Names
<1>3. \A a \in Arrays : mem[a][Size[a]] = 0
  BY <1>1 DEF IInv, LastCellInv, AtEnd, ArrayOf
<1>4. {0, 1} \subseteq CellValues
  BY DEF CellValues
<1>5. mem["topic"] = [i \in 1..Size["topic"] |-> 0]
  BY NamesListed DEF ConsoleInit
<1>6. NumberInv
  <2>1. NB_ADRESSE \in Nat \ {0}
    BY ConsoleAssumption
  <2>2. str_number \in [1..MAX_NUMBER -> Nat]
    BY <1>1
  <2> QED BY <1>1, <2>1, <2>2 DEF NumberInv
<1>7. ValuesInv
  <2>1. \A a \in Arrays \ {"topic"} : \A i \in 1..Size[a] :
          /\ flash[a][i] \in CellValues /\ saved[a][i] \in CellValues
          /\ mem[a][i] \in CellValues
    BY <1>4, InitStrings
  <2>2. \A i \in 1..Size["topic"] : mem["topic"][i] \in CellValues
    BY <1>4, <1>5
  <2>3. flash["t_sleep"][1] \in Nat /\ saved["t_sleep"][1] \in Nat
    BY <1>1, <1>2
  <2> QED BY <2>1, <2>2, <2>3 DEF ValuesInv
<1>8. SavedInv
  <2>1. \A a \in Arrays \ {"topic"} : saved[a][Size[a]] = 0
    BY <1>3, InitStrings
  <2> QED BY <1>1, <2>1 DEF SavedInv
<1>9. FreshInv
  <2>1. \A a \in Arrays \ {"topic"} : mem[a] = Ended(a, flash[a])
    BY InitStrings
  <2> QED BY <1>1, <1>2, <2>1 DEF FreshInv
<1>10. EditInv
  <2>1. DOMAIN mem = Arrays
    BY DEF IInv, Shapes
  <2>2. \A a \in Arrays : mem[a] \in [1..Size[a] -> Nat]
    BY <1>7, MemArrays
  <2>3. typed \in Seq(Nat \ {0}) /\ state \notin DOMAIN ArrayOf
    BY <1>1 DEF ArrayOf
  <2> QED BY <1>1, <1>3, <2>1, <2>2, <2>3 DEF EditInv, ArrayOf
<1> QED BY <1>6, <1>7, <1>8, <1>9, <1>10

\* The inductive invariant of the theorems below.
ConsoleInv == IInv /\ NumberInv /\ ValuesInv /\ SavedInv /\ FreshInv /\ EditInv

\* It holds at the start, and every step keeps it.
LEMMA ConsoleInvHolds == ConsoleSpec => []ConsoleInv
<1>1. ConsoleInit => ConsoleInv
  BY InitInv, InitOthers DEF ConsoleInv
<1>2. ConsoleInv /\ [ConsoleNext]_consoleVars => ConsoleInv'
  <2> SUFFICES ASSUME ConsoleInv, [ConsoleNext]_consoleVars PROVE ConsoleInv'
    OBVIOUS
  <2>1. IInv'
    BY NextKeepsInv DEF ConsoleInv
  <2>2. NumberInv'
    BY StepNumbers DEF ConsoleInv
  <2>3. ValuesInv'
    BY <2>1, StepValues DEF ConsoleInv
  <2>4. SavedInv' /\ FreshInv'
    BY <2>1, StepSaved, StepFresh DEF ConsoleInv
  <2>5. EditInv'
    BY <2>1, <2>2, <2>3, StepEdit DEF ConsoleInv
  <2> QED BY <2>1, <2>2, <2>3, <2>4, <2>5 DEF ConsoleInv
<1> QED BY <1>1, <1>2, PTL DEF ConsoleSpec

\* A configuration that save_and_restart wrote whole is found again by
\* user_init, but for what does not fit in its place, whatever the power cut
\* before.
THEOREM RestartFindsWhatWasSaved == ConsoleSpec => []RestartKeeps
<1>1. ConsoleInv => RestartKeeps
  BY RestartFinds DEF ConsoleInv
<1> QED BY <1>1, ConsoleInvHolds, PTL

\* The arrays and records keep their sizes and hold characters, pointeur stays
\* in the range of the string that rx_uart0 edits, and stringToUint returns a
\* number.
THEOREM ConsoleTypeCorrect == ConsoleSpec => []ConsoleTypeOK
<1>1. ConsoleInv => ConsoleTypeOK
  <2> SUFFICES ASSUME ConsoleInv PROVE ConsoleTypeOK
    OBVIOUS
  <2>1. state \in {"WAIT"} \cup DOMAIN LastOf
    BY DEF ConsoleInv, IInv, LastCellInv
  <2>2. /\ state # "WAIT" => pointeur \in 0..LastOf[state]
        /\ num_adresse \in 0..NB_ADRESSE - 1 /\ t_sleep \in Nat
    BY DEF ConsoleInv, NumberInv
  <2>3. Len(str_number) = MAX_NUMBER
    <3>1. MAX_NUMBER \in Nat /\ str_number \in [1..MAX_NUMBER -> Nat]
      BY ConsoleAssumption DEF ConsoleInv, NumberInv
    <3> QED BY <3>1
  <2>4. ASSUME NEW a \in Arrays PROVE mem[a] \in [1..Size[a] -> {0, Erased} \cup Chars \cup {1}]
    <3>1. mem[a] = [i \in 1..Size[a] |-> mem[a][i]]
      BY DEF ConsoleInv, IInv, Shapes, Cells
    <3>2. \A i \in 1..Size[a] : mem[a][i] \in {0, Erased} \cup Chars \cup {1}
      BY DEF ConsoleInv, ValuesInv, CellValues
    <3> QED BY <3>1, <3>2
  <2>5. DOMAIN flash = {Records[i] : i \in DOMAIN Records}
    BY DEF ConsoleInv, IInv, Shapes, Names
  <2>6. ASSUME NEW r \in DOMAIN flash \ {"t_sleep"} PROVE Len(flash[r]) = Size[r]
    <3>1. r \in Names /\ Cell(r) = Size[r] /\ Cells(flash[r], Cell(r))
      BY DEF ConsoleInv, IInv, Shapes, Cell
    <3>2. Cell(r) \in Nat
      BY <3>1, SizesPositive
    <3> QED BY <3>1, <3>2, CellsCounted
  <2>7. step \in {"none", "erase", "restart"} \cup DOMAIN flash
    BY DEF ConsoleInv, IInv, FlashInv, Shapes
  <2> QED BY <2>1, <2>2, <2>3, <2>4, <2>5, <2>6, <2>7 DEF ConsoleTypeOK
<1> QED BY <1>1, ConsoleInvHolds, PTL

\* A string is the same if its characters and its 0 are.
LEMMA SameString ==
  ASSUME NEW s \in Strings, NEW m, NEW w, NEW e,
         m[s[1]] \in [1..Size[s[1]] -> Nat], w[s[1]] \in [1..Size[s[1]] -> Nat],
         EndsAt(w[s[1]], Start(s), Size[s[1]], e),
         \A j \in Start(s) + 1..e : m[s[1]][j] = w[s[1]][j]
  PROVE  StringIn(m, s) = StringIn(w, s)
<1> DEFINE f == w[s[1]]
           g == m[s[1]]
           n == Size[s[1]]
           b == Start(s)
           u == SubSeq(g, b + 1, e - 1)
           v == SubSeq(f, b + 1, e - 1)
<1>1. b \in Nat /\ n \in Nat
  BY PlacesFit, SizesPositive
<1>2. e \in b + 1..n /\ e \in b + 1..n + 1 /\ \A j \in b + 1..e : g[j] = f[j]
  BY <1>1 DEF EndsAt
<1>3. EndsAt(g, b, n, e)
  <2> HIDE DEF f, g, n, b
  <2>1. EndsAt(f, b, n, e)
    BY DEF f, b, n
  <2>2. \A j \in b + 1..e - 1 : j \in b + 1..e
    BY <1>1, <1>2
  <2>3. e \in b + 1..e
    BY <1>1, <1>2
  <2> QED BY <1>2, <2>1, <2>2, <2>3 DEF EndsAt
<1>4. StringIn(m, s) = u /\ StringIn(w, s) = v
  BY <1>3, StringIs
<1>5. f \in [1..n -> Nat] /\ g \in [1..n -> Nat]
  OBVIOUS
<1> HIDE DEF f, g, n, b
<1>6. /\ u \in Seq(Nat) /\ Len(u) = e - 1 - b /\ \A i \in 1..e - 1 - b : u[i] = g[b + i]
      /\ v \in Seq(Nat) /\ Len(v) = e - 1 - b /\ \A i \in 1..e - 1 - b : v[i] = f[b + i]
  BY <1>1, <1>2, <1>5, PartOf
<1> HIDE DEF u, v
<1>7. ASSUME NEW i \in 1..Len(u) PROVE u[i] = v[i]
  <2>1. i \in 1..e - 1 - b /\ b + i \in b + 1..e
    BY <1>1, <1>2, <1>6
  <2> QED BY <1>2, <1>6, <2>1
<1>8. u = v
  BY <1>6, <1>7, SameSequence
<1> QED BY <1>4, <1>8

\* What was typed is what is found, up to the last place.
LEMMA EditedString ==
  ASSUME EditInv, IInv, ValuesInv, state = "WAIT", edited # <<>>
  PROVE  StringIn(mem, edited) = Shortened(typed, LastIn(edited))
<1> DEFINE f == mem[edited[1]]
           n == Size[edited[1]]
           b == Start(edited)
           k == Stored
           u == SubSeq(f, b + 1, (b + k + 1) - 1)
           y == Shortened(typed, LastIn(edited))
<1>1. /\ edited \in Strings /\ typed \in Seq(Nat \ {0})
      /\ b + k < n /\ f[b + k + 1] = 0
      /\ \A i \in 1..k : f[b + i] = typed[i]
  BY DEF EditInv
<1>2. edited[1] \in Arrays /\ b \in Nat /\ n \in Nat
  BY <1>1, PlacesFit, SizesPositive
<1>3. f \in [1..n -> Nat]
  BY <1>2, MemArrays
<1>4. LastIn(edited) \in Nat
  BY <1>1, LastInType
<1>5. Len(typed) \in Nat /\ k \in Nat /\ k <= Len(typed)
      /\ k = IF Len(typed) < LastIn(edited) THEN Len(typed) ELSE LastIn(edited)
  BY <1>1, <1>4 DEF Stored
<1>6. \A i \in 1..k : typed[i] \in Nat \ {0}
  BY <1>1, <1>5
<1> HIDE DEF f, n, b, k
<1>7. EndsAt(f, b, n, b + k + 1)
  <2>1. b + k + 1 \in b + 1..n
    BY <1>1, <1>2, <1>5
  <2>2. ASSUME NEW j \in b + 1..(b + k + 1) - 1 PROVE f[j] # 0
    <3>1. j - b \in 1..k /\ b + (j - b) = j
      BY <1>2, <1>5
    <3> QED BY <1>1, <1>6, <3>1
  <2> QED BY <1>1, <2>1, <2>2 DEF EndsAt
<1>8. StringIn(mem, edited) = u
  BY <1>1, <1>7, StringIs DEF f, b, n
<1>9. u \in Seq(Nat) /\ Len(u) = k /\ \A i \in 1..k : u[i] = f[b + i]
  <2>1. b + k + 1 \in b + 1..n + 1 /\ (b + k + 1) - 1 - b = k
    BY <1>1, <1>2, <1>5
  <2> HIDE DEF u
  <2>2. /\ u \in Seq(Nat) /\ Len(u) = (b + k + 1) - 1 - b
        /\ \A i \in 1..(b + k + 1) - 1 - b : u[i] = f[b + i]
    BY <1>2, <1>3, <2>1, PartOf DEF u
  <2> QED BY <2>1, <2>2
<1> HIDE DEF u
<1>10. y \in Seq(Nat) /\ Len(y) = k /\ \A i \in 1..k : y[i] = typed[i]
  <2>1. typed \in Seq(Nat)
    BY <1>1
  <2> HIDE DEF y
  <2>2. /\ y \in Seq(Nat)
        /\ Len(y) = IF Len(typed) < LastIn(edited) THEN Len(typed) ELSE LastIn(edited)
        /\ \A i \in 1..Len(y) : y[i] = typed[i]
    BY <1>4, <2>1, ShortenedIs DEF y
  <2> QED BY <1>5, <2>2
<1> HIDE DEF y
<1>11. u = y
  BY <1>1, <1>9, <1>10, SameSequence
<1> QED BY <1>8, <1>11 DEF y

\* Another string can only change with an address that does not fit.
LEMMA OtherString ==
  ASSUME EditInv, IInv, ValuesInv, state = "WAIT", edited # <<>>,
         NEW s \in Strings \ {edited}, StringIn(mem, s) # StringIn(before, s)
  PROVE  /\ edited[1] = "adresse" /\ s[1] = "adresse"
         /\ \/ Len(typed) >= MAX_ADRESSE_LENGTH
            \/ Len(StringIn(before, s)) >= MAX_ADRESSE_LENGTH
<1>1. /\ edited \in Strings /\ typed \in Seq(Nat \ {0})
      /\ \A a \in Arrays : before[a] \in [1..Size[a] -> Nat] /\ before[a][Size[a]] = 0
      /\ \A a \in Arrays \ {edited[1]} : mem[a] = before[a]
      /\ \A j \in 1..Size[edited[1]] :
           j <= Start(edited) \/ j > Start(edited) + Stored + 1 =>
             mem[edited[1]][j] = before[edited[1]][j]
  BY DEF EditInv
<1>2. s[1] \in Arrays
  BY PlacesFit
<1>3. s[1] = edited[1]
  <2> SUFFICES ASSUME s[1] # edited[1] PROVE FALSE
    OBVIOUS
  <2>1. mem[s[1]] = before[s[1]]
    BY <1>1, <1>2
  <2> QED BY <2>1 DEF StringIn, Ends
<1>4. edited[1] = "adresse" /\ s[1] = "adresse"
  BY <1>1, <1>3, PlacesApart
<1> SUFFICES ASSUME ~(Len(typed) >= MAX_ADRESSE_LENGTH),
                    ~(Len(StringIn(before, s)) >= MAX_ADRESSE_LENGTH)
             PROVE  FALSE
  BY <1>4
<1> DEFINE L == MAX_ADRESSE_LENGTH
           n == Size[s[1]]
           b == Start(s)
           d == Start(edited)
           f == before[s[1]]
<1>5. L \in Nat /\ Place(s) = L /\ Place(edited) = L
  BY <1>4, ConsoleAssumption DEF Place
<1>6. b \in Nat /\ n \in Nat /\ b < n /\ d \in Nat
  BY <1>1, PlacesFit, SizesPositive
<1>7. d + L <= b \/ b + L <= d
  BY <1>1, <1>3, <1>5, PlacesApart
<1>8. Stored \in Nat /\ Stored < L
  <2>1. Len(typed) \in Nat /\ LastIn(edited) \in Nat /\ Len(typed) < L
    BY <1>1, <1>5, LastInType
  <2> QED BY <1>5, <2>1 DEF Stored
<1>9. f \in [1..n -> Nat] /\ f[n] = 0 /\ mem[s[1]] \in [1..n -> Nat]
  BY <1>1, <1>2, MemArrays
<1> HIDE DEF n, b, d, f, L
<1>10. PICK e \in b + 1..n : EndsAt(f, b, n, e)
  BY <1>6, <1>9, EndExists
<1>11. StringIn(before, s) = SubSeq(f, b + 1, e - 1)
  BY <1>10, StringIs DEF f, b, n
<1>12. e <= b + L
  <2>1. e \in b + 1..n + 1
    BY <1>6
  <2>2. Len(StringIn(before, s)) = e - 1 - b
    BY <1>6, <1>9, <1>11, <2>1, PartOf
  <2>3. e - 1 - b < L
    BY <1>5, <1>6, <2>2 DEF L
  <2> QED BY <1>5, <1>6, <2>3
<1>13. ASSUME NEW j \in b + 1..e PROVE mem[s[1]][j] = f[j]
  <2>1. j \in 1..n
    BY <1>6
  <2>2. j <= d \/ j > d + Stored + 1
    BY <1>5, <1>6, <1>7, <1>8, <1>12
  <2> QED BY <1>1, <1>3, <2>1, <2>2 DEF d, n, f
<1>14. StringIn(mem, s) = StringIn(before, s)
  BY <1>9, <1>10, <1>13, SameString DEF f, b, n
<1> QED BY <1>14

\* What rx_uart0 was given is the string found afterwards, up to its limit, and
\* every other string is as before, unless an address does not fit its place.
THEOREM EditStaysLocal == ConsoleSpec => []EditIsLocal
<1>1. ConsoleInv => EditIsLocal
  <2> SUFFICES ASSUME ConsoleInv, state = "WAIT", edited # <<>>
               PROVE  /\ StringIn(mem, edited) =
                           Shortened(typed, (IF edited[1] = "adresse" THEN MAX_PASSWORD_LENGTH
                                                                      ELSE Size[edited[1]]) - 1)
                      /\ \A s \in Strings \ {edited} :
                           StringIn(mem, s) # StringIn(before, s) =>
                             /\ edited[1] = "adresse" /\ s[1] = "adresse"
                             /\ \/ Len(typed) >= MAX_ADRESSE_LENGTH
                                \/ Len(StringIn(before, s)) >= MAX_ADRESSE_LENGTH
    BY DEF EditIsLocal
  <2>1. LastIn(edited) = (IF edited[1] = "adresse" THEN MAX_PASSWORD_LENGTH
                                                   ELSE Size[edited[1]]) - 1
    BY DEF LastIn
  <2>2. StringIn(mem, edited) = Shortened(typed, LastIn(edited))
    BY EditedString DEF ConsoleInv
  <2>3. ASSUME NEW s \in Strings \ {edited}, StringIn(mem, s) # StringIn(before, s)
        PROVE  /\ edited[1] = "adresse" /\ s[1] = "adresse"
               /\ \/ Len(typed) >= MAX_ADRESSE_LENGTH
                  \/ Len(StringIn(before, s)) >= MAX_ADRESSE_LENGTH
    BY <2>3, OtherString DEF ConsoleInv
  <2> QED BY <2>1, <2>2, <2>3
<1> QED BY <1>1, ConsoleInvHolds, PTL
=============================================================================
