------------------------------ MODULE Console -------------------------------
(***************************************************************************)
(* The configuration of a device: rx_uart0 edits it in memory, character   *)
(* by character, save_and_restart writes it to the flash, user_init reads  *)
(* it back.  rx_uart0 is called by the interrupt of the UART, one          *)
(* character at a time, and save_and_restart by rx_uart0, with interrupts  *)
(* locked: only a loss of power comes between its steps.                   *)
(*                                                                         *)
(* The arrays hold characters, and 0 ends a string.                        *)
(***************************************************************************)
EXTENDS Integers, Sequences

CONSTANTS
  MAX_SSID_LENGTH, MAX_PASSWORD_LENGTH, MAX_ADRESSE_LENGTH,
  MAX_LENGTH_STATION_NAME, MAX_TOPIC_LENGTH,
  NB_ADRESSE,       \* addresses: IP, mask, gateway, MQTT server
  MAX_NUMBER,       \* size of str_number
  Chars,            \* characters that are typed; 1 to 9 are the digits
  Erased,           \* what an erased cell of the flash reads
  MaxKeys, MaxLosses   \* bounds: characters, losses of power

\* A string that is saved has room for a character and the 0.
ASSUME ConsoleAssumption ==
  /\ {MAX_SSID_LENGTH, MAX_PASSWORD_LENGTH, MAX_ADRESSE_LENGTH,
      MAX_LENGTH_STATION_NAME} \subseteq Nat \ {0, 1}
  /\ {MAX_TOPIC_LENGTH, MAX_NUMBER, NB_ADRESSE} \subseteq Nat \ {0}
  /\ Chars \subseteq Nat \ {0} /\ Erased \in Nat \ {0}
  /\ {MaxKeys, MaxLosses} \subseteq Nat

VARIABLES
  \* rx_uart0
  state, pointeur, num_adresse, str_number,
  \* the configuration in memory
  mem,              \* the arrays of characters
  t_sleep,
  subscribed,       \* the topic MQTT_Subscribe was last called with
  \* the flash, and the step of save_and_restart
  flash, step,
  keys, losses,
  \* history
  typed, before,    \* of the last edit: what was typed, and mem at its start
  edited,           \* and the string it is about
  saved,            \* the configuration save_and_restart last began to write
  fresh             \* nothing was typed since user_init

uart == <<state, pointeur, num_adresse, str_number>>
config == <<mem, t_sleep, subscribed>>
edit == <<typed, before, edited>>
consoleVars == <<uart, config, flash, step, keys, losses, edit, saved, fresh>>

Size == [ssid |-> MAX_SSID_LENGTH, password |-> MAX_PASSWORD_LENGTH,
         adresse |-> MAX_ADRESSE_LENGTH * NB_ADRESSE,
         StationName |-> MAX_LENGTH_STATION_NAME, topic |-> MAX_TOPIC_LENGTH]
Arrays == DOMAIN Size

\* The strings: where each starts in its array, and how long its place is.
Strings == {<<a, 0>> : a \in Arrays} \cup {<<"adresse", n>> : n \in 0..NB_ADRESSE - 1}

Start(s) == s[2] * MAX_ADRESSE_LENGTH
Place(s) == IF s[1] = "adresse" THEN MAX_ADRESSE_LENGTH ELSE Size[s[1]]

\* The characters from the start of s to the 0 that ends it.
Ends(m, s) == {i \in Start(s) + 1..Size[s[1]] : m[s[1]][i] = 0}
StringIn(m, s) ==
  LET end == CHOOSE i \in Ends(m, s) : \A j \in Ends(m, s) : i <= j
  IN  SubSeq(m[s[1]], Start(s) + 1, end - 1)
Shortened(string, n) == SubSeq(string, 1, IF Len(string) < n THEN Len(string) ELSE n)

-----------------------------------------------------------------------------
(* rx_uart0.                                                               *)

\* The states in which a string is typed, with the array it goes to.
ArrayOf == [CONFIG_SSID |-> "ssid", CONFIG_PASSWORD |-> "password",
            CONFIG_ADDRESSE |-> "adresse", CONFIG_NAME |-> "StationName",
            CONFIG_TOPIC |-> "topic"]
Target == <<ArrayOf[state], IF state = "CONFIG_ADDRESSE" THEN num_adresse ELSE 0>>

\* The last place pointeur goes to.  That of the addresses is the password's.
LastOf == [CONFIG_SSID |-> MAX_SSID_LENGTH - 1,
           CONFIG_PASSWORD |-> MAX_PASSWORD_LENGTH - 1,
           CONFIG_ADDRESSE |-> MAX_PASSWORD_LENGTH - 1,
           CONFIG_NAME |-> MAX_LENGTH_STATION_NAME - 1,
           CONFIG_TOPIC |-> MAX_TOPIC_LENGTH - 1,
           CONFIG_T_SLEEP |-> MAX_NUMBER - 1]

Key == keys < MaxKeys /\ step = "none" /\ keys' = keys + 1 /\ fresh' = FALSE

Untouched == UNCHANGED <<flash, losses, saved>>

\* Faulty: the edit goes on where the last one ended.
BeginsBehind(to, n) ==
  /\ state' = to /\ num_adresse' = n /\ UNCHANGED pointeur

\* A letter selects what is edited.
Begins(to, n) ==
  /\ state' = to /\ num_adresse' = n /\ pointeur' = 0

Letter ==
  /\ Key /\ state = "WAIT"
  /\ \E to \in DOMAIN LastOf :
       \E n \in IF to = "CONFIG_ADDRESSE" THEN 0..NB_ADRESSE - 1 ELSE {num_adresse} :
         /\ Begins(to, n)
         /\ edited' = IF to = "CONFIG_T_SLEEP" THEN <<>>
                      ELSE <<ArrayOf[to], IF to = "CONFIG_ADDRESSE" THEN n ELSE 0>>
  /\ typed' = <<>> /\ before' = mem
  /\ UNCHANGED <<str_number, config, step>> /\ Untouched

\* Writing past the end of the addresses is undefined in C: the keys that do
\* so are left out.
InArray == state # "CONFIG_T_SLEEP" =>
             Start(Target) + pointeur < Size[ArrayOf[state]]

Put(c) ==
  IF state = "CONFIG_T_SLEEP"
  THEN str_number' = [str_number EXCEPT ![pointeur + 1] = c] /\ UNCHANGED mem
  ELSE /\ mem' = [mem EXCEPT ![ArrayOf[state]][Start(Target) + pointeur + 1] = c]
       /\ UNCHANGED str_number

\* Faulty: the last place is a character's too.
AdvanceToEnd == IF pointeur <= LastOf[state] THEN pointeur + 1 ELSE pointeur

\* At the last place, the next character takes the place of this one.
Advance == IF pointeur < LastOf[state] THEN pointeur + 1 ELSE pointeur

\* A character of the string.
Character(c) ==
  /\ Key /\ state # "WAIT" /\ InArray
  /\ Put(c)
  /\ pointeur' = Advance
  /\ typed' = Append(typed, c)
  /\ UNCHANGED <<state, num_adresse, t_sleep, subscribed, step, before, edited>>
  /\ Untouched

\* stringToUint: nine digits at most, they fit in 32 bits.
IsDigit(c) == c \in 0..9 /\ c # 0
stringToUint(string) ==
  LET digits == CHOOSE n \in 0..Len(string) :
                  /\ \A i \in 1..n : IsDigit(string[i])
                  /\ n = Len(string) \/ ~IsDigit(string[n + 1])
      value[n \in 0..digits] == IF n = 0 THEN 0 ELSE 10 * value[n - 1] + string[n]
  IN  value[digits]

\* The end of the line ends the string.
EndOfLine ==
  /\ Key /\ state # "WAIT" /\ InArray
  /\ Put(0)
  /\ t_sleep' = IF state = "CONFIG_T_SLEEP" THEN stringToUint(str_number') ELSE t_sleep
  /\ subscribed' = IF state = "CONFIG_TOPIC" THEN StringIn(mem', <<"topic", 0>>)
                                             ELSE subscribed
  /\ state' = "WAIT"
  /\ UNCHANGED <<pointeur, num_adresse, step, edit>> /\ Untouched

-----------------------------------------------------------------------------
(* The flash.                                                              *)

Records == <<"ssid", "password", "adresse", "StationName", "t_sleep">>
Configuration(m, t) == [r \in {Records[i] : i \in DOMAIN Records} |->
                          IF r = "t_sleep" THEN <<t>> ELSE m[r]]
Blank == [r \in DOMAIN flash |-> [i \in DOMAIN flash[r] |-> Erased]]

\* 'c': save_and_restart begins.
Save ==
  /\ Key /\ state = "WAIT"
  /\ step' = "erase"
  /\ UNCHANGED <<uart, config, edit>> /\ Untouched

\* Faulty: the sector is written as it is.
EraseNothing == flash' = flash

Erase == flash' = Blank

SectorErased ==
  /\ step = "erase" /\ Erase /\ step' = "ssid"
  /\ saved' = Configuration(mem, t_sleep)
  /\ UNCHANGED <<uart, config, keys, losses, edit, fresh>>

Following(r) == LET i == CHOOSE i \in DOMAIN Records : Records[i] = r
                IN  IF i = Len(Records) THEN "restart" ELSE Records[i + 1]

\* The first n cells of a record are written.
Written(r, n) == flash' = [flash EXCEPT ![r] =
                   [i \in DOMAIN @ |-> IF i <= n THEN Configuration(mem, t_sleep)[r][i] ELSE @[i]]]

RecordWritten ==
  /\ step \in DOMAIN flash
  /\ Written(step, Len(flash[step]))
  /\ step' = Following(step)
  /\ UNCHANGED <<uart, config, keys, losses, edit, saved, fresh>>

\* Faulty: what is read is taken as it is.
EndedNothing(r, f) == f

\* Faulty: every string is ended where an address would.
EndedAsAddress(r, f) == [i \in DOMAIN f |-> IF i % MAX_ADRESSE_LENGTH = 0 THEN 0 ELSE f[i]]

\* The last character of each string that is read is overwritten.
Ended(r, f) == [i \in DOMAIN f |->
                  IF \E s \in Strings : s[1] = r /\ i = Start(s) + Place(s) THEN 0
                                                                            ELSE f[i]]

\* user_init, on what the flash then holds.
user_init(f) ==
  /\ mem' = [a \in Arrays |-> IF a = "topic" THEN [i \in 1..Size[a] |-> 0]
                                             ELSE Ended(a, f[a])]
  /\ t_sleep' = f["t_sleep"][1]
  /\ state' = "WAIT" /\ pointeur' = 0 /\ num_adresse' = 0
  /\ str_number' = [i \in 1..MAX_NUMBER |-> 0] /\ subscribed' = <<>>
  /\ step' = "none" /\ fresh' = TRUE
  /\ typed' = <<>> /\ before' = mem' /\ edited' = <<>>

Restart == /\ step = "restart" /\ user_init(flash)
           /\ UNCHANGED <<flash, keys, losses, saved>>

\* The power fails, maybe in the middle of a record.
PowerLoss ==
  /\ losses < MaxLosses /\ losses' = losses + 1
  /\ IF step \in DOMAIN flash
     THEN \E n \in 0..Len(flash[step]) : Written(step, n)
     ELSE UNCHANGED flash
  /\ user_init(flash')
  /\ UNCHANGED <<keys, saved>>

-----------------------------------------------------------------------------
\* A device that was configured before, all strings of one character.
Factory == [a \in Arrays \ {"topic"} |->
              [i \in 1..Size[a] |->
                 IF \E s \in Strings : s[1] = a /\ i = Start(s) + 1 THEN 1 ELSE 0]]

ConsoleInit ==
  /\ flash = Configuration(Factory, 1) /\ saved = flash
  /\ mem = [a \in Arrays |-> IF a = "topic" THEN [i \in 1..Size[a] |-> 0] ELSE Factory[a]]
  /\ t_sleep = 1 /\ subscribed = <<>>
  /\ state = "WAIT" /\ pointeur = 0 /\ num_adresse = 0
  /\ str_number = [i \in 1..MAX_NUMBER |-> 0]
  /\ step = "none" /\ keys = 0 /\ losses = 0 /\ fresh = TRUE
  /\ typed = <<>> /\ before = mem /\ edited = <<>>

ConsoleNext ==
  \/ Letter \/ EndOfLine \/ Save \/ SectorErased \/ RecordWritten \/ Restart
  \/ PowerLoss
  \/ \E c \in Chars : Character(c)

ConsoleSpec == ConsoleInit /\ [][ConsoleNext]_consoleVars

-----------------------------------------------------------------------------
(* Properties.                                                             *)

\* The arrays keep their length, the flash its records, and pointeur stays in
\* the array it points into.
ConsoleTypeOK ==
  /\ state \in {"WAIT"} \cup DOMAIN LastOf
  /\ state # "WAIT" => pointeur \in 0..LastOf[state]
  /\ num_adresse \in 0..NB_ADRESSE - 1
  /\ Len(str_number) = MAX_NUMBER
  /\ \A a \in Arrays : mem[a] \in [1..Size[a] -> {0, Erased} \cup Chars \cup {1}]
  /\ DOMAIN flash = {Records[i] : i \in DOMAIN Records}
  /\ \A r \in DOMAIN flash \ {"t_sleep"} : Len(flash[r]) = Size[r]
  /\ t_sleep \in Nat
  /\ step \in {"none", "erase", "restart"} \cup DOMAIN flash

\* Whatever was typed, saved, or torn by a loss of power, the string functions
\* find the end of every string in its own array; only the one that is being
\* typed, or the addresses behind it, can be without.
StringsEnd ==
  \A s \in Strings : Ends(mem, s) # {} \/ (state # "WAIT" /\ Target[1] = s[1])

\* What is typed is stored, up to the size of its array, and nothing else is
\* changed, unless there is an address that does not fit in its place.
EditIsLocal ==
  state = "WAIT" /\ edited # <<>> =>
    /\ StringIn(mem, edited) =
         Shortened(typed, (IF edited[1] = "adresse" THEN MAX_PASSWORD_LENGTH
                                                    ELSE Size[edited[1]]) - 1)
    /\ \A s \in Strings \ {edited} :
         StringIn(mem, s) # StringIn(before, s) =>
           /\ edited[1] = "adresse" /\ s[1] = "adresse"
           /\ \/ Len(typed) >= MAX_ADRESSE_LENGTH
              \/ Len(StringIn(before, s)) >= MAX_ADRESSE_LENGTH

\* The flash never mixes two configurations: it holds the last one
\* that save_and_restart began to write, or the beginning of it and nothing.
NeverMixed ==
  \/ flash = saved
  \/ \E k \in DOMAIN Records : \E n \in 0..Len(saved[Records[k]]) :
       \A j \in DOMAIN Records : \A i \in DOMAIN flash[Records[j]] :
         flash[Records[j]][i] =
           IF j < k \/ (j = k /\ i <= n) THEN saved[Records[j]][i] ELSE Erased

\* A configuration that was saved whole is found again: a restart changes no
\* string that fits in its place.
RestartKeeps ==
  fresh /\ flash = saved =>
    /\ <<t_sleep>> = saved["t_sleep"]
    /\ \A s \in Strings : s[1] # "topic" =>
         StringIn(mem, s) = Shortened(StringIn(saved, s), Place(s) - 1)
=============================================================================
