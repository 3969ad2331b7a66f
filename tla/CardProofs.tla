------------------------------ MODULE CardProofs ------------------------------
(***************************************************************************)
(* Proofs about the cards of the web user interface, each of them alone    *)
(* (MCWeb says why that is enough), for any number of operations and any   *)
(* values of their constants.                                              *)
(***************************************************************************)
EXTENDS Board, VelocityEditor, MidiDebugger, SynthForm, MacroSlots, DeviceSettings,
        MidiProbe, FiniteSetTheorems, SequenceTheorems, WellFoundedInduction, TLAPS

----------------------------------------------------------------------------
(* Queues of events.                                                       *)

IsSeq(s) == s \in Seq({s[k] : k \in DOMAIN s})

LEMMA OwnElements ==
    ASSUME NEW S, NEW s \in Seq(S)
    PROVE  IsSeq(s)
<1>1. s \in [1 .. Len(s) -> S] /\ Len(s) \in Nat /\ DOMAIN s = 1 .. Len(s)
  BY LenProperties
<1>2. s \in [1 .. Len(s) -> {s[k] : k \in DOMAIN s}]
  BY <1>1
<1> QED
  BY <1>1, <1>2, SeqDef DEF IsSeq

\* The rest of a list, an element behind it, and one before it.
LEMMA RestOfSeq ==
    ASSUME NEW s, IsSeq(s), s # <<>>
    PROVE  /\ IsSeq(Tail(s)) /\ Head(s) = s[1] /\ 1 \in DOMAIN s
           /\ DOMAIN Tail(s) = 1 .. Len(s) - 1 /\ Len(Tail(s)) = Len(s) - 1
           /\ \A k \in DOMAIN Tail(s) : k + 1 \in DOMAIN s /\ Tail(s)[k] = s[k + 1]
<1> DEFINE S == {s[k] : k \in DOMAIN s}
<1>1. s \in Seq(S)
  BY DEF IsSeq
<1> HIDE DEF S
<1>2. Tail(s) \in Seq(S) /\ Head(s) = s[1] /\ Len(Tail(s)) = Len(s) - 1
      /\ \A k \in 1 .. Len(Tail(s)) : Tail(s)[k] = s[k + 1]
  BY <1>1, HeadTailProperties
<1>3. Len(s) \in Nat /\ DOMAIN s = 1 .. Len(s) /\ DOMAIN Tail(s) = 1 .. Len(Tail(s))
  BY <1>1, <1>2, LenProperties
<1>4. Len(s) # 0
  BY <1>1, EmptySeq
<1>5. IsSeq(Tail(s))
  BY <1>2, OwnElements
<1>6. \A k \in DOMAIN Tail(s) : k + 1 \in DOMAIN s
  BY <1>2, <1>3
<1> QED
  BY <1>2, <1>3, <1>4, <1>5, <1>6

LEMMA SeqAndLast ==
    ASSUME NEW s, IsSeq(s), NEW e
    PROVE  /\ IsSeq(Append(s, e)) /\ Len(Append(s, e)) = Len(s) + 1
           /\ DOMAIN Append(s, e) = 1 .. Len(s) + 1
           /\ Append(s, e)[Len(s) + 1] = e
           /\ \A k \in DOMAIN s : Append(s, e)[k] = s[k]
<1> DEFINE S == {s[k] : k \in DOMAIN s} \cup {e}
<1>1. s \in Seq(S)
  BY SeqMonotonic DEF IsSeq
<1> HIDE DEF S
<1>2. e \in S
  BY DEF S
<1>3. Append(s, e) \in Seq(S) /\ Len(Append(s, e)) = Len(s) + 1
      /\ (\A k \in 1 .. Len(s) : Append(s, e)[k] = s[k]) /\ Append(s, e)[Len(s) + 1] = e
  BY <1>1, <1>2, AppendProperties
<1>4. IsSeq(Append(s, e))
  BY <1>3, OwnElements
<1>5. DOMAIN s = 1 .. Len(s) /\ DOMAIN Append(s, e) = 1 .. Len(s) + 1
  BY <1>1, <1>3, LenProperties
<1> QED
  BY <1>3, <1>4, <1>5

\* The last element of a queue, if it has any.
LastIs(q, x) == q # <<>> => q[Len(q)] = x

LEMMA NoneQueued == IsSeq(<<>>) /\ \A x : LastIs(<<>>, x)
  BY DEF IsSeq, LastIs

LEMMA LastQueued ==
    ASSUME NEW q, IsSeq(q), NEW e
    PROVE  /\ IsSeq(Append(q, e)) /\ Append(q, e) # <<>>
           /\ LastIs(Append(q, e), e)
<1>1. Len(q) \in Nat
  BY LenProperties DEF IsSeq
<1>2. /\ IsSeq(Append(q, e)) /\ Len(Append(q, e)) = Len(q) + 1
      /\ Append(q, e)[Len(q) + 1] = e
  BY SeqAndLast
<1>3. Append(q, e) # <<>>
  BY <1>1, <1>2
<1> QED
  BY <1>2, <1>3 DEF LastIs

LEMMA LastStays ==
    ASSUME NEW q, IsSeq(q), q # <<>>, NEW x, LastIs(q, x)
    PROVE  /\ IsSeq(Tail(q)) /\ LastIs(Tail(q), x)
           /\ Tail(q) = <<>> => Head(q) = x
<1>1. /\ IsSeq(Tail(q)) /\ Head(q) = q[1] /\ Len(Tail(q)) = Len(q) - 1
      /\ \A k \in DOMAIN Tail(q) : Tail(q)[k] = q[k + 1]
      /\ DOMAIN Tail(q) = 1 .. Len(q) - 1
  BY RestOfSeq
<1>2. Len(q) \in Nat /\ q[Len(q)] = x
  BY LenProperties DEF IsSeq, LastIs
<1>3. Tail(q) = <<>> => Len(q) = 1
  BY <1>1, <1>2
<1>4. Tail(q) # <<>> => Len(Tail(q)) \in DOMAIN Tail(q)
  <2>1. Tail(q) # <<>> => Len(Tail(q)) # 0
    BY <1>1, EmptySeq DEF IsSeq
  <2> QED
    BY <1>1, <1>2, <2>1
<1>5. Tail(q) # <<>> => Tail(q)[Len(Tail(q))] = x
  BY <1>1, <1>2, <1>4
<1> QED
  BY <1>1, <1>2, <1>3, <1>5 DEF LastIs

----------------------------------------------------------------------------
(* MIDI devices and config (DeviceSettings).                               *)

IsText(t) == t = Config(t.list, t.managed, t.rest)
CarriesList(call) == call.kind \in {"put", "devices"}
CarriesText(call) == call.kind \in {"save", "config"}

\* The types the arguments need: what config.toml and its copies are, and that
\* lists are drawn from the entries.
SettingsTypes ==
    /\ IsText(config) /\ IsText(text)
    /\ \A call \in calls : CarriesText(call) => IsText(call.text)

LEMMA NoTextType == IsText(NoText)
  BY DEF NoText, IsText, Config

LEMMA TypesInitially == SettingsInit => SettingsTypes
<1> SUFFICES ASSUME SettingsInit PROVE SettingsTypes
  OBVIOUS
<1>1. IsText(config)
  BY DEF SettingsInit, IsText, Config
<1>2. IsText(text)
  BY NoTextType DEF SettingsInit
<1>3. \A call \in calls : ~CarriesText(call)
  BY DEF SettingsInit, GetDevices, Call, CarriesText
<1> QED
  BY <1>1, <1>2, <1>3 DEF SettingsTypes

\* The calls a step adds, by what they carry.
LEMMA TypesKept == SettingsTypes /\ [SettingsNext]_settingsVars => SettingsTypes'
<1> SUFFICES ASSUME SettingsTypes, [SettingsNext]_settingsVars PROVE SettingsTypes'
  OBVIOUS
<1> USE DEF SettingsTypes
<1>1. CASE \E pluggedIn \in Plugged \ {ports} : Replug(pluggedIn)
  BY <1>1 DEF Replug, cards
<1>2. CASE \E port \in devices : Toggle(port)
  BY <1>2 DEF Toggle
<1>3. CASE RefreshDevices
  BY <1>3 DEF RefreshDevices, Ask, cards, GetDevices, Call, CarriesText
<1>4. CASE \E save \in BOOLEAN : Apply(save)
  BY <1>4 DEF Apply, Ask, cards, Call, CarriesText
<1>5. CASE LoadConfig
  BY <1>5 DEF LoadConfig, Ask, cards, Call, CarriesText
<1>6. CASE SaveConfig
  BY <1>6 DEF SaveConfig, Ask, cards
<1>7. CASE \E list, managed, rest : EditConfig(list, managed, rest)
  BY <1>7 DEF EditConfig, IsText, Config
<1>8. CASE \E call \in calls : AnswerDevices(call)
  BY <1>8 DEF AnswerDevices, Took, cards, CarriesText
<1>9. CASE \E call \in calls : ApplyList(call)
  BY <1>9 DEF ApplyList, Took, cards, CarriesText
<1>10. CASE \E call \in calls : SaveList(call)
  <2> PICK call \in calls : SaveList(call)
    BY <1>10
  <2>1. IsText(config')
    BY DEF SaveList, IsText, Config
  <2> QED
    BY <2>1 DEF SaveList, Took, cards, CarriesText
<1>11. CASE \E call \in calls : AnswerLoad(call)
  BY <1>11 DEF AnswerLoad, Took, cards, CarriesText
<1>12. CASE \E call \in calls : SaveText(call)
  BY <1>12 DEF SaveText, Took, cards, CarriesText
<1>13. CASE \E call \in calls : HearDevices(call)
  BY <1>13 DEF HearDevices, Took, CarriesText
<1>14. CASE \E call \in calls : HearDone(call)
  BY <1>14 DEF HearDone, Took, cards, GetDevices, Call, CarriesText
<1>15. CASE \E call \in calls : HearConfig(call)
  BY <1>15 DEF HearConfig, Took, CarriesText
<1>16. CASE \E call \in calls : CallLost(call)
  BY <1>16 DEF CallLost, Took, cards
<1>17. CASE \E list \in puts : SetAllow(list)
  BY <1>17 DEF SetAllow, cards, CarriesText
<1>18. CASE Restart
  BY <1>18 DEF Restart, cards
<1>19. CASE UNCHANGED settingsVars
  BY <1>19 DEF settingsVars, cards
<1> QED
  BY <1>1, <1>2, <1>3, <1>4, <1>5, <1>6, <1>7, <1>8, <1>9, <1>10, <1>11, <1>12, <1>13, <1>14,
     <1>15, <1>16, <1>17, <1>18, <1>19 DEF SettingsNext

\* config.toml and every text and list that travels are well formed
\* (mididevices.go:67-105, ConfigCard.tsx).
THEOREM TypeCorrect == SettingsSpec => []SettingsTypes
  BY TypesInitially, TypesKept, PTL DEF SettingsSpec

----------------------------------------------------------------------------
(***************************************************************************)
(* LiveIsSaved: between the file and the live list there is nothing but    *)
(* the one save that wrote the file last.                                  *)
(***************************************************************************)
SaveUnderWay ==
    ~sessionOnly => \/ puts = {} /\ allowed = config.list
                    \/ puts = {config.list}

LEMMA SaveKept ==
    SettingsTypes /\ SaveUnderWay /\ [SettingsNext]_settingsVars => SaveUnderWay'
<1> SUFFICES ASSUME SettingsTypes, SaveUnderWay, [SettingsNext]_settingsVars
             PROVE  SaveUnderWay'
  OBVIOUS
<1> USE DEF SaveUnderWay
<1>1. CASE \E call \in calls : ApplyList(call)
  BY <1>1 DEF ApplyList
<1>2. CASE \E call \in calls : SaveList(call)
  <2> PICK call \in calls : SaveList(call)
    BY <1>2
  <2>1. CASE config.managed
    <3>1. config'.list = call.list
      BY <2>1 DEF SaveList, SettingsTypes, IsText, Config
    <3>2. ~sessionOnly' => puts' = {call.list}
      BY <2>1 DEF SaveList
    <3> QED
      BY <3>1, <3>2
  <2>2. CASE ~config.managed
    BY <2>2 DEF SaveList
  <2> QED
    BY <2>1, <2>2
<1>3. CASE \E list \in puts : SetAllow(list)
  BY <1>3 DEF SetAllow, settingsGhosts
<1>4. CASE \E call \in calls : SaveText(call)
  BY <1>4 DEF SaveText
<1>5. CASE Restart
  BY <1>5 DEF Restart
<1>6. CASE UNCHANGED <<puts, allowed, config, sessionOnly>>
  BY <1>6
<1>7. CASE UNCHANGED settingsVars
  BY <1>6, <1>7 DEF settingsVars, settingsGhosts
<1>8. ASSUME SettingsNext,
             ~ \E call \in calls : ApplyList(call) \/ SaveList(call) \/ SaveText(call),
             ~ \E list \in puts : SetAllow(list),
             ~ Restart
      PROVE  UNCHANGED <<puts, allowed, config, sessionOnly>>
  <2>1. ASSUME NEW pluggedIn, Replug(pluggedIn) PROVE UNCHANGED <<puts, allowed, config, sessionOnly>>
    BY <2>1 DEF Replug, settingsGhosts
  <2>2. ASSUME NEW port, Toggle(port) PROVE UNCHANGED <<puts, allowed, config, sessionOnly>>
    BY <2>2 DEF Toggle
  <2>3. ASSUME NEW call, Ask(call) PROVE UNCHANGED <<puts, allowed, config, sessionOnly>>
    BY <2>3 DEF Ask
  <2>4. ASSUME NEW list, NEW managed, NEW rest, EditConfig(list, managed, rest)
        PROVE  UNCHANGED <<puts, allowed, config, sessionOnly>>
    BY <2>4 DEF EditConfig
  <2>5. ASSUME NEW call, AnswerDevices(call) \/ AnswerLoad(call) \/ CallLost(call)
        PROVE  UNCHANGED <<puts, allowed, config, sessionOnly>>
    BY <2>5 DEF AnswerDevices, AnswerLoad, CallLost, settingsGhosts
  <2>6. ASSUME NEW call, HearDevices(call) \/ HearDone(call) \/ HearConfig(call)
        PROVE  UNCHANGED <<puts, allowed, config, sessionOnly>>
    BY <2>6 DEF HearDevices, HearDone, HearConfig, settingsGhosts
  <2> QED
    BY <1>8, <2>1, <2>2, <2>3, <2>4, <2>5, <2>6
       DEF SettingsNext, RefreshDevices, Apply, LoadConfig, SaveConfig
<1> QED
  BY <1>1, <1>2, <1>3, <1>4, <1>5, <1>6, <1>7, <1>8

\* When no save is half done the live list is the file's, unless an apply for
\* the session, a text for the next start or two crossing saves parted them
\* (mididevices.go:67-105).
THEOREM SavedIsLive == SettingsSpec => []LiveIsSaved
<1>1. SettingsInit => SaveUnderWay
  BY DEF SettingsInit, SaveUnderWay, Config
<1>2. SaveUnderWay => LiveIsSaved
  BY DEF SaveUnderWay, LiveIsSaved
<1> QED
  BY <1>1, <1>2, TypeCorrect, SaveKept, PTL DEF SettingsSpec

----------------------------------------------------------------------------
(***************************************************************************)
(* NothingSlips: every copy of the list keeps what was there at the start, *)
(* but for what the user took the tick from or struck out: the live one,   *)
(* the file's, the cards', and those on their way. A text that was never   *)
(* loaded keeps nothing; what it lacks is struck out as it is saved.       *)
(***************************************************************************)
Keeps(list, there, off, out) ==
    \A e \in there \ list : e \in out \/ \E port \in off : allowMatches(e, port)

CopiesKeep ==
    /\ Keeps(allowed, onceThere, unticked, struck)
    /\ Keeps(config.list, onceThere, unticked, struck)
    /\ \A list \in puts : Keeps(list, onceThere, unticked, struck)
    /\ answered => Keeps(allow, onceThere, unticked, struck)
    /\ loaded => Keeps(text.list, onceThere, unticked, struck)
    /\ \A call \in calls :
          /\ CarriesList(call) => Keeps(call.list, onceThere, unticked, struck)
          /\ CarriesText(call) => Keeps(call.text.list, onceThere, unticked, struck)

LEMMA CopiesKeepInitially == SettingsInit => CopiesKeep
  BY DEF SettingsInit, CopiesKeep, Keeps, Config, GetDevices, Call, CarriesList, CarriesText

\* A list that keeps does so when more ticks are taken away, or more struck out.
LEMMA KeepsStays ==
    ASSUME NEW there, NEW off, NEW offLater, off \subseteq offLater,
           NEW out, NEW outLater, out \subseteq outLater
    PROVE  \A list : Keeps(list, there, off, out) => Keeps(list, there, offLater, outLater)
  BY DEF Keeps

\* A tick given adds an entry; one taken drops the entries of that port.
LEMMA ToggleKeeps ==
    ASSUME CopiesKeep, NEW port, Toggle(port)
    PROVE  CopiesKeep'
<1>1. unticked \subseteq unticked' /\ onceThere' = onceThere /\ struck' = struck
  BY DEF Toggle
<1>2. Keeps(allow', onceThere, unticked', struck')
  <2>1. Keeps(allow, onceThere, unticked, struck)
    BY DEF CopiesKeep, Toggle
  <2>2. CASE Selected(allow, port)
    <3>1. allow' = {e \in allow : ~allowMatches(e, port)} /\ port \in unticked'
      BY <2>2 DEF Toggle
    <3> QED
      BY <1>1, <2>1, <3>1 DEF Keeps
  <2>3. CASE ~Selected(allow, port)
    BY <1>1, <2>1, <2>3 DEF Toggle, Keeps
  <2> QED
    BY <2>2, <2>3
<1>3. \A list : Keeps(list, onceThere, unticked, struck) => Keeps(list, onceThere, unticked', struck')
  BY <1>1, KeepsStays
<1>4. UNCHANGED <<allowed, config, puts, text, loaded, calls>>
  BY DEF Toggle
<1>5. /\ Keeps(allowed, onceThere, unticked', struck') /\ Keeps(config.list, onceThere, unticked', struck')
      /\ \A list \in puts : Keeps(list, onceThere, unticked', struck')
      /\ loaded => Keeps(text.list, onceThere, unticked', struck')
      /\ \A call \in calls :
            /\ CarriesList(call) => Keeps(call.list, onceThere, unticked', struck')
            /\ CarriesText(call) => Keeps(call.text.list, onceThere, unticked', struck')
  BY <1>3 DEF CopiesKeep
<1> QED
  BY <1>1, <1>2, <1>4, <1>5 DEF CopiesKeep

\* A hand edit strikes out what it takes.
LEMMA EditKeeps ==
    ASSUME CopiesKeep, NEW list, NEW managed, NEW rest, EditConfig(list, managed, rest)
    PROVE  CopiesKeep'
<1>1. /\ struck' = struck \cup (text.list \ list) /\ text'.list = list
      /\ UNCHANGED <<onceThere, unticked, allowed, config, puts, calls, answered, allow, loaded>>
  BY DEF EditConfig, Config
<1>2. \A l : Keeps(l, onceThere, unticked, struck) => Keeps(l, onceThere, unticked, struck')
  BY <1>1, KeepsStays
<1>3. loaded => Keeps(list, onceThere, unticked, struck')
  BY <1>1 DEF CopiesKeep, Keeps
<1> QED
  BY <1>1, <1>2, <1>3 DEF CopiesKeep

\* A save strikes out what a text lacks that was never loaded.
LEMMA SaveKeeps ==
    ASSUME CopiesKeep, SaveConfig
    PROVE  CopiesKeep'
<1>1. /\ struck' = IF loaded THEN struck ELSE struck \cup (onceThere \ text.list)
      /\ calls' = calls \cup {[kind |-> "save", text |-> text]}
      /\ UNCHANGED <<onceThere, unticked, allowed, config, puts, answered, allow, text, loaded>>
  BY DEF SaveConfig, Ask, cards
<1>2. \A l : Keeps(l, onceThere, unticked, struck) => Keeps(l, onceThere, unticked, struck')
  BY <1>1, KeepsStays
<1>3. Keeps(text.list, onceThere, unticked, struck')
  BY <1>1, <1>2 DEF CopiesKeep, Keeps
<1>4. \A call \in calls' : /\ CarriesList(call) => Keeps(call.list, onceThere, unticked, struck')
                           /\ CarriesText(call) => Keeps(call.text.list, onceThere, unticked, struck')
  BY <1>1, <1>2, <1>3 DEF CopiesKeep, CarriesList
<1> QED
  BY <1>1, <1>2, <1>3, <1>4 DEF CopiesKeep

LEMMA CopiesKeepKept ==
    SettingsTypes /\ CopiesKeep /\ [SettingsNext]_settingsVars => CopiesKeep'
<1> SUFFICES ASSUME SettingsTypes, CopiesKeep, [SettingsNext]_settingsVars
             PROVE  CopiesKeep'
  OBVIOUS
<1> DEFINE K(list) == Keeps(list, onceThere, unticked, struck)
<1>1. ASSUME onceThere' = onceThere, unticked' = unticked, struck' = struck,
             K(allowed'), K(config'.list), \A list \in puts' : K(list),
             answered' => K(allow'), loaded' => K(text'.list),
             \A call \in calls' : /\ CarriesList(call) => K(call.list)
                                  /\ CarriesText(call) => K(call.text.list)
      PROVE  CopiesKeep'
  BY <1>1 DEF CopiesKeep
<1>2. /\ K(allowed) /\ K(config.list) /\ \A list \in puts : K(list)
      /\ answered => K(allow)
      /\ loaded => K(text.list)
      /\ \A call \in calls : /\ CarriesList(call) => K(call.list)
                             /\ CarriesText(call) => K(call.text.list)
  BY DEF CopiesKeep
<1> HIDE DEF K
<1>3. CASE \E pluggedIn \in Plugged \ {ports} : Replug(pluggedIn)
  BY <1>1, <1>2, <1>3 DEF Replug, cards, settingsGhosts
<1>4. CASE \E port \in devices : Toggle(port)
  BY <1>4, ToggleKeeps
<1>5. CASE RefreshDevices \/ LoadConfig
  BY <1>1, <1>2, <1>5
     DEF RefreshDevices, LoadConfig, Ask, cards, GetDevices, Call, CarriesList,
         CarriesText
<1>6. CASE \E save \in BOOLEAN : Apply(save)
  BY <1>1, <1>2, <1>6 DEF Apply, Ask, cards, Call, CarriesText
<1>7. CASE SaveConfig
  BY <1>7, SaveKeeps
<1>8. CASE \E list, managed, rest : EditConfig(list, managed, rest)
  BY <1>8, EditKeeps
<1>9. CASE \E call \in calls : AnswerDevices(call)
  BY <1>1, <1>2, <1>9 DEF AnswerDevices, Took, cards, settingsGhosts, CarriesText
<1>10. CASE \E call \in calls : ApplyList(call)
  BY <1>1, <1>2, <1>10 DEF ApplyList, Took, cards, CarriesText, CarriesList
<1>11. CASE \E call \in calls : SaveList(call)
  <2> PICK call \in calls : SaveList(call)
    BY <1>11
  <2>1. K(call.list)
    BY <1>2 DEF SaveList, CarriesList
  <2>2. K(config'.list)
    BY <1>2, <2>1 DEF SaveList, SettingsTypes, IsText, Config
  <2> QED
    BY <1>1, <1>2, <2>1, <2>2 DEF SaveList, Took, cards
<1>12. CASE \E call \in calls : AnswerLoad(call)
  BY <1>1, <1>2, <1>12 DEF AnswerLoad, Took, cards, settingsGhosts, CarriesList
<1>13. CASE \E call \in calls : SaveText(call)
  BY <1>1, <1>2, <1>13 DEF SaveText, Took, cards, CarriesText
<1>14. CASE \E call \in calls : HearDevices(call)
  BY <1>1, <1>2, <1>14 DEF HearDevices, Took, settingsGhosts, CarriesList
<1>15. CASE \E call \in calls : HearDone(call)
  BY <1>1, <1>2, <1>15
     DEF HearDone, Took, cards, settingsGhosts, GetDevices, Call, CarriesList, CarriesText
<1>16. CASE \E call \in calls : HearConfig(call)
  BY <1>1, <1>2, <1>16 DEF HearConfig, Took, settingsGhosts, CarriesText
<1>17. CASE \E call \in calls : CallLost(call)
  BY <1>1, <1>2, <1>17 DEF CallLost, Took, cards, settingsGhosts
<1>18. CASE \E list \in puts : SetAllow(list)
  BY <1>1, <1>2, <1>18 DEF SetAllow, cards, settingsGhosts, CarriesList, CarriesText
<1>19. CASE Restart
  BY <1>1, <1>2, <1>19 DEF Restart, cards
<1>20. CASE UNCHANGED settingsVars
  BY <1>1, <1>2, <1>20 DEF settingsVars, cards, settingsGhosts
<1> QED
  BY <1>3, <1>4, <1>5, <1>6, <1>7, <1>8, <1>9, <1>10, <1>11, <1>12, <1>13, <1>14, <1>15, <1>16,
     <1>17, <1>18, <1>19, <1>20 DEF SettingsNext

\* No entry is lost from the live list that the user did not take a tick from,
\* strike out of the text, or leave out of a text saved without having been
\* loaded (MIDIDevicesCard.tsx:67-80, ConfigCard.tsx:19-67).
THEOREM NoEntrySlips == SettingsSpec => []NothingSlips
<1>1. CopiesKeep => NothingSlips
  BY DEF CopiesKeep, Keeps, NothingSlips
<1> QED
  BY <1>1, TypeCorrect, CopiesKeepInitially, CopiesKeepKept, PTL DEF SettingsSpec

----------------------------------------------------------------------------
(* The probe (MidiProbe). What is open has an owner: the session, or one   *)
(* handler that is to hand it over or to close it. Two owners of one       *)
(* connection would close it under the session; none would leak it.        *)

\* The two kinds of handlers, each with its own parts.
IsWork(h) ==
    /\ h.step # "asking"
    /\ h = [part \in {"id", "step", "mine", "conn", "status"} |-> h[part]]
IsAsking(h) ==
    /\ h.step = "asking"
    /\ h = [part \in {"id", "step", "mine", "conn", "from"} |-> h[part]]

Holds(h) == h.step \in {"begin", "close"}
Holders == {h \in handlers : Holds(h)}
OfSession == IF active THEN {conn} ELSE {}

HandlersTyped == \A h \in handlers : IsWork(h) \/ IsAsking(h)
OpensCounted == opened \in Nat /\ \A c \in open : c \in Nat /\ c <= opened
OpenIsOwned == open = OfSession \cup {h.conn : h \in Holders}
OneOwnerEach ==
    /\ \A h \in Holders : h.conn \notin OfSession
    /\ \A g, h \in Holders : g.conn = h.conn => g = h

PortsInv == HandlersTyped /\ OpensCounted /\ OpenIsOwned /\ OneOwnerEach

----------------------------------------------------------------------------
\* A step that leaves the session's connection, the open ones and their
\* holders alone.
LEMMA OthersKept ==
    ASSUME PortsInv, UNCHANGED <<active, conn, open, opened>>, HandlersTyped',
           {h.conn : h \in Holders'} = {h.conn : h \in Holders},
           \A g, h \in Holders' : g.conn = h.conn => g = h
    PROVE  PortsInv'
<1>1. OfSession' = OfSession
  BY DEF OfSession
<1>2. ASSUME NEW h \in Holders' PROVE h.conn \notin OfSession
  <2>1. PICK g \in Holders : g.conn = h.conn
    BY <1>2
  <2> QED
    BY <2>1 DEF PortsInv, OneOwnerEach
<1> QED
  BY <1>1, <1>2 DEF PortsInv, OpensCounted, OpenIsOwned, OneOwnerEach

\* Steps by which a handler that holds no connection comes, goes on or ends.
LEMMA HoldersKept ==
    ASSUME PortsInv, UNCHANGED <<active, conn, open, opened>>, HandlersTyped',
           Holders' = Holders
    PROVE  PortsInv'
  BY OthersKept DEF PortsInv, OneOwnerEach

----------------------------------------------------------------------------
\* Arrivals that open nothing, and steps of those that hold nothing.
LEMMA StartLooksStep ==
    ASSUME PortsInv, NEW mine, StartLooks(mine) PROVE PortsInv'
<1> DEFINE k == Handler("open", mine, NoConn, NoStatus)
<1>1. handlers' = handlers \cup {k} /\ UNCHANGED <<active, conn, open, opened>>
  BY DEF StartLooks, Arrives, session, connections
<1>2. IsWork(k) /\ k.step = "open"
  BY DEF IsWork, Handler
<1> HIDE DEF k
<1>3. HandlersTyped' /\ Holders' = Holders
  BY <1>1, <1>2 DEF PortsInv, HandlersTyped, Holders, Holds
<1> QED
  BY <1>1, <1>3, HoldersKept

LEMMA BeginLabelStep ==
    ASSUME PortsInv, NEW mine, BeginLabel(mine) PROVE PortsInv'
<1> DEFINE k == Handler("publish", FALSE, NoConn, StatusOf(TRUE, capture, capture, version'))
<1>1. handlers' = handlers \cup {k} /\ UNCHANGED <<active, conn, open, opened>>
  BY DEF BeginLabel, Arrives, connections
<1>2. IsWork(k) /\ k.step = "publish"
  BY DEF IsWork, Handler
<1> HIDE DEF k
<1>3. HandlersTyped' /\ Holders' = Holders
  BY <1>1, <1>2 DEF PortsInv, HandlersTyped, Holders, Holds
<1> QED
  BY <1>1, <1>3, HoldersKept

LEMMA IdentityRequestStep ==
    ASSUME PortsInv, NEW mine, IdentityRequest(mine) PROVE PortsInv'
<1> DEFINE k == [id |-> identityCh', step |-> "asking", mine |-> mine, conn |-> conn,
                 from |-> NoConn]
<1>1. handlers' = handlers \cup {k} /\ UNCHANGED <<active, conn, open, opened>>
  BY DEF IdentityRequest, Arrives, connections
<1>2. IsAsking(k) /\ k.step = "asking"
  BY DEF IsAsking
<1> HIDE DEF k
<1>3. HandlersTyped' /\ Holders' = Holders
  BY <1>1, <1>2 DEF PortsInv, HandlersTyped, Holders, Holds
<1> QED
  BY <1>1, <1>3, HoldersKept

LEMMA EndStep ==
    ASSUME PortsInv, NEW h \in handlers,
           PortNotFound(h) \/ HearAnswer(h) \/ AnswerLost(h) \/ IdentityResult(h)
    PROVE  PortsInv'
<1>1. handlers' = handlers \ {h} /\ UNCHANGED <<active, conn, open, opened>>
  BY DEF PortNotFound, HearAnswer, AnswerLost, IdentityResult, Ends, session, connections
<1>2. h.step \in {"open", "answer", "answered", "asking"}
  BY DEF PortNotFound, HearAnswer, AnswerLost, IdentityResult
<1>3. HandlersTyped' /\ Holders' = Holders
  BY <1>1, <1>2 DEF PortsInv, HandlersTyped, Holders, Holds
<1> QED
  BY <1>1, <1>3, HoldersKept

LEMMA AnswerReadsStep ==
    ASSUME PortsInv, NEW h \in handlers, AnswerReads(h) PROVE PortsInv'
<1> DEFINE k == [h EXCEPT !.step = "answered", !.conn = NoConn, !.status = Status]
<1>1. /\ handlers' = (handlers \ {h}) \cup {k} /\ h.step = "answer"
      /\ UNCHANGED <<active, conn, open, opened>>
  BY DEF AnswerReads, Goes, connections
<1>2. IsWork(h)
  BY <1>1 DEF PortsInv, HandlersTyped, IsAsking
<1>3. IsWork(k) /\ k.step = "answered"
  <2> DEFINE st == Status
  <2> HIDE DEF st
  <2>1. LET l == [h EXCEPT !.step = "answered", !.conn = NoConn, !.status = st]
        IN  IsWork(l) /\ l.step = "answered"
    BY <1>2 DEF IsWork
  <2> QED
    BY <2>1 DEF st
<1> HIDE DEF k
<1>4. HandlersTyped'
  BY <1>1, <1>3 DEF PortsInv, HandlersTyped
<1>5. Holders' = Holders
  BY <1>1, <1>3 DEF Holders, Holds
<1> QED
  BY <1>1, <1>4, <1>5, HoldersKept

LEMMA PublishesStep ==
    ASSUME PortsInv, NEW h \in handlers, Publishes(h) PROVE PortsInv'
<1> DEFINE k == [h EXCEPT !.step = "answer", !.conn = NoConn, !.status = h.status]
<1>1. /\ handlers' \subseteq (handlers \ {h}) \cup {k} /\ handlers \ {h} \subseteq handlers'
      /\ UNCHANGED <<active, conn, open, opened>> /\ h.step = "publish"
  BY DEF Publishes, Goes, Ends, session, connections
<1>2. IsWork(h)
  BY <1>1 DEF PortsInv, HandlersTyped, IsAsking
<1>3. IsWork(k) /\ k.step = "answer"
  BY <1>2 DEF IsWork
<1> HIDE DEF k
<1>4. HandlersTyped'
  BY <1>1, <1>3 DEF PortsInv, HandlersTyped
<1>5. Holders' = Holders
  BY <1>1, <1>3 DEF Holders, Holds
<1> QED
  BY <1>1, <1>4, <1>5, HoldersKept

LEMMA IngestsStep ==
    ASSUME PortsInv, NEW c \in open, Ingests(c) \/ IngestsReply(c) PROVE PortsInv'
<1>1. UNCHANGED <<active, conn, open, opened>>
  BY DEF Ingests, IngestsReply, Recorded, connections
<1>2. CASE Ingests(c)
  BY <1>1, <1>2, HoldersKept DEF Ingests, PortsInv, HandlersTyped, Holders
<1>3. CASE IngestsReply(c)
  <2> DEFINE Replied(h) == IF h.step = "asking" /\ h.id = identityCh THEN [h EXCEPT !.from = c]
                            ELSE h
  <2>1. handlers' = {Replied(h) : h \in handlers}
    BY <1>3 DEF IngestsReply
  <2>2. ASSUME NEW h \in handlers
        PROVE  /\ IsWork(Replied(h)) \/ IsAsking(Replied(h))
               /\ h.step = "asking" => Replied(h).step = "asking"
               /\ h.step # "asking" => Replied(h) = h
    BY DEF PortsInv, HandlersTyped, IsWork, IsAsking
  <2> HIDE DEF Replied
  <2>3. HandlersTyped'
    BY <2>1, <2>2 DEF HandlersTyped
  <2>4. Holders' = Holders
    BY <2>1, <2>2 DEF Holders, Holds
  <2> QED
    BY <1>1, <2>3, <2>4, HoldersKept
<1> QED
  BY <1>2, <1>3

\* A new page: nobody waits for the handlers of the old one.
LEMMA LoadPageStep ==
    ASSUME PortsInv, LoadPage PROVE PortsInv'
<1> DEFINE Left(h) == [h EXCEPT !.mine = FALSE]
           k == Handler("answer", TRUE, NoConn, NoStatus)
<1>1. /\ handlers' = {Left(h) : h \in {g \in handlers : g.step \notin {"answer", "answered"}}} \cup {k}
      /\ UNCHANGED <<active, conn, open, opened>>
  BY DEF LoadPage, session, connections
<1>2. IsWork(k) /\ k.step = "answer"
  BY DEF IsWork, Handler
<1>3. ASSUME NEW h \in handlers
      PROVE  /\ IsWork(Left(h)) \/ IsAsking(Left(h))
             /\ Left(h).step = h.step /\ Left(h).conn = h.conn
  BY DEF PortsInv, HandlersTyped, IsWork, IsAsking
<1> HIDE DEF Left, k
<1>4. HandlersTyped'
  BY <1>1, <1>2, <1>3 DEF HandlersTyped
<1>5. Holders' = {Left(h) : h \in Holders}
  BY <1>1, <1>2, <1>3 DEF Holders, Holds
<1>6. Holders \subseteq handlers
  BY DEF Holders
<1>7. {h.conn : h \in Holders'} = {h.conn : h \in Holders}
  BY <1>3, <1>5, <1>6
<1>8. ASSUME NEW g \in Holders', NEW h \in Holders', g.conn = h.conn PROVE g = h
  <2>1. PICK a \in Holders, b \in Holders : g = Left(a) /\ h = Left(b)
    BY <1>5
  <2>2. a = b
    BY <1>3, <1>6, <1>8, <2>1 DEF PortsInv, OneOwnerEach
  <2> QED
    BY <2>1, <2>2
<1> QED
  BY <1>1, <1>4, <1>7, <1>8, OthersKept

\* A daemon that starts again has no handlers and no ports.
LEMMA RestartsStep ==
    ASSUME PortsInv, DaemonRestarts PROVE PortsInv'
<1>1. handlers' = {} /\ open' = {} /\ active' = FALSE /\ opened' = opened
  BY DEF DaemonRestarts
<1> QED
  BY <1>1 DEF PortsInv, HandlersTyped, OpensCounted, OpenIsOwned, OneOwnerEach, Holders, OfSession

----------------------------------------------------------------------------
(***************************************************************************)
(* A connection is opened, handed to the session or back, and closed.      *)
(***************************************************************************)

LEMMA StartOpensStep ==
    ASSUME PortsInv, NEW h \in handlers, StartOpens(h) PROVE PortsInv'
<1> DEFINE k == [h EXCEPT !.step = "begin", !.conn = opened', !.status = NoStatus]
<1>1. /\ handlers' = (handlers \ {h}) \cup {k} /\ h.step = "open"
      /\ opened' = opened + 1 /\ open' = open \cup {opened'} /\ UNCHANGED <<active, conn>>
  BY DEF StartOpens, Goes, session
<1>2. IsWork(h)
  BY <1>1 DEF PortsInv, HandlersTyped, IsAsking
<1>3. IsWork(k) /\ k.step = "begin" /\ k.conn = opened'
  BY <1>2 DEF IsWork
<1> HIDE DEF k
<1>4. HandlersTyped'
  BY <1>1, <1>3 DEF PortsInv, HandlersTyped
<1>5. Holders' = Holders \cup {k}
  BY <1>1, <1>3 DEF Holders, Holds
<1>6. opened' \in Nat /\ \A c \in open : c <= opened' /\ c # opened'
  BY <1>1 DEF PortsInv, OpensCounted
<1>7. OpensCounted'
  BY <1>1, <1>6 DEF PortsInv, OpensCounted
<1>8. OfSession' = OfSession /\ OfSession \subseteq open /\ \A g \in Holders : g.conn \in open
  BY <1>1 DEF PortsInv, OpenIsOwned, OfSession
<1>9. OpenIsOwned'
  BY <1>1, <1>3, <1>5, <1>8 DEF PortsInv, OpenIsOwned
<1>10. OneOwnerEach'
  BY <1>3, <1>5, <1>6, <1>8 DEF PortsInv, OneOwnerEach
<1> QED
  BY <1>4, <1>7, <1>9, <1>10 DEF PortsInv

\* The first one there has the session; another is to close what it opened.
LEMMA StartBeginsStep ==
    ASSUME PortsInv, NEW h \in handlers, StartBegins(h) PROVE PortsInv'
<1>1. UNCHANGED <<open, opened>> /\ h.step = "begin"
  BY DEF StartBegins, connections
<1>2. IsWork(h) /\ h \in Holders
  BY <1>1 DEF PortsInv, HandlersTyped, IsAsking, Holders, Holds
<1>3. CASE active /\ ComesSecond(h)
  <2> DEFINE k == [h EXCEPT !.step = "close", !.conn = h.conn, !.status = NoStatus]
  <2>1. handlers' = (handlers \ {h}) \cup {k} /\ UNCHANGED <<active, conn>>
    BY <1>3 DEF ComesSecond, Goes, session
  <2>2. IsWork(k) /\ k.step = "close" /\ k.conn = h.conn
    BY <1>2 DEF IsWork
  <2> HIDE DEF k
  <2>3. HandlersTyped'
    BY <2>1, <2>2 DEF PortsInv, HandlersTyped
  <2>4. Holders' = (Holders \ {h}) \cup {k}
    BY <2>1, <2>2 DEF Holders, Holds
  <2>5. {g.conn : g \in Holders'} = {g.conn : g \in Holders}
    BY <1>2, <2>2, <2>4
  <2>6. ASSUME NEW f \in Holders', NEW g \in Holders', f.conn = g.conn PROVE f = g
    BY <1>2, <2>2, <2>4, <2>6 DEF PortsInv, OneOwnerEach
  <2> QED
    BY <1>1, <2>1, <2>3, <2>5, <2>6, OthersKept
<1>4. CASE ~active /\ Begins(h)
  <2> DEFINE st == StatusOf(TRUE, h.conn, NoLabel, version')
             k == [h EXCEPT !.step = "publish", !.conn = NoConn, !.status = st]
  <2>1. handlers' = (handlers \ {h}) \cup {k} /\ active' = TRUE /\ conn' = h.conn
    BY <1>4 DEF Begins, Goes
  <2>2. IsWork(k) /\ k.step = "publish"
    BY <1>2 DEF IsWork
  <2> HIDE DEF k
  <2>3. HandlersTyped'
    BY <2>1, <2>2 DEF PortsInv, HandlersTyped
  <2>4. Holders' = Holders \ {h}
    BY <2>1, <2>2 DEF Holders, Holds
  <2>5. OfSession' = {h.conn} /\ OfSession = {}
    BY <1>4, <2>1 DEF OfSession
  <2>6. OpenIsOwned'
    BY <1>1, <1>2, <2>4, <2>5 DEF PortsInv, OpenIsOwned
  <2>7. OneOwnerEach'
    BY <1>2, <2>4, <2>5 DEF PortsInv, OneOwnerEach
  <2>8. OpensCounted'
    BY <1>1 DEF PortsInv, OpensCounted
  <2> QED
    BY <2>3, <2>6, <2>7, <2>8 DEF PortsInv
<1> QED
  BY <1>3, <1>4 DEF StartBegins

LEMMA StopLetsGoStep ==
    ASSUME PortsInv, NEW mine, StopLetsGo(mine) PROVE PortsInv'
<1> DEFINE k == Handler("close", mine, conn, StatusOf(FALSE, capture, labeling, version'))
<1>1. /\ active /\ active' = FALSE /\ handlers' = handlers \cup {k}
      /\ UNCHANGED <<open, opened>>
  BY DEF StopLetsGo, Arrives, connections
<1>2. IsWork(k) /\ k.step = "close" /\ k.conn = conn
  BY DEF IsWork, Handler
<1> HIDE DEF k
<1>3. HandlersTyped'
  BY <1>1, <1>2 DEF PortsInv, HandlersTyped
<1>4. Holders' = Holders \cup {k}
  BY <1>1, <1>2 DEF Holders, Holds
<1>5. OfSession = {conn} /\ OfSession' = {}
  BY <1>1 DEF OfSession
<1>6. OpenIsOwned'
  BY <1>1, <1>2, <1>4, <1>5 DEF PortsInv, OpenIsOwned
<1>7. OneOwnerEach'
  BY <1>2, <1>4, <1>5 DEF PortsInv, OneOwnerEach
<1>8. OpensCounted'
  BY <1>1 DEF PortsInv, OpensCounted
<1> QED
  BY <1>3, <1>6, <1>7, <1>8 DEF PortsInv

LEMMA ClosesStep ==
    ASSUME PortsInv, NEW h \in handlers, Closes(h) PROVE PortsInv'
<1> DEFINE k == [h EXCEPT !.step = "publish", !.conn = NoConn, !.status = h.status]
<1>1. /\ h.step = "close" /\ open' = open \ {h.conn} /\ UNCHANGED <<active, conn, opened>>
      /\ handlers' \subseteq (handlers \ {h}) \cup {k} /\ handlers \ {h} \subseteq handlers'
  BY DEF Closes, Goes, Ends, session
<1>2. IsWork(h) /\ h \in Holders
  BY <1>1 DEF PortsInv, HandlersTyped, IsAsking, Holders, Holds
<1>3. IsWork(k) /\ k.step = "publish"
  BY <1>2 DEF IsWork
<1> HIDE DEF k
<1>4. HandlersTyped'
  BY <1>1, <1>3 DEF PortsInv, HandlersTyped
<1>5. Holders' = Holders \ {h} /\ OfSession' = OfSession
  BY <1>1, <1>3 DEF Holders, Holds, OfSession
<1>6. OpenIsOwned'
  <2>1. open = OfSession \cup {g.conn : g \in Holders}
    BY DEF PortsInv, OpenIsOwned
  <2>2. h.conn \notin OfSession /\ \A g \in Holders \ {h} : g.conn # h.conn
    BY <1>2 DEF PortsInv, OneOwnerEach
  <2>3. open' = OfSession \cup {g.conn : g \in Holders \ {h}}
    BY <1>1, <2>1, <2>2
  <2> QED
    BY <1>5, <2>3 DEF OpenIsOwned
<1>7. OneOwnerEach'
  BY <1>5 DEF PortsInv, OneOwnerEach
<1>8. OpensCounted'
  BY <1>1 DEF PortsInv, OpensCounted
<1> QED
  BY <1>4, <1>6, <1>7, <1>8 DEF PortsInv

----------------------------------------------------------------------------
LEMMA PortsKept == PortsInv /\ [ProbeNext]_probeVars => PortsInv'
<1> SUFFICES ASSUME PortsInv, [ProbeNext]_probeVars PROVE PortsInv'
  OBVIOUS
<1>1. CASE WindowEnds \/ HearChange \/ PageStreamLost \/ PageStreamBack \/ UNCHANGED probeVars
  <2>1. UNCHANGED <<active, conn, open, opened, handlers>>
    BY <1>1 DEF WindowEnds, HearChange, PageStreamLost, PageStreamBack, probeVars, session,
                connections
  <2>2. HandlersTyped' /\ Holders' = Holders
    BY <2>1 DEF PortsInv, HandlersTyped, Holders
  <2> QED
    BY <2>1, <2>2, HoldersKept
<1> QED
  BY <1>1, StartLooksStep, StopLetsGoStep, BeginLabelStep, IdentityRequestStep, StartOpensStep,
     EndStep, StartBeginsStep, ClosesStep, PublishesStep, AnswerReadsStep, IngestsStep,
     LoadPageStep, RestartsStep DEF ProbeNext

\* However Starts and Stops interleave, between their holds of the lock, what
\* stays open once none is under way is the session's connection and nothing
\* else (session.go:118-139, 175-187).
THEOREM PortsAreClosed == ProbeSpec => []NoPortLeaks
<1>1. ProbeInit => PortsInv
  BY DEF ProbeInit, PortsInv, HandlersTyped, OpensCounted, OpenIsOwned, OneOwnerEach, Holders,
         OfSession
<1>2. PortsInv /\ [ProbeNext]_probeVars => PortsInv'
  BY PortsKept
<1>3. PortsInv => NoPortLeaks
  <2> SUFFICES ASSUME PortsInv, \A h \in handlers : h.step \notin {"begin", "close"}
               PROVE  open = OfSession
    BY DEF NoPortLeaks, OfSession
  <2>1. Holders = {}
    BY DEF Holders, Holds
  <2> QED
    BY <2>1 DEF PortsInv, OpenIsOwned
<1> QED
  BY <1>1, <1>2, <1>3, PTL DEF ProbeSpec

----------------------------------------------------------------------------
(* The macro slots (MacroSlots).                                           *)

\* What the user last made of the slots is queued, on its way or stored, until
\* someone else has a say.
EditKept ==
    /\ macrosLatest # NoMacros => typed = macrosLatest
    /\ ~contested /\ typed # NoMacros =>
          \/ macrosLatest = typed
          \/ macrosLatest = NoMacros /\ macroPuts = {typed}
          \/ macrosLatest = NoMacros /\ macroPuts = {} /\ storedMacros = typed

\* The last event on the stream says what is stored.
MacrosTold ==
    /\ IsSeq(macroEvents) /\ LastIs(macroEvents, storedMacros)
    /\ ~macroLink => macroEvents = <<>>

\* A question asked when no edit was under way gets what is stored for answer.
GetIsFresh ==
    macroGet.step # "none" /\ ~outdated =>
        /\ macrosLatest = NoMacros /\ macroPuts = {}
        /\ macroGet.step = "read" /\ ~contested => macroGet.answer = storedMacros

\* The page shows the edit, or will, unless its answer overruled it.
EditShows ==
    ~contested /\ typed # NoMacros /\ ~overruled =>
        /\ macrosGuard => macros = typed
        /\ macroLink /\ macroEvents = <<>> =>
              \/ macros = typed
              \/ macrosLatest # NoMacros \/ macroPuts # {}
              \/ macroGet.step # "none" /\ ~outdated

MacroInv == EditKept /\ MacrosTold /\ GetIsFresh /\ EditShows

LEMMA MacroInitially == MacroInit => MacroInv
  BY NoneQueued DEF MacroInit, MacroInv, EditKept, MacrosTold, GetIsFresh, EditShows, Get

\* An edit of the slots, whichever.
LEMMA SetMacrosStep ==
    ASSUME MacroInv, NEW m, setMacros(m)
    PROVE  MacroInv'
  BY DEF setMacros, MacroInv, EditKept, MacrosTold, GetIsFresh, EditShows, macroWire

LEMMA FlushStep ==
    ASSUME MacroInv, flushMacros \/ LeaveScreen
    PROVE  MacroInv'
<1> USE DEF MacroInv, EditKept, MacrosTold, GetIsFresh, EditShows, Sent, Get
<1>1. CASE flushMacros
  BY <1>1 DEF flushMacros
<1>2. CASE LeaveScreen
  BY <1>2, NoneQueued DEF LeaveScreen
<1> QED
  BY <1>1, <1>2

LEMMA MacroLocalStep ==
    ASSUME MacroInv,
           GuardEnds \/ SwitchPatch \/ \E slot \in Slots, sw \in {0, 50, 100} : Drive(slot, sw)
    PROVE  MacroInv'
  BY DEF GuardEnds, SwitchPatch, Drive, MacroInv, EditKept, MacrosTold, GetIsFresh, EditShows,
     pageSlots, macroWire, macroGhosts

\* The daemon stores an array and announces it.
LEMMA AcceptStep ==
    ASSUME MacroInv, (\E m \in macroPuts : TakePut(m)) \/ OtherClientPuts
    PROVE  MacroInv'
<1>1. ASSUME NEW m, Accept(m), macroLink' = macroLink PROVE MacrosTold'
  <2>1. CASE macroLink
    BY <1>1, <2>1, LastQueued DEF Accept, MacroInv, MacrosTold
  <2>2. CASE ~macroLink
    BY <1>1, <2>2, NoneQueued DEF Accept, MacroInv, MacrosTold
  <2> QED
    BY <2>1, <2>2
<1>2. ASSUME NEW m, Accept(m) PROVE macroLink => macroEvents' # <<>>
  BY <1>2, LastQueued DEF Accept, MacroInv, MacrosTold
<1>3. ASSUME NEW m \in macroPuts, TakePut(m) PROVE MacroInv'
  BY <1>1, <1>2, <1>3 DEF TakePut, Accept, MacroInv, EditKept, GetIsFresh, EditShows, pageSlots,
     macroGhosts
<1>4. CASE OtherClientPuts
  BY <1>1, <1>2, <1>4 DEF OtherClientPuts, Accept, MacroInv, EditKept, GetIsFresh, EditShows,
     pageSlots
<1> QED
  BY <1>3, <1>4

LEMMA MacroLossStep ==
    ASSUME MacroInv, (\E m \in macroPuts : PutLost(m)) \/ LinkDrops \/ LinkOpens \/ AnswerGet
    PROVE  MacroInv'
<1> USE DEF MacroInv, EditKept, MacrosTold, GetIsFresh, EditShows, Get, pageSlots, macroGhosts
<1>1. ASSUME NEW m \in macroPuts, PutLost(m) PROVE MacroInv'
  BY <1>1 DEF PutLost
<1>2. CASE LinkDrops
  BY <1>2, NoneQueued DEF LinkDrops
<1>3. CASE LinkOpens
  BY <1>3 DEF LinkOpens
<1>4. CASE AnswerGet
  BY <1>4 DEF AnswerGet
<1> QED
  BY <1>1, <1>2, <1>3, <1>4

LEMMA MacroHearStep ==
    ASSUME MacroInv, HearMacros \/ HearGet
    PROVE  MacroInv'
<1> USE DEF MacroInv, EditKept, GetIsFresh, EditShows, Get
<1>1. CASE HearMacros
  <2>1. MacrosTold' /\ (macroEvents' = <<>> => Head(macroEvents) = storedMacros)
    BY <1>1, LastStays DEF HearMacros, MacrosTold
  <2> QED
    BY <1>1, <2>1 DEF HearMacros
<1>2. CASE HearGet
  BY <1>2 DEF HearGet, MacrosTold
<1> QED
  BY <1>1, <1>2

LEMMA MacroStep == MacroInv /\ [MacroNext]_macroVars => MacroInv'
<1> SUFFICES ASSUME MacroInv, [MacroNext]_macroVars PROVE MacroInv'
  OBVIOUS
<1>1. ASSUME NEW slot \in Slots,
             \/ \E id \in Offered : AssignTarget(slot, id)
             \/ Unassign(slot) \/ TypeName(slot)
             \/ \E n \in Typed : TypeMin(slot, n) \/ TypeMax(slot, n)
      PROVE  \E m : setMacros(m)
  BY <1>1 DEF AssignTarget, Unassign, TypeName, TypeMin, TypeMax
<1>2. CASE UNCHANGED macroVars
  BY <1>2 DEF macroVars, pageSlots, macroWire, macroGhosts, MacroInv, EditKept, MacrosTold,
     GetIsFresh, EditShows
<1> QED
  BY <1>1, <1>2, SetMacrosStep, FlushStep, MacroLocalStep, AcceptStep, MacroLossStep,
     MacroHearStep DEF MacroNext

\* No edit of the slots is lost with a switch, a reconnect or the screen that
\* is left, for any targets, slots and number of operations; and the page does
\* not fall back behind it.
THEOREM MacrosAreKept == MacroSpec => []MacrosPersist
<1>1. MacroInv => MacrosPersist
  BY DEF MacroInv, EditKept, EditShows, MacrosPersist
<1> QED
  BY <1>1, MacroInitially, MacroStep, PTL DEF MacroSpec

----------------------------------------------------------------------------
(* Velocity card (VelocityEditor): the label.                              *)

\* The last event is of the curve that plays, and the label names that curve
\* when no event is left and no answer overtook one.
LabelInv ==
    /\ IsSeq(announced) /\ LastIs(announced, applied)
    /\ announced = <<>> /\ ~outrun => label = applied

LEMMA LabelInitially == VelInit => LabelInv
  BY NoneQueued DEF VelInit, LabelInv

\* The canvas and the staged curve do not touch the label.
LEMMA StagingStep ==
    ASSUME LabelInv,
           \/ SetModeBoth \/ VelPointerUp
           \/ \E name \in Presets \cup {"custom"} : PickPreset(name)
           \/ \E v \in {0, 1, Top} : OnClamp(v)
           \/ \E at \in Velocities \X Velocities :
                 VelPointerDown(at) \/ VelPointerMove(at) \/ VelDoubleClick(at)
    PROVE  LabelInv'
<1>1. label' = label /\ applied' = applied /\ announced' = announced /\ outrun' = outrun
  BY DEF SetModeBoth, VelPointerUp, PickPreset, OnClamp, VelPointerDown, VelPointerMove,
     VelDoubleClick, velWire
<1> QED
  BY <1>1 DEF LabelInv

\* The daemon takes a curve, refuses it or resolves another.
LEMMA CurveStep ==
    ASSUME LabelInv,
           \/ SendCurve \/ \E b \in asked : TakeCurve(b) \/ CurveFails(b)
           \/ \E name \in Presets : PatchResolves(name)
    PROVE  LabelInv'
<1>1. ASSUME NEW name, applied' = name, announced' = Append(announced, name)
      PROVE  LabelInv'
  BY <1>1, LastQueued DEF LabelInv
<1>2. ASSUME UNCHANGED <<label, applied, announced, outrun>> PROVE LabelInv'
  BY <1>2 DEF LabelInv
<1>3. CASE SendCurve
  BY <1>2, <1>3 DEF SendCurve
<1>4. ASSUME NEW b \in asked, TakeCurve(b) \/ CurveFails(b) PROVE LabelInv'
  BY <1>1, <1>2, <1>4 DEF TakeCurve, CurveFails
<1>5. ASSUME NEW name \in Presets, PatchResolves(name) PROVE LabelInv'
  BY <1>1, <1>5 DEF PatchResolves
<1> QED
  BY <1>3, <1>4, <1>5

\* The page takes an answer or an event.
LEMMA LabelStep ==
    ASSUME LabelInv, (\E b \in answers : Answered(b)) \/ HearCurve
    PROVE  LabelInv'
<1>1. ASSUME NEW b \in answers, Answered(b) PROVE LabelInv'
  BY <1>1 DEF Answered, LabelInv
<1>2. CASE HearCurve
  <2>1. /\ IsSeq(announced') /\ LastIs(announced', applied)
        /\ announced' = <<>> => Head(announced) = applied
    BY <1>2, LastStays DEF HearCurve, LabelInv
  <2> QED
    BY <1>2, <2>1 DEF HearCurve, LabelInv
<1> QED
  BY <1>1, <1>2

LEMMA LabelInvStep == LabelInv /\ [VelNext]_velVars => LabelInv'
<1> SUFFICES ASSUME LabelInv, [VelNext]_velVars PROVE LabelInv'
  OBVIOUS
<1>1. CASE UNCHANGED velVars
  BY <1>1 DEF velVars, velWire, LabelInv
<1> QED
  BY <1>1, StagingStep, CurveStep, LabelStep DEF VelNext

\* The page names the curve that plays, whatever the daemon accepted, refused
\* and resolved and whatever was lost, for any number of requests.
THEOREM LabelIsTrue == VelSpec => []LabelNamesCurve
<1>1. LabelInv => LabelNamesCurve
  BY DEF LabelInv, LabelNamesCurve
<1> QED
  BY <1>1, LabelInitially, LabelInvStep, PTL DEF VelSpec

----------------------------------------------------------------------------
(* Velocity card (VelocityEditor): the points.                             *)

LEMMA ProductOrder ==
    ASSUME NEW d \in Nat, NEW a \in Int, NEW b \in Int, a <= b
    PROVE  d * a <= d * b
  OBVIOUS

LEMMA QuotientOrder ==
    ASSUME NEW d \in Nat \ {0}, NEW a \in Nat, NEW b \in Nat, a <= b
    PROVE  a \div d \in Nat /\ a \div d <= b \div d
  OBVIOUS

LEMMA QuotientBound ==
    ASSUME NEW d \in Nat \ {0}, NEW a \in Nat, NEW m \in Nat, a < d * (m + 1)
    PROVE  a \div d <= m
<1> DEFINE q == a \div d
<1>1. q \in Nat /\ d * q <= a
  OBVIOUS
<1> HIDE DEF q
<1>2. m + 1 <= q => d * (m + 1) <= d * q
  BY <1>1, ProductOrder
<1>3. d * (m + 1) \in Nat /\ d * q \in Nat
  BY <1>1
<1>4. q <= m
  BY <1>1, <1>2, <1>3
<1> QED
  BY <1>4 DEF q

\* How far a segment of width dx and height dy has risen, rounded.
Rise(dx, dy, t) == (2 * dy * t + dx) \div (2 * dx)

LEMMA RiseOrder ==
    ASSUME NEW dx \in Nat \ {0}, NEW dy \in Nat, NEW s \in 0..dx, NEW t \in s..dx
    PROVE  /\ Rise(dx, dy, s) \in 0..dy /\ Rise(dx, dy, t) \in 0..dy
           /\ Rise(dx, dy, s) <= Rise(dx, dy, t)
<1>1. /\ 2 * dy \in Nat /\ 2 * dx \in Nat \ {0} /\ s \in Nat /\ t \in Nat
      /\ (2 * dx) * dy \in Nat
  OBVIOUS
<1>2. (2 * dy) * s <= (2 * dy) * t /\ (2 * dy) * t <= (2 * dy) * dx
  BY <1>1, ProductOrder
<1>3. (2 * dy) * s \in Nat /\ (2 * dy) * t \in Nat
  BY <1>1
<1>4. (2 * dy) * dx = (2 * dx) * dy /\ (2 * dx) * (dy + 1) = (2 * dx) * dy + 2 * dx
  OBVIOUS
<1> DEFINE a == (2 * dy) * s + dx
           b == (2 * dy) * t + dx
<1>5. a \in Nat /\ b \in Nat /\ a <= b /\ b < (2 * dx) * (dy + 1)
  BY <1>1, <1>2, <1>3, <1>4
<1> HIDE DEF a, b
<1>6. /\ a \div (2 * dx) \in Nat /\ a \div (2 * dx) <= b \div (2 * dx)
      /\ b \div (2 * dx) \in Nat /\ b \div (2 * dx) <= dy
  BY <1>1, <1>5, QuotientOrder, QuotientBound
<1>7. Rise(dx, dy, s) = a \div (2 * dx) /\ Rise(dx, dy, t) = b \div (2 * dx)
  BY DEF Rise, a, b
<1> QED
  BY <1>6, <1>7

\* A set of numbers has a least one.
LEMMA LeastNat ==
    ASSUME NEW T, T \subseteq Nat, T # {}
    PROVE  \E n \in T : \A m \in T : n <= m
<1> DEFINE R == OpToRel(<, Nat)
<1>1. IsWellFoundedOn(R, Nat)
  BY NatLessThanWellFounded
<1>2. \A m, n \in Nat : m < n => <<m, n>> \in R
  BY DEF OpToRel
<1> HIDE DEF R
<1>3. PICK n \in T : \A m \in T : ~(<<m, n>> \in R)
  BY <1>1, WFMin
<1>4. ASSUME NEW m \in T PROVE n <= m
  <2>1. m \in Nat /\ n \in Nat
    OBVIOUS
  <2>2. ~(m < n)
    BY <1>2, <1>3, <2>1, Zenon
  <2> QED
    BY <2>1, <2>2
<1> QED
  BY <1>4

LEMMA FunctionIsSeq ==
    ASSUME NEW S, NEW n \in Nat, NEW f \in [1..n -> S]
    PROVE  f \in Seq(S) /\ Len(f) = n
<1>1. f \in Seq(S)
  BY SeqDef
<1>2. Len(f) \in Nat /\ DOMAIN f = 1..Len(f) /\ DOMAIN f = 1..n
  BY <1>1, LenProperties
<1> QED
  BY <1>1, <1>2

\* Points as the editor keeps them: any one is below and left of any later one.
Curve(ps, n) ==
    /\ n \in 2..MaxPoints /\ ps \in [1..n -> Velocities \X Velocities]
    /\ ps[1] = <<0, 0>> /\ ps[n][1] = Top
    /\ \A i, j \in 1..n : i < j => ps[i][1] < ps[j][1] /\ ps[i][2] <= ps[j][2]

CanvasInv ==
    /\ Curve(points, Len(points))
    /\ grabbed \in Nat
    /\ outMin \in {0, 1, Top} /\ outMax \in {0, 1, Top}

LEMMA CurveLength ==
    ASSUME NEW ps, NEW n, Curve(ps, n)
    PROVE  Len(ps) = n /\ Curve(ps, Len(ps)) /\ ps \in Seq(Velocities \X Velocities)
<1>1. n \in Nat /\ ps \in [1..n -> Velocities \X Velocities]
  BY MaxPointsAssumption DEF Curve
<1> QED
  BY <1>1, FunctionIsSeq

LEMMA CurveAccepted ==
    ASSUME NEW ps, Curve(ps, Len(ps))
    PROVE  AcceptablePoints(ps)
<1>1. Len(ps) \in Nat
  BY MaxPointsAssumption DEF Curve
<1>2. ASSUME NEW i \in 2..Len(ps)
      PROVE  ps[i - 1][1] < ps[i][1] /\ ps[i - 1][2] <= ps[i][2]
  <2>1. i - 1 \in 1..Len(ps) /\ i \in 1..Len(ps) /\ i - 1 < i
    BY <1>1
  <2> QED
    BY <2>1 DEF Curve
<1> QED
  BY <1>1, <1>2, MaxPointsAssumption DEF Curve, AcceptablePoints

LEMMA CanvasInitially == VelInit => CanvasInv
<1> SUFFICES ASSUME VelInit PROVE CanvasInv
  OBVIOUS
<1> DEFINE half == (Top + 1) \div 2
<1>1. half \in 1..Top - 1
  BY TopAssumption
<1> HIDE DEF half
<1> DEFINE S == Velocities \X Velocities
           ps == <<<<0, 0>>, <<half, half>>, <<Top, Top>>>>
<1>2. <<0, 0>> \in S /\ <<half, half>> \in S /\ <<Top, Top>> \in S
  BY <1>1, TopAssumption DEF Velocities
<1>3. ps[1] = <<0, 0>> /\ ps[2] = <<half, half>> /\ ps[3] = <<Top, Top>>
  OBVIOUS
<1>4. ps \in Seq(S) /\ Len(ps) = 3
  BY <1>2
<1>5. ps \in [1..3 -> S]
  BY <1>4, LenProperties
<1>6. points = ps
  BY DEF VelInit, half
<1> HIDE DEF ps
<1>7. ASSUME NEW i \in 1..3, NEW j \in 1..3, i < j
      PROVE  ps[i][1] < ps[j][1] /\ ps[i][2] <= ps[j][2]
  <2>1. (i = 1 \/ i = 2) /\ (j = 2 \/ j = 3)
    BY <1>7
  <2> QED
    BY <1>1, <1>3, <1>7, <2>1, TopAssumption
<1>8. Curve(ps, 3)
  BY <1>3, <1>5, <1>7, MaxPointsAssumption DEF Curve
<1> QED
  BY <1>4, <1>6, <1>8 DEF VelInit, CanvasInv

\* What both coordinates of a point are.
LEMMA PointOf ==
    ASSUME NEW ps, NEW n, Curve(ps, n), NEW i \in 1..n
    PROVE  /\ ps[i] \in Velocities \X Velocities
           /\ ps[i] = <<ps[i][1], ps[i][2]>>
           /\ ps[i][1] \in 0..Top /\ ps[i][2] \in 0..Top
  BY DEF Curve, Velocities

LEMMA CurveEnds ==
    ASSUME NEW ps, NEW n, Curve(ps, n)
    PROVE  /\ n \in Nat /\ n >= 2 /\ n <= MaxPoints /\ Top \in Nat
           /\ 1 \in 1..n /\ n \in 1..n
           /\ ps[1][1] = 0 /\ ps[1][2] = 0 /\ ps[n][1] = Top
  BY MaxPointsAssumption, TopAssumption DEF Curve

\* A point squeezed between its neighbours.
LEMMA BetweenBounds ==
    ASSUME NEW v \in Int, NEW lo \in Int, NEW hi \in Int, lo <= hi
    PROVE  Between(v, lo, hi) \in lo..hi
  BY DEF Between

LEMMA PointPut ==
    ASSUME NEW ps, NEW n, Curve(ps, n), n < MaxPoints, NEW i \in 2..n,
           NEW p \in Velocities \X Velocities,
           ps[i - 1][1] < p[1], p[1] < ps[i][1],
           ps[i - 1][2] <= p[2], p[2] <= ps[i][2],
           NEW qs, qs = [k \in 1..(n + 1) |->
                            IF k < i THEN ps[k] ELSE IF k = i THEN p ELSE ps[k - 1]]
    PROVE  Curve(qs, n + 1)
<1>1. /\ n \in Nat /\ n >= 2 /\ Top \in Nat /\ p[1] \in Int /\ p[2] \in Int
      /\ i - 1 \in 1..n /\ i \in 1..n /\ n + 1 \in 2..MaxPoints
  BY CurveEnds, MaxPointsAssumption DEF Velocities
<1>2. ASSUME NEW k \in 1..(n + 1)
      PROVE  /\ qs[k] = IF k < i THEN ps[k] ELSE IF k = i THEN p ELSE ps[k - 1]
             /\ k < i => k \in 1..n
             /\ k > i => k - 1 \in 1..n
  BY <1>1
<1>3. qs \in [1..(n + 1) -> Velocities \X Velocities]
  <2>1. ASSUME NEW k \in 1..(n + 1) PROVE qs[k] \in Velocities \X Velocities
    BY <1>1, <1>2, PointOf
  <2> QED
    BY <2>1
<1>4. qs[1] = <<0, 0>> /\ qs[n + 1][1] = Top
  BY <1>1, <1>2 DEF Curve
<1>5. ASSUME NEW j \in 1..(n + 1), NEW k \in 1..(n + 1), j < k
      PROVE  qs[j][1] < qs[k][1] /\ qs[j][2] <= qs[k][2]
  <2>1. \A a, b \in 1..n : a < b => ps[a][1] < ps[b][1] /\ ps[a][2] <= ps[b][2]
    BY DEF Curve
  <2>2. ASSUME NEW a \in 1..n
        PROVE  ps[a][1] \in Int /\ ps[a][2] \in Int
    BY <1>1, PointOf
  <2>3. \A a \in 1..n : a < i => ps[a][1] < p[1] /\ ps[a][2] <= p[2]
    <3> SUFFICES ASSUME NEW a \in 1..n, a < i PROVE ps[a][1] < p[1] /\ ps[a][2] <= p[2]
      OBVIOUS
    <3>1. CASE a = i - 1
      BY <3>1
    <3>2. CASE a < i - 1
      <4>1. ps[a][1] < ps[i - 1][1] /\ ps[a][2] <= ps[i - 1][2]
        BY <1>1, <2>1, <3>2
      <4>2. /\ ps[a][1] \in Int /\ ps[a][2] \in Int
            /\ ps[i - 1][1] \in Int /\ ps[i - 1][2] \in Int
        BY <1>1, <2>2, <3>2
      <4> QED
        BY <1>1, <4>1, <4>2
    <3> QED
      BY <1>1, <3>1, <3>2
  <2>4. \A a \in 1..n : a >= i => p[1] < ps[a][1] /\ p[2] <= ps[a][2]
    <3> SUFFICES ASSUME NEW a \in 1..n, a >= i PROVE p[1] < ps[a][1] /\ p[2] <= ps[a][2]
      OBVIOUS
    <3>1. CASE a = i
      BY <3>1
    <3>2. CASE i < a
      <4>1. ps[i][1] < ps[a][1] /\ ps[i][2] <= ps[a][2]
        BY <1>1, <2>1, <3>2
      <4>2. /\ ps[a][1] \in Int /\ ps[a][2] \in Int
            /\ ps[i][1] \in Int /\ ps[i][2] \in Int
        BY <1>1, <2>2, <3>2
      <4> QED
        BY <1>1, <4>1, <4>2
    <3> QED
      BY <1>1, <3>1, <3>2
  <2>5. CASE j < i /\ k < i
    BY <1>2, <1>5, <2>1, <2>5
  <2>6. CASE j < i /\ k = i
    BY <1>2, <2>3, <2>6
  <2>7. CASE j < i /\ k > i
    <3>1. j < k - 1 \/ j = k - 1
      BY <2>7
    <3>2. j < k - 1
      BY <2>7
    <3> QED
      BY <1>2, <2>1, <2>7, <3>2
  <2>8. CASE j = i /\ k > i
    <3>1. k - 1 >= i
      BY <2>8
    <3> QED
      BY <1>2, <2>4, <2>8, <3>1
  <2>9. CASE j > i /\ k > i
    <3>1. j - 1 < k - 1
      BY <1>5
    <3> QED
      BY <1>2, <2>1, <2>9, <3>1
  <2> QED
    BY <1>1, <1>5, <2>5, <2>6, <2>7, <2>8, <2>9
<1> QED
  BY <1>1, <1>3, <1>4, <1>5 DEF Curve

LEMMA PointGone ==
    ASSUME NEW ps, NEW n, Curve(ps, n), NEW i \in 2..(n - 1),
           NEW qs, qs = [k \in 1..(n - 1) |-> IF k < i THEN ps[k] ELSE ps[k + 1]]
    PROVE  Curve(qs, n - 1)
<1>1. n \in Nat /\ n - 1 \in 2..MaxPoints /\ i \in 2..n
  BY CurveEnds, MaxPointsAssumption
<1>2. ASSUME NEW k \in 1..(n - 1)
      PROVE  \E a \in 1..n : qs[k] = ps[a] /\ a = IF k < i THEN k ELSE k + 1
  BY <1>1
<1>3. qs \in [1..(n - 1) -> Velocities \X Velocities]
  BY <1>1, <1>2, PointOf
<1>4. qs[1] = <<0, 0>> /\ qs[n - 1][1] = Top
  BY <1>1, <1>2 DEF Curve
<1>5. ASSUME NEW j \in 1..(n - 1), NEW k \in 1..(n - 1), j < k
      PROVE  qs[j][1] < qs[k][1] /\ qs[j][2] <= qs[k][2]
  <2>1. PICK a \in 1..n : qs[j] = ps[a] /\ a = IF j < i THEN j ELSE j + 1
    BY <1>2
  <2>2. PICK b \in 1..n : qs[k] = ps[b] /\ b = IF k < i THEN k ELSE k + 1
    BY <1>2
  <2>3. a < b
    BY <1>1, <1>5, <2>1, <2>2
  <2> QED
    BY <2>1, <2>2, <2>3 DEF Curve
<1> QED
  BY <1>1, <1>3, <1>4, <1>5 DEF Curve

LEMMA PointMoved ==
    ASSUME NEW ps, NEW n, Curve(ps, n), NEW i \in 2..n,
           NEW p \in Velocities \X Velocities,
           ps[i - 1][1] < p[1], ps[i - 1][2] <= p[2],
           i = n => p[1] = Top,
           i < n => p[1] < ps[i + 1][1] /\ p[2] <= ps[i + 1][2]
    PROVE  Curve([ps EXCEPT ![i] = p], n)
<1> DEFINE qs == [ps EXCEPT ![i] = p]
<1>1. /\ n \in Nat /\ n >= 2 /\ i - 1 \in 1..n /\ i \in 1..n /\ n \in 2..MaxPoints
      /\ p[1] \in Int /\ p[2] \in Int
  BY CurveEnds, TopAssumption DEF Velocities
<1>2. /\ qs \in [1..n -> Velocities \X Velocities]
      /\ \A k \in 1..n : qs[k] = IF k = i THEN p ELSE ps[k]
  BY <1>1 DEF Curve
<1> HIDE DEF qs
<1>3. \A a, b \in 1..n : a < b => ps[a][1] < ps[b][1] /\ ps[a][2] <= ps[b][2]
  BY DEF Curve
<1>4. ASSUME NEW a \in 1..n PROVE ps[a][1] \in Int /\ ps[a][2] \in Int
  BY PointOf, CurveEnds
<1>5. ASSUME NEW a \in 1..n, a < i PROVE ps[a][1] < p[1] /\ ps[a][2] <= p[2]
  <2>1. a = i - 1 \/ a < i - 1
    BY <1>5
  <2> QED
    BY <1>1, <1>3, <1>4, <2>1
<1>6. ASSUME NEW a \in 1..n, a > i PROVE p[1] < ps[a][1] /\ p[2] <= ps[a][2]
  <2>1. i + 1 \in 1..n /\ i < n /\ (a = i + 1 \/ i + 1 < a)
    BY <1>1, <1>6
  <2> QED
    BY <1>1, <1>3, <1>4, <2>1
<1>7. ASSUME NEW j \in 1..n, NEW k \in 1..n, j < k
      PROVE  qs[j][1] < qs[k][1] /\ qs[j][2] <= qs[k][2]
  BY <1>2, <1>3, <1>5, <1>6, <1>7
<1>8. qs[1] = <<0, 0>> /\ qs[n][1] = Top
  BY <1>1, <1>2 DEF Curve
<1> QED
  BY <1>1, <1>2, <1>7, <1>8 DEF Curve, qs

\* The first point not left of a place has a point before it, that is.
LEMMA RightOf ==
    ASSUME Curve(points, Len(points)), NEW x \in Velocities, x > 0
    PROVE  /\ Right(x) \in 2..Len(points)
           /\ points[Right(x)][1] >= x /\ points[Right(x) - 1][1] < x
<1> DEFINE n == Len(points)
           T == {i \in 1..n : points[i][1] >= x}
<1> HIDE DEF n
<1>1. /\ n \in Nat /\ n \in 1..n /\ 1 \in 1..n /\ points[n][1] = Top /\ points[1][1] = 0
      /\ x \in 0..Top /\ Top \in Nat
  BY CurveEnds DEF n, Velocities
<1>2. n \in T
  BY <1>1
<1>3. T \subseteq Nat
  BY <1>1
<1>4. PICK i \in T : \A j \in T : i <= j
  BY <1>2, <1>3, LeastNat
<1>5. ASSUME NEW j \in 1..(i - 1) PROVE points[j][1] < x
  <2>1. j \in 1..n /\ j \notin T
    BY <1>1, <1>4
  <2>2. points[j][1] \in Nat
    BY <2>1, <1>1, PointOf DEF n
  <2> QED
    BY <1>1, <2>1, <2>2
<1>6. /\ Right(x) \in 1..n /\ points[Right(x)][1] >= x
      /\ \A j \in 1..(Right(x) - 1) : points[j][1] < x
  BY <1>4, <1>5 DEF Right, n
<1>7. Right(x) # 1
  BY <1>1, <1>6
<1>8. Right(x) \in 2..n /\ Right(x) - 1 \in 1..(Right(x) - 1)
  BY <1>1, <1>6, <1>7
<1> QED
  BY <1>6, <1>8 DEF n

LEMMA HitPointType ==
    ASSUME Curve(points, Len(points)), NEW at
    PROVE  HitPoint(at) \in 0..Len(points)
<1> DEFINE hits == {i \in 1..Len(points) : Near(points[i], at)}
<1>1. Len(points) \in Nat /\ hits \subseteq Nat
  BY CurveEnds
<1>2. CASE hits = {}
  BY <1>1, <1>2 DEF HitPoint
<1>3. CASE hits # {}
  <2>1. PICK i \in hits : \A j \in hits : i <= j
    BY <1>1, <1>3, LeastNat
  <2>2. HitPoint(at) \in hits
    BY <1>3, <2>1 DEF HitPoint
  <2> QED
    BY <1>1, <2>2
<1> QED
  BY <1>2, <1>3

LEMMA PressStep ==
    ASSUME CanvasInv, NEW at \in Velocities \X Velocities, VelPointerDown(at)
    PROVE  CanvasInv'
<1> DEFINE n == Len(points)
<1>1. Curve(points, n) /\ n \in Nat
  BY CurveEnds DEF CanvasInv
<1>2. outMin' = outMin /\ outMax' = outMax
  BY DEF VelPointerDown
<1>3. CASE PressHit(at)
  <2>1. grabbed' \in Nat /\ points' = points
    BY <1>1, <1>3, HitPointType DEF PressHit
  <2> QED
    BY <1>2, <2>1 DEF CanvasInv
<1>4. CASE PressMiss(at)
  <2> DEFINE i == Right(at[1])
             p == <<at[1], Between(at[2], points[i - 1][2], points[i][2])>>
  <2>1. at[1] \in Velocities /\ at[1] > 0 /\ at[2] \in Int
    BY <1>4, TopAssumption DEF PressMiss, Free, Velocities
  <2>2. i \in 2..n /\ points[i][1] >= at[1] /\ points[i - 1][1] < at[1]
    BY <1>1, <2>1, RightOf
  <2> HIDE DEF i
  <2>3. i - 1 \in 1..n /\ i \in 1..n /\ i - 1 < i
    BY <1>1, <2>2
  <2>4. /\ points[i - 1][2] \in 0..Top /\ points[i][2] \in 0..Top
        /\ points[i][1] \in 0..Top
    BY <1>1, <2>3, PointOf
  <2>5. points[i - 1][2] <= points[i][2]
    BY <1>1, <2>3 DEF Curve
  <2>6. Between(at[2], points[i - 1][2], points[i][2]) \in points[i - 1][2]..points[i][2]
    BY <2>1, <2>4, <2>5, TopAssumption DEF Between
  <2>7. points[i][1] # at[1]
    BY <1>4, <2>3 DEF PressMiss, Free
  <2>8. /\ p \in Velocities \X Velocities /\ points[i - 1][1] < p[1] /\ p[1] < points[i][1]
        /\ points[i - 1][2] <= p[2] /\ p[2] <= points[i][2]
    <3>1. /\ at[1] \in Velocities /\ points[i - 1][1] < at[1]
          /\ at[1] < points[i][1]
      BY <2>1, <2>2, <2>4, <2>7, TopAssumption DEF Velocities
    <3> DEFINE y == Between(at[2], points[i - 1][2], points[i][2])
    <3>2. y \in points[i - 1][2]..points[i][2]
      BY <2>6
    <3> HIDE DEF y
    <3>3. y \in Velocities /\ points[i - 1][2] <= y /\ y <= points[i][2]
      BY <2>4, <3>2, TopAssumption DEF Velocities
    <3>4. p = <<at[1], y>>
      BY DEF y
    <3> QED
      BY <3>1, <3>3, <3>4
  <2> HIDE DEF p
  <2>9. points' = Insert(i, p) /\ grabbed' = i /\ n < MaxPoints
    BY <1>4 DEF PressMiss, i, p
  <2>10. Curve(points', n + 1)
    BY <1>1, <2>2, <2>8, <2>9, PointPut DEF Insert
  <2> QED
    BY <1>1, <1>2, <2>2, <2>9, <2>10, CurveLength DEF CanvasInv
<1> QED
  BY <1>3, <1>4 DEF VelPointerDown

LEMMA Squeezed ==
    ASSUME NEW v \in Int, NEW a \in Int, NEW b \in Int, NEW c \in Int, a < b, b < c
    PROVE  Between(v, a + 1, c - 1) \in (a + 1)..(c - 1)
  BY DEF Between

LEMMA PointDragged ==
    ASSUME Curve(points, Len(points)), NEW i \in 2..Len(points),
           NEW at \in Velocities \X Velocities
    PROVE  Curve([points EXCEPT ![i] = MoveTo(i, at)], Len(points))
<1> DEFINE n == Len(points)
           p == MoveTo(i, at)
           l == points[i - 1]
           m == points[i]
<1>1. Curve(points, n) /\ n \in Nat /\ i \in 2..n /\ Top \in Nat /\ points[n][1] = Top
  BY CurveEnds
<1>2. at[1] \in 0..Top /\ at[2] \in 0..Top
  BY DEF Velocities
<1> HIDE DEF n
<1>3. i - 1 \in 1..n /\ i \in 1..n /\ i - 1 < i /\ n \in 1..n
  BY <1>1
<1>4. /\ l[1] \in 0..Top /\ l[2] \in 0..Top /\ m[1] \in 0..Top /\ m[2] \in 0..Top
      /\ l[1] < m[1] /\ l[2] <= m[2]
  BY <1>1, <1>3, PointOf DEF Curve
<1> HIDE DEF l, m
<1>5. CASE i = n
  <2>1. Between(at[2], l[2], Top) \in l[2]..Top
    <3>1. l[2] \in Int /\ Top \in Int /\ l[2] <= Top /\ at[2] \in Int
      BY <1>1, <1>2, <1>4
    <3> QED
      BY <3>1, BetweenBounds
  <2>2. p = <<Top, Between(at[2], l[2], Top)>> /\ m[1] = Top
    BY <1>1, <1>5 DEF MoveTo, l, m, n
  <2> HIDE DEF p
  <2>3. /\ p \in Velocities \X Velocities /\ l[1] < p[1] /\ l[2] <= p[2]
        /\ p[1] = Top
    BY <1>1, <1>4, <2>1, <2>2 DEF Velocities
  <2>4. Curve([points EXCEPT ![i] = p], n)
    BY <1>1, <1>5, <2>3, PointMoved DEF l
  <2> QED
    BY <2>4 DEF p, n
<1>6. CASE i < n
  <2> DEFINE r == points[i + 1]
  <2>1. i + 1 \in 1..n /\ i < i + 1
    BY <1>1, <1>6
  <2>2. r[1] \in 0..Top /\ r[2] \in 0..Top /\ m[1] < r[1] /\ m[2] <= r[2]
    BY <1>1, <1>3, <2>1, PointOf DEF Curve, m
  <2> DEFINE px == Between(at[1], l[1] + 1, r[1] - 1)
             py == Between(at[2], l[2], r[2])
  <2>3. p = <<px, py>>
    BY <1>1, <1>6 DEF MoveTo, l, n
  <2> HIDE DEF r, p
  <2>4. px \in (l[1] + 1)..(r[1] - 1)
    <3>1. /\ l[1] \in Int /\ m[1] \in Int /\ r[1] \in Int /\ at[1] \in Int
          /\ l[1] < m[1] /\ m[1] < r[1]
      BY <1>1, <1>2, <1>4, <2>2
    <3> QED
      BY <3>1, Squeezed
  <2>5. py \in l[2]..r[2]
    <3>1. l[2] \in Int /\ r[2] \in Int /\ l[2] <= r[2] /\ at[2] \in Int
      BY <1>1, <1>2, <1>4, <2>2
    <3> QED
      BY <3>1, BetweenBounds
  <2> HIDE DEF px, py
  <2>6. /\ p \in Velocities \X Velocities /\ l[1] < p[1] /\ l[2] <= p[2]
        /\ p[1] < r[1] /\ p[2] <= r[2]
    <3>0. l[1] \in 0..Top /\ r[1] \in 0..Top /\ Top \in Int
      BY <1>1, <1>4, <2>2, TopAssumption
    <3>1. px \in 0..Top /\ l[1] < px /\ px < r[1]
      BY <2>4, <3>0
    <3>2. py \in 0..Top /\ l[2] <= py /\ py <= r[2]
      BY <1>1, <1>4, <2>2, <2>5
    <3> QED
      BY <2>3, <3>1, <3>2 DEF Velocities
  <2>7. i # n
    BY <1>1, <1>6
  <2>8. Curve([points EXCEPT ![i] = p], n)
    BY <1>1, <2>6, <2>7, PointMoved DEF l, r
  <2> QED
    BY <2>8 DEF p, n
<1> QED
  BY <1>1, <1>5, <1>6 DEF n

LEMMA DragStep ==
    ASSUME CanvasInv, NEW at \in Velocities \X Velocities, VelPointerMove(at)
    PROVE  CanvasInv'
<1>1. Curve(points, Len(points)) /\ Len(points) \in Nat /\ grabbed \in 2..Len(points)
  BY CurveEnds DEF CanvasInv, VelPointerMove
<1>2. Curve(points', Len(points))
  BY <1>1, PointDragged DEF VelPointerMove
<1> QED
  BY <1>2, CurveLength DEF CanvasInv, VelPointerMove

LEMMA RemoveStep ==
    ASSUME CanvasInv, NEW at, VelDoubleClick(at)
    PROVE  CanvasInv'
<1> DEFINE n == Len(points)
           i == HitPoint(at)
<1>1. Curve(points, n) /\ n \in Nat /\ i \in 2..(n - 1)
  BY CurveEnds, HitPointType DEF CanvasInv, VelDoubleClick
<1>2. Curve(points', n - 1)
  BY <1>1, PointGone DEF VelDoubleClick, Remove
<1> QED
  BY <1>2, CurveLength DEF CanvasInv, VelDoubleClick

LEMMA CanvasStep == CanvasInv /\ [VelNext]_velVars => CanvasInv'
<1> SUFFICES ASSUME CanvasInv, [VelNext]_velVars PROVE CanvasInv'
  OBVIOUS
<1> USE DEF canvas
<1>1. ASSUME points' = points, grabbed' \in {0, grabbed},
             outMin' \in {0, 1, Top}, outMax' \in {0, 1, Top}
      PROVE  CanvasInv'
  BY <1>1 DEF CanvasInv
<1>2. ASSUME UNCHANGED canvas PROVE CanvasInv'
  BY <1>2 DEF CanvasInv
<1>3. CASE SetModeBoth \/ VelPointerUp \/ \E name \in Presets \cup {"custom"} : PickPreset(name)
  BY <1>1, <1>3 DEF SetModeBoth, VelPointerUp, PickPreset, CanvasInv
<1>4. ASSUME NEW v \in {0, 1, Top}, OnClamp(v) PROVE CanvasInv'
  BY <1>1, <1>4 DEF OnClamp, CanvasInv
<1>5. CASE \/ SendCurve \/ HearCurve
           \/ \E b \in asked : TakeCurve(b) \/ CurveFails(b)
           \/ \E b \in answers : Answered(b)
           \/ \E name \in Presets : PatchResolves(name)
  BY <1>2, <1>5 DEF SendCurve, HearCurve, TakeCurve, CurveFails, Answered, PatchResolves
<1>6. CASE UNCHANGED velVars
  BY <1>2, <1>6 DEF velVars
<1> QED
  BY <1>3, <1>4, <1>5, <1>6, PressStep, DragStep, RemoveStep DEF VelNext

\* The segment a velocity lies in, and how high the drawn line is there.
OnSegment(i, v) ==
    i \in 2..Len(points) /\ points[i - 1][1] < v /\ v <= points[i][1]

Height(i, v) ==
    points[i - 1][2] + Rise(points[i][1] - points[i - 1][1],
                            points[i][2] - points[i - 1][2], v - points[i - 1][1])

Clamped(out) ==
    LET floored == IF out < Floor THEN Floor ELSE out
        capped == IF floored > Ceiling THEN Ceiling ELSE floored
    IN  IF capped < 1 THEN 1 ELSE capped

LEMMA SomeSegment ==
    ASSUME Curve(points, Len(points)), NEW v \in 1..Top
    PROVE  \E i : OnSegment(i, v)
<1>1. v \in Velocities /\ v > 0
  BY TopAssumption DEF Velocities
<1> DEFINE i == Right(v)
<1>2. i \in 2..Len(points) /\ points[i][1] >= v /\ points[i - 1][1] < v
  BY <1>1, RightOf
<1> HIDE DEF i
<1>3. points[i][1] \in Int
  BY <1>2, CurveEnds, PointOf
<1> QED
  BY <1>2, <1>3, TopAssumption DEF OnSegment

LEMMA MappedHeight ==
    ASSUME Curve(points, Len(points)), NEW v \in 1..Top
    PROVE  \E i : OnSegment(i, v) /\ VelMap(v) = Clamped(Height(i, v))
<1> DEFINE i == CHOOSE j \in 2..Len(points) : points[j - 1][1] < v /\ v <= points[j][1]
<1>1. OnSegment(i, v)
  BY SomeSegment DEF OnSegment
<1>2. v # 0
  BY TopAssumption
<1>3. VelMap(v) = Clamped(Height(i, v))
  BY <1>2 DEF VelMap, Clamped, Height, Rise
<1> QED
  BY <1>1, <1>3

LEMMA SegmentRise ==
    ASSUME NEW x \in Nat, NEW y \in Nat, NEW x1 \in Nat, NEW y1 \in Nat,
           x < x1, y <= y1, NEW s \in Int, NEW t \in Int, x < s, s <= t, t <= x1
    PROVE  /\ y + Rise(x1 - x, y1 - y, s - x) \in y..y1
           /\ y + Rise(x1 - x, y1 - y, t - x) \in y..y1
           /\ y + Rise(x1 - x, y1 - y, s - x) <= y + Rise(x1 - x, y1 - y, t - x)
<1> DEFINE dx == x1 - x
           dy == y1 - y
<1>1. dx \in Nat \ {0} /\ dy \in Nat /\ s - x \in 0..dx /\ t - x \in (s - x)..dx
  OBVIOUS
<1> HIDE DEF dx, dy
<1> DEFINE ra == Rise(dx, dy, s - x)
           rb == Rise(dx, dy, t - x)
<1>2. ra \in 0..dy /\ rb \in 0..dy /\ ra <= rb
  BY <1>1, RiseOrder
<1> HIDE DEF ra, rb
<1>3. y + ra \in y..y1 /\ y + rb \in y..y1 /\ y + ra <= y + rb
  BY <1>1, <1>2 DEF dx, dy
<1> QED
  BY <1>3 DEF dx, dy, ra, rb

LEMMA HeightOrder ==
    ASSUME Curve(points, Len(points)), NEW v \in 1..Top, NEW w \in v..Top,
           NEW i, OnSegment(i, v), NEW j, OnSegment(j, w)
    PROVE  /\ Height(i, v) \in Int /\ Height(j, w) \in Int
           /\ Height(i, v) <= Height(j, w)
<1> DEFINE n == Len(points)
<1>1. n \in Nat /\ Top \in Nat /\ v \in Int /\ w \in Int /\ v <= w
  BY CurveEnds
<1>2. /\ i \in 2..n /\ i - 1 \in 1..n /\ i \in 1..n /\ i - 1 < i
      /\ j \in 2..n /\ j - 1 \in 1..n /\ j \in 1..n /\ j - 1 < j
  BY <1>1 DEF OnSegment
<1>3. \A a \in 1..n : points[a][1] \in Nat /\ points[a][2] \in Nat
  BY <1>1, PointOf
<1>4. \A a, b \in 1..n : a < b => points[a][1] < points[b][1] /\ points[a][2] <= points[b][2]
  BY DEF Curve
<1> DEFINE X(a) == points[a][1]
           Y(a) == points[a][2]
<1>5. /\ X(i - 1) \in Nat /\ X(i) \in Nat /\ Y(i - 1) \in Nat /\ Y(i) \in Nat
      /\ X(i - 1) < X(i) /\ Y(i - 1) <= Y(i) /\ X(i - 1) < v /\ v <= X(i)
      /\ X(j - 1) \in Nat /\ X(j) \in Nat /\ Y(j - 1) \in Nat /\ Y(j) \in Nat
      /\ X(j - 1) < X(j) /\ Y(j - 1) <= Y(j) /\ X(j - 1) < w /\ w <= X(j)
  BY <1>2, <1>3, <1>4 DEF OnSegment
<1> DEFINE hi == Y(i - 1) + Rise(X(i) - X(i - 1), Y(i) - Y(i - 1), v - X(i - 1))
           hj == Y(j - 1) + Rise(X(j) - X(j - 1), Y(j) - Y(j - 1), w - X(j - 1))
<1>6. Height(i, v) = hi /\ Height(j, w) = hj
  BY DEF Height
<1> HIDE DEF n, X, Y
<1>7. hi \in Y(i - 1)..Y(i) /\ hj \in Y(j - 1)..Y(j)
  <2>1. v <= v /\ w <= w
    BY <1>1
  <2> QED
    BY <1>1, <1>5, <2>1, SegmentRise
<1>8. CASE i = j
  <2>1. w <= X(i) /\ X(i - 1) < v
    BY <1>5, <1>8
  <2>2. hi <= hj
    BY <1>1, <1>5, <1>8, <2>1, SegmentRise
  <2> QED
    BY <1>5, <1>6, <1>7, <2>2
<1>9. CASE i < j
  <2>1. Y(i) <= Y(j - 1)
    <3>1. i = j - 1 \/ i < j - 1
      BY <1>2, <1>9
    <3> QED
      BY <1>2, <1>4, <1>5, <3>1 DEF Y
  <2> HIDE DEF hi, hj
  <2> QED
    BY <1>5, <1>6, <1>7, <2>1
<1>10. CASE j < i
  <2>1. X(j) <= X(i - 1)
    <3>1. CASE j = i - 1
      BY <1>5, <3>1
    <3>2. CASE j < i - 1
      <4>1. X(j) < X(i - 1)
        BY <1>2, <1>4, <3>2 DEF X
      <4> QED
        BY <1>5, <4>1
    <3> QED
      BY <1>2, <1>10, <3>1, <3>2
  <2> QED
    BY <1>1, <1>5, <2>1
<1> QED
  BY <1>2, <1>5, <1>6, <1>7, <1>8, <1>9, <1>10

LEMMA ClampOrder ==
    ASSUME outMin \in {0, 1, Top}, outMax \in {0, 1, Top},
           NEW a \in Int, NEW b \in Int, a <= b
    PROVE  1 <= Clamped(b) /\ Clamped(a) <= Clamped(b)
  BY TopAssumption DEF Clamped, Floor, Ceiling

\* Whatever is pressed, dragged and removed, the staged points are a curve the
\* daemon accepts and the curve drawn from them rises with the velocity, for
\* any number of velocities, points and edits and any reach of a press.
THEOREM CurveStaysAcceptable == VelSpec => []CurveIsAcceptable
<1>1. CanvasInv => CurveIsAcceptable
  <2> SUFFICES ASSUME CanvasInv PROVE CurveIsAcceptable
    OBVIOUS
  <2> DEFINE drawn == [v \in Velocities |-> VelMap(v)]
  <2>1. Curve(points, Len(points)) /\ outMin \in {0, 1, Top} /\ outMax \in {0, 1, Top}
    BY DEF CanvasInv
  <2>2. drawn[0] = 0
    <3>1. 0 \in Velocities /\ VelMap(0) = 0
      BY TopAssumption DEF VelMap, Velocities
    <3> HIDE DEF Velocities, VelMap
    <3> QED
      BY <3>1
  <2>3. ASSUME NEW v \in 1..Top PROVE drawn[v] >= 1 /\ drawn[v - 1] <= drawn[v]
    <3>1. /\ v \in Velocities /\ v - 1 \in Velocities
          /\ drawn[v] = VelMap(v) /\ drawn[v - 1] = VelMap(v - 1)
      BY TopAssumption DEF Velocities
    <3> HIDE DEF drawn
    <3>2. PICK i : OnSegment(i, v) /\ VelMap(v) = Clamped(Height(i, v))
      BY <2>1, MappedHeight
    <3>3. CASE v = 1
      <4>1. VelMap(v - 1) = 0
        BY <3>3 DEF VelMap
      <4>2. v \in v..Top
        BY TopAssumption
      <4>3. 1 <= Clamped(Height(i, v)) /\ Height(i, v) \in Int
        BY <2>1, <3>2, <4>2, HeightOrder, ClampOrder
      <4> QED
        BY <3>1, <3>2, <4>1, <4>3, TopAssumption DEF Clamped, Floor, Ceiling, CanvasInv
    <3>4. CASE v # 1
      <4>1. v - 1 \in 1..Top /\ v \in (v - 1)..Top
        BY <3>4, TopAssumption
      <4>2. PICK j : OnSegment(j, v - 1) /\ VelMap(v - 1) = Clamped(Height(j, v - 1))
        BY <2>1, <4>1, MappedHeight
      <4>3. /\ Height(j, v - 1) \in Int /\ Height(i, v) \in Int
            /\ Height(j, v - 1) <= Height(i, v)
        BY <2>1, <3>2, <4>1, <4>2, HeightOrder
      <4>4. /\ 1 <= Clamped(Height(i, v))
            /\ Clamped(Height(j, v - 1)) <= Clamped(Height(i, v))
        BY <2>1, <4>3, ClampOrder
      <4> QED
        BY <3>1, <3>2, <4>2, <4>4, TopAssumption DEF Clamped, Floor, Ceiling, CanvasInv
    <3> QED
      BY <3>3, <3>4
  <2>4. AcceptablePoints(points)
    BY <2>1, CurveAccepted
  <2> QED
    BY <2>2, <2>3, <2>4 DEF CurveIsAcceptable
<1> QED
  BY <1>1, CanvasInitially, CanvasStep, PTL DEF VelSpec

----------------------------------------------------------------------------
(* Launchkey debugger (MidiDebugger): the sources.                         *)

\* OneSourceHeard but for the list, which is a sequence of the source; connects
\* asked for are numbered up to the newest, which is none of those that wait
\* once the page is closed; and a page whose effects have yet to run is open.
SourceInv ==
    /\ heard # {} => access # 0
    /\ access # 0 => mounted /\ activeSource = "browser"
    /\ sse # "none" => mounted /\ (activeSource = "daemon" \/ dirty)
    /\ replayTimer # <<>> => mounted /\ (activeSource = "offline" \/ dirty)
    /\ token \in Nat /\ asks \subseteq 1..token
    /\ ~mounted => token \notin asks
    /\ dirty => mounted
    /\ history \in Seq({activeSource})

LEMMA ListedOnly ==
    ASSUME NEW S, NEW s \in Seq(S), NEW e \in S, NEW cap \in Nat
    PROVE  LET listed == <<e>> \o s
           IN  (IF Len(listed) > cap THEN SubSeq(listed, 1, cap) ELSE listed) \in Seq(S)
<1> DEFINE listed == <<e>> \o s
<1>1. <<e>> \in Seq(S)
  OBVIOUS
<1>2. listed \in Seq(S)
  BY <1>1, ConcatProperties
<1>3. Len(listed) \in Nat /\ \A i \in 1..Len(listed) : listed[i] \in S
  BY <1>2, ElementOfSeq, LenProperties
<1> HIDE DEF listed
<1>4. ASSUME Len(listed) > cap PROVE SubSeq(listed, 1, cap) \in Seq(S)
  <2>1. \A i \in 1..cap : listed[i] \in S
    BY <1>3, <1>4
  <2> QED
    BY <2>1, SubSeqProperties
<1>5. (IF Len(listed) > cap THEN SubSeq(listed, 1, cap) ELSE listed) \in Seq(S)
  BY <1>2, <1>4
<1> QED
  BY <1>5 DEF listed

\* What is listed when a source is taken in, and what is left by a change of it.
LEMMA IngestLists ==
    ASSUME NEW mode, NEW e, Ingest(mode, e),
           history \in Seq({activeSource})
    PROVE  history' \in Seq({activeSource})
<1>1. CASE mode = activeSource
  <2>1. mode \in {activeSource}
    BY <1>1
  <2>2. history' = LET listed == <<mode>> \o history
                   IN  IF Len(listed) > HistoryCap
                       THEN SubSeq(listed, 1, HistoryCap) ELSE listed
    BY <1>1 DEF Ingest, ShowEvent
  <2> QED
    BY <2>1, <2>2, ListedOnly, CapsAssumption
<1>2. CASE mode # activeSource
  BY <1>2 DEF Ingest, surface
<1> QED
  BY <1>1, <1>2

LEMMA SourceInitially == DebugInit => SourceInv
<1>1. <<>> \in Seq({"browser"})
  OBVIOUS
<1> QED
  BY <1>1 DEF DebugInit, SourceInv

\* Another source, or the same anew, and what goes with it.
LEMMA SourceChosenStep ==
    ASSUME SourceInv, NEW mode, SetSourceMode(mode), mounted' = mounted, mounted,
           sse' = sse, replayTimer' = replayTimer,
           \/ DisconnectBrowser /\ asks' = asks
           \/ /\ token' = token + 1 /\ asks' = asks \cup {token + 1}
              /\ UNCHANGED <<access, heard>> /\ mode = "browser"
    PROVE  SourceInv'
<1>1. history' \in Seq({activeSource'}) /\ dirty' = TRUE /\ activeSource' = mode
  BY DEF SetSourceMode, ResetSurface
<1>2. token' \in Nat /\ asks' \subseteq 1..token'
  <2>1. token \in Nat /\ asks \subseteq 1..token
    BY DEF SourceInv
  <2>2. token' = token + 1 /\ asks' \subseteq asks \cup {token + 1}
    BY DEF DisconnectBrowser
  <2> QED
    BY <2>1, <2>2
<1>3. \/ heard' = {} /\ access' = 0
      \/ heard' = heard /\ access' = access /\ mode = "browser"
  BY DEF DisconnectBrowser
<1> QED
  BY <1>1, <1>2, <1>3 DEF SourceInv

LEMMA ChooseStep ==
    ASSUME SourceInv,
           \/ ConnectBrowser \/ PlayPause
           \/ \E mode \in {"daemon", "offline"} : ChooseSource(mode)
           \/ \E f \in imports : ImportDone(f)
    PROVE  SourceInv'
<1>1. CASE ConnectBrowser
  BY <1>1, SourceChosenStep DEF ConnectBrowser, browserIn, daemonIn
<1>2. CASE PlayPause
  BY <1>2, SourceChosenStep DEF PlayPause, daemonIn
<1>3. ASSUME NEW mode \in {"daemon", "offline"}, ChooseSource(mode) PROVE SourceInv'
  BY <1>3, SourceChosenStep DEF ChooseSource, daemonIn
<1>4. ASSUME NEW f \in imports, ImportDone(f) PROVE SourceInv'
  BY <1>4, SourceChosenStep DEF ImportDone, daemonIn
<1> QED
  BY <1>1, <1>2, <1>3, <1>4

\* Ports, permissions and what the keyboard sends.
LEMMA BrowserStep ==
    ASSUME SourceInv,
           \/ \E c \in Played : Press(c) \/ Release(c) \/ Squeeze(c)
           \/ \E p \in {"DAW", "MIDI"} : PortChanges(p)
           \/ StateChange \/ \E t \in asks : Granted(t) \/ Refused(t)
    PROVE  SourceInv'
<1> USE DEF chosen, surface, replay, daemonIn, browserIn, keyboard
<1>1. ASSUME NEW c \in Played, Press(c) \/ Release(c) \/ Squeeze(c) PROVE SourceInv'
  BY <1>1 DEF Press, Release, Squeeze, KeyboardStep, SourceInv
<1>2. ASSUME NEW p \in {"DAW", "MIDI"}, PortChanges(p) PROVE SourceInv'
  BY <1>2 DEF PortChanges, SourceInv
<1>3. CASE StateChange
  BY <1>3 DEF StateChange, Refresh, SourceInv
<1>4. ASSUME NEW t \in asks, Granted(t) PROVE SourceInv'
  <2>1. /\ mounted' = mounted /\ activeSource' = activeSource /\ token' = token
        /\ sse' = sse /\ replayTimer' = replayTimer /\ dirty' = dirty
        /\ history' = history /\ asks' \subseteq asks
    BY <1>4 DEF Granted
  <2>2. \/ t = token /\ activeSource = "browser" /\ access' = t /\ Refresh
        \/ access' = access /\ heard' = heard
    BY <1>4 DEF Granted
  <2>3. asks' \subseteq 1..token' /\ (~mounted' => token' \notin asks')
    BY <2>1 DEF SourceInv
  <2>4. t = token => mounted
    BY DEF SourceInv
  <2>5. heard' # {} => access' # 0
    <3>1. t # 0
      BY DEF SourceInv
    <3> QED
      BY <2>2, <3>1 DEF SourceInv, Refresh
  <2>6. access' # 0 => mounted' /\ activeSource' = "browser"
    BY <2>1, <2>2, <2>4 DEF SourceInv
  <2> QED
    BY <2>1, <2>3, <2>5, <2>6 DEF SourceInv
<1>5. ASSUME NEW t \in asks, Refused(t) PROVE SourceInv'
  BY <1>5 DEF Refused, SourceInv
<1> QED
  BY <1>1, <1>2, <1>3, <1>4, <1>5

\* What comes in from each of the sources.
LEMMA IncomingStep ==
    ASSUME SourceInv, BrowserMessage \/ DaemonEvent \/ Step \/ ReplayTick
    PROVE  SourceInv'
<1> USE DEF chosen, browserIn, daemonIn, replay
<1>1. history' \in Seq({activeSource})
  <2>1. CASE BrowserMessage
    BY <2>1, IngestLists DEF BrowserMessage, Hear, SourceInv, surface
  <2>2. CASE DaemonEvent
    BY <2>2, IngestLists DEF DaemonEvent, Hear, SourceInv
  <2>3. CASE Step
    BY <2>3, IngestLists DEF Step, SourceInv
  <2>4. CASE ReplayTick
    BY <2>4, IngestLists DEF ReplayTick, SourceInv
  <2> QED
    BY <2>1, <2>2, <2>3, <2>4
<1>2. CASE BrowserMessage
  BY <1>1, <1>2 DEF BrowserMessage, SourceInv
<1>3. CASE DaemonEvent
  BY <1>1, <1>3 DEF DaemonEvent, SourceInv
<1>4. CASE Step
  BY <1>1, <1>4 DEF Step, SourceInv
<1>5. CASE ReplayTick
  BY <1>1, <1>5 DEF ReplayTick, SourceInv
<1> QED
  BY <1>2, <1>3, <1>4, <1>5

LEMMA PageStep ==
    ASSUME SourceInv,
           \/ SseOpens \/ SseFails \/ SseRetry \/ Unmount \/ Effects
           \/ \E f \in Files : ImportReport(f)
           \/ \E f \in imports : ImportFails(f)
    PROVE  SourceInv'
<1> USE DEF chosen, surface, replay, daemonIn, browserIn, keyboard, SourceInv
<1>1. CASE SseOpens \/ SseFails \/ SseRetry
  BY <1>1 DEF SseOpens, SseFails, SseRetry
<1>2. CASE Unmount
  <2>1. token' \in Nat /\ asks' = asks /\ token' \notin asks /\ asks \subseteq 1..token'
    BY <1>2 DEF Unmount, DisconnectBrowser
  <2> QED
    BY <1>2, <2>1 DEF Unmount, DisconnectBrowser
<1>3. CASE Effects
  BY <1>3 DEF Effects
<1>4. ASSUME NEW f \in Files, ImportReport(f) PROVE SourceInv'
  BY <1>4 DEF ImportReport
<1>5. ASSUME NEW f \in imports, ImportFails(f) PROVE SourceInv'
  BY <1>5 DEF ImportFails
<1> QED
  BY <1>1, <1>2, <1>3, <1>4, <1>5

LEMMA SourceStep == SourceInv /\ [DebugNext]_debugVars => SourceInv'
<1> SUFFICES ASSUME SourceInv, [DebugNext]_debugVars PROVE SourceInv'
  OBVIOUS
<1>1. CASE UNCHANGED debugVars
  BY <1>1 DEF debugVars, chosen, browserIn, daemonIn, replay, surface, SourceInv
<1> QED
  BY <1>1, ChooseStep, BrowserStep, IncomingStep, PageStep DEF DebugNext

\* The page listens to the source chosen and to no other, however late the
\* permissions, files and effects of the choices before, for any number of
\* controls, files and choices.
THEOREM OneSourceAtATime == DebugSpec => []OneSourceHeard
<1>1. SourceInv => OneSourceHeard
  <2>1. ASSUME history \in Seq({activeSource})
        PROVE  \A i \in DOMAIN history : history[i] = activeSource
    BY <2>1, ElementOfSeq, LenProperties
  <2> QED
    BY <2>1 DEF SourceInv, OneSourceHeard
<1> QED
  BY <1>1, SourceInitially, SourceStep, PTL DEF DebugSpec

----------------------------------------------------------------------------
(* Launchkey debugger: what is shown as held.                              *)

\* The messages of a control; of those that are no pressure the last one says
\* whether the control is down.
MessagesOf(c) ==
    {OnMessage(c)} \cup OffMessages(c) \cup (IF IsPad(c) THEN {SqueezeMessage(c)} ELSE {})

Of(q, c) == {i \in DOMAIN q : q[i].of = c}
Words(q, c) == {i \in Of(q, c) : q[i].msg.family # 160}
Squeezes(q, c) == {i \in Of(q, c) : q[i].msg.family = 160}

\* With pressed down on the keyboard, and hard those pressed harder: what is
\* marked as the last known of a control is followed by such only, the last
\* word on it is true, and pressure follows exactly if there was any.
LastWord(q, c, pressed, hard) ==
    /\ \A i, j \in Of(q, c) : (i < j /\ q[i].last) => q[j].last
    /\ \A i \in Words(q, c) : (q[i].last /\ \A j \in Words(q, c) : j <= i) =>
          /\ (q[i].msg = OnMessage(c)) <=> c \in pressed
          /\ c \in hard => \E j \in Squeezes(q, c) : i < j
    /\ \A i \in Squeezes(q, c) : (q[i].last /\ \A j \in Words(q, c) : j < i) => c \in hard

\* Nothing was missed since, or a word is to come after all that was.
Fresh(q, c) ==
    \/ \A i \in Of(q, c) : q[i].last
    \/ \E i \in Words(q, c) : q[i].last

\* A message to a handler that is gone will tell the page that it missed it.
Doomed(q, c) == \E i \in Of(q, c) : q[i].via # access

\* With no word on a control to come, the surface is right about it, but for
\* pressure still to come.
SurfaceRight(q, c) ==
    Words(q, c) = {} =>
        /\ c \in heldDown <=> c \in down
        /\ c \in squeezed <=> ((c \in heldDown /\ c \in pressure) \/ Squeezes(q, c) # {})

ControlHeard(c) ==
    /\ LastWord(air, c, down, squeezed)
    /\ LastWord(rawEvents, c, down, squeezed)
    /\ (\E i \in Words(air, c) : air[i].last) => Fresh(rawEvents, c)
    /\ c \notin unsure =>
          /\ Fresh(rawEvents, c)
          /\ Fresh(air, c) \/ Doomed(air, c)
          /\ (mounted /\ activeSource = "browser" /\ ~Doomed(air, c)) =>
                SurfaceRight(air, c)
          /\ (mounted /\ activeSource = "daemon") => SurfaceRight(rawEvents, c)

\* A message is of an access that was granted, and is not granted again; what
\* is on the daemon's stream is there while it is open.
QueuesTyped ==
    /\ IsSeq(air) /\ IsSeq(rawEvents)
    /\ \A i \in DOMAIN air :
          /\ air[i] \in [of : Played, msg : MessagesOf(air[i].of), last : BOOLEAN,
                         via : 1..token]
          /\ air[i].via \notin asks
    /\ \A i \in DOMAIN rawEvents :
          rawEvents[i] \in [of : Played, msg : MessagesOf(rawEvents[i].of), last : BOOLEAN]
    /\ access \in 0..token /\ access \notin asks
    /\ sse # "open" => rawEvents = <<>>
    /\ activeSource \in {"browser", "daemon", "offline"}
    /\ squeezed \subseteq down
    /\ \A c \in squeezed \cup pressure : IsPad(c)

HeardInv == SourceInv /\ QueuesTyped /\ \A c \in Played : ControlHeard(c)

\* The browser's bytes and the daemon's events are read alike.
LEMMA Decoded ==
    ASSUME NEW m, m.port \in {"DAW", "MIDI"}, m.family \in {144, 128, 160, 176},
           NEW e \in {decodeMessage(m), decodeBackendRaw(midiRaw(m))}
    PROVE  /\ e.port = m.port /\ e.channel = m.channel + 1 /\ e.number = m.number
           /\ e.kind = IF m.family = 144 /\ m.value = 0 THEN "note-off"
                       ELSE FamilyKind(m.family)
           /\ e.kind # "note-off" => e.value = m.value
           /\ e.control = controlForMessage(e)
<1> DEFINE kind == IF m.family = 144 /\ m.value = 0 THEN "note-off" ELSE FamilyKind(m.family)
           Read(value) == [port |-> m.port, kind |-> kind, channel |-> m.channel + 1,
                           number |-> m.number, value |-> value, control |-> None]
<1>1. kind \in {"note-on", "note-off", "poly-aftertouch", "cc"}
  BY DEF FamilyKind
<1>2. \E value : e = Named(Read(value)) /\ (kind # "note-off" => value = m.value)
  <2>1. CASE e = decodeMessage(m)
    <3> DEFINE v == CASE kind = "note-off" -> 0
                      [] kind = "pitch-bend" -> m.number + 128 * m.value - 8192
                      [] OTHER -> m.value
    <3>1. e = Named(Read(v))
      BY <2>1 DEF decodeMessage
    <3> HIDE DEF kind
    <3>2. kind # "note-off" => v = m.value
      BY <1>1
    <3> HIDE DEF v, Read
    <3> QED
      BY <3>1, <3>2
  <2>2. CASE e = decodeBackendRaw(midiRaw(m))
    <3>1. roleFromDaemon(midiRaw(m).source) = m.port
      BY DEF roleFromDaemon, midiRaw
    <3>2. /\ midiRaw(m).kind = FamilyKind(m.family) /\ midiRaw(m).channel = m.channel
          /\ midiRaw(m).data1 = m.number /\ midiRaw(m).data2 = m.value
      BY DEF midiRaw
    <3>3. (IF midiRaw(m).kind = "note-on" /\ midiRaw(m).data2 = 0 THEN "note-off"
           ELSE midiRaw(m).kind) = kind
      BY <3>2 DEF FamilyKind
    <3>4. midiRaw(m).kind \notin {"aftertouch", "program-change", "pitch-bend"}
      BY <3>2 DEF FamilyKind
    <3>5. e = Named(Read(m.value))
      BY <2>2, <3>1, <3>2, <3>3, <3>4 DEF decodeBackendRaw
    <3> QED
      BY <3>5
  <2> QED
    BY <2>1, <2>2
<1>3. PICK value : e = Named(Read(value)) /\ (kind # "note-off" => value = m.value)
  BY <1>2
<1> DEFINE x == Read(value)
<1>4. /\ x.port = m.port /\ x.channel = m.channel + 1 /\ x.number = m.number
      /\ x.kind = kind /\ x.value = value
  OBVIOUS
<1>5. /\ e.port = x.port /\ e.channel = x.channel /\ e.number = x.number
      /\ e.kind = x.kind /\ e.value = x.value /\ e.control = controlForMessage(x)
  BY <1>3 DEF Named
<1>6. controlForMessage(e) = controlForMessage(x)
  BY <1>5 DEF controlForMessage
<1> QED
  BY <1>3, <1>4, <1>5, <1>6

\* Each message of a control is read as what the keyboard meant by it.
LEMMA MessagesRead ==
    ASSUME NEW c \in Played, NEW m \in MessagesOf(c),
           NEW e \in {decodeMessage(m), decodeBackendRaw(midiRaw(m))}
    PROVE  /\ e.control = c /\ c # None
           /\ m.family = 160 <=> e.kind = "poly-aftertouch"
           /\ m.family = 160 => m # OnMessage(c) /\ IsPad(c)
           /\ (m.family # 160 /\ IsPad(c)) => e.kind \in Notes
           /\ (m.family # 160 /\ m = OnMessage(c)) =>
                 \/ e.kind = "note-on"
                 \/ e.kind = "cc" /\ IsSwitch(c) /\ e.value >= 64
           /\ (m.family # 160 /\ m # OnMessage(c)) =>
                 \/ e.kind = "note-off"
                 \/ e.kind = "cc" /\ e.value = 0 /\ IsSwitch(c)
<1>1. Lookup(featureControls, 63) = <<"shift">>
  BY DEF Lookup, featureControls
<1>2. CASE c = <<"key", 60>>
  <2>1. OnMessage(c) = Message("MIDI", 144, 0, 60, 100) /\ ~IsPad(c) /\ c # None
    BY <1>2 DEF OnMessage, IsPad, None
  <2>2. m \in {Message("MIDI", 144, 0, 60, 100), Message("MIDI", 144, 0, 60, 0),
               Message("MIDI", 128, 0, 60, 100)}
    BY <1>2, <2>1 DEF MessagesOf, OffMessages, Message
  <2>3. /\ m.port = "MIDI" /\ m.channel = 0 /\ m.number = 60
        /\ \/ m.family = 144 /\ m.value = 100 /\ m = OnMessage(c)
           \/ m.family = 144 /\ m.value = 0 /\ m # OnMessage(c)
           \/ m.family = 128 /\ m # OnMessage(c)
    BY <2>1, <2>2 DEF Message
  <2>4. /\ e.port = "MIDI" /\ e.channel = 1 /\ e.number = 60
        /\ e.kind = IF m.family = 144 /\ m.value = 0 THEN "note-off"
                    ELSE FamilyKind(m.family)
        /\ e.control = controlForMessage(e)
    BY <2>3, Decoded
  <2>5. \/ e.kind = "note-on" /\ m.family = 144 /\ m = OnMessage(c)
        \/ e.kind = "note-off" /\ m.family # 160 /\ m # OnMessage(c)
    BY <2>3, <2>4 DEF FamilyKind
  <2>6. controlForMessage(e) = <<"key", 60>>
    BY <2>4, <2>5 DEF controlForMessage, Notes
  <2> QED
    BY <1>2, <2>1, <2>2, <2>3, <2>4, <2>5, <2>6
<1>3. CASE c = <<"pad-top", 1>>
  <2>1. OnMessage(c) = Message("DAW", 144, 0, 96, 100) /\ IsPad(c) /\ c # None
    BY <1>3 DEF OnMessage, IsPad, None
  <2>2. m \in {Message("DAW", 144, 0, 96, 100), Message("DAW", 144, 0, 96, 0),
               Message("DAW", 128, 0, 96, 100), Message("DAW", 160, 0, 96, 100)}
    BY <1>3, <2>1 DEF MessagesOf, OffMessages, SqueezeMessage, Message
  <2>3. /\ m.port = "DAW" /\ m.channel = 0 /\ m.number = 96
        /\ \/ m.family = 144 /\ m.value = 100 /\ m = OnMessage(c)
           \/ m.family = 144 /\ m.value = 0 /\ m # OnMessage(c)
           \/ m.family \in {128, 160} /\ m # OnMessage(c)
    BY <2>1, <2>2 DEF Message
  <2>4. /\ e.port = "DAW" /\ e.channel = 1 /\ e.number = 96
        /\ e.kind = IF m.family = 144 /\ m.value = 0 THEN "note-off"
                    ELSE FamilyKind(m.family)
        /\ e.control = controlForMessage(e)
    BY <2>3, Decoded
  <2>5. \/ e.kind = "note-on" /\ m.family = 144 /\ m = OnMessage(c)
        \/ e.kind = "note-off" /\ m.family # 160 /\ m # OnMessage(c)
        \/ e.kind = "poly-aftertouch" /\ m.family = 160 /\ m # OnMessage(c)
    BY <2>3, <2>4 DEF FamilyKind
  <2>6. controlForMessage(e) = <<"pad-top", 1>>
    BY <2>4, <2>5 DEF controlForMessage, Notes
  <2> QED
    BY <1>3, <2>1, <2>2, <2>3, <2>4, <2>5, <2>6 DEF Notes
<1>4. CASE c = <<"shift">>
  <2>1. /\ OnMessage(c) = Message("DAW", 176, 6, 63, 127) /\ ~IsPad(c) /\ c # None
        /\ IsSwitch(c)
    BY <1>4 DEF OnMessage, IsPad, None, IsSwitch
  <2>2. m \in {Message("DAW", 176, 6, 63, 127), Message("DAW", 176, 6, 63, 0)}
    BY <1>4, <2>1 DEF MessagesOf, OffMessages, Message
  <2>3. /\ m.port = "DAW" /\ m.channel = 6 /\ m.number = 63 /\ m.family = 176
        /\ (m.value = 127 /\ m = OnMessage(c)) \/ (m.value = 0 /\ m # OnMessage(c))
    BY <2>1, <2>2 DEF Message
  <2>4. /\ e.port = "DAW" /\ e.channel = 7 /\ e.number = 63
        /\ e.kind = IF m.family = 144 /\ m.value = 0 THEN "note-off"
                    ELSE FamilyKind(m.family)
        /\ e.kind # "note-off" => e.value = m.value
        /\ e.control = controlForMessage(e)
    BY <2>3, Decoded
  <2>5. e.kind = "cc"
    BY <2>3, <2>4 DEF FamilyKind
  <2>6. controlForMessage(e) = <<"shift">>
    BY <1>1, <2>4, <2>5 DEF controlForMessage, Notes
  <2> QED
    BY <1>4, <2>1, <2>3, <2>4, <2>5, <2>6
<1>5. CASE c = <<"sustain">>
  <2>1. /\ OnMessage(c) = Message("MIDI", 176, 0, 64, 127) /\ ~IsPad(c) /\ c # None
        /\ IsSwitch(c)
    BY <1>5 DEF OnMessage, IsPad, None, IsSwitch
  <2>2. m \in {Message("MIDI", 176, 0, 64, 127), Message("MIDI", 176, 0, 64, 0)}
    BY <1>5, <2>1 DEF MessagesOf, OffMessages, Message
  <2>3. /\ m.port = "MIDI" /\ m.channel = 0 /\ m.number = 64 /\ m.family = 176
        /\ (m.value = 127 /\ m = OnMessage(c)) \/ (m.value = 0 /\ m # OnMessage(c))
    BY <2>1, <2>2 DEF Message
  <2>4. /\ e.port = "MIDI" /\ e.channel = 1 /\ e.number = 64
        /\ e.kind = IF m.family = 144 /\ m.value = 0 THEN "note-off"
                    ELSE FamilyKind(m.family)
        /\ e.kind # "note-off" => e.value = m.value
        /\ e.control = controlForMessage(e)
    BY <2>3, Decoded
  <2>5. e.kind = "cc"
    BY <2>3, <2>4 DEF FamilyKind
  <2>6. controlForMessage(e) = <<"sustain">>
    BY <2>4, <2>5 DEF controlForMessage, Notes
  <2> QED
    BY <1>5, <2>1, <2>3, <2>4, <2>5, <2>6
<1> QED
  BY <1>2, <1>3, <1>4, <1>5, PlayedAssumption DEF AllPlayed

\* What a message does to the surface.
LEMMA MessageShown ==
    ASSUME NEW c \in Played, NEW m \in MessagesOf(c), NEW mode,
           NEW e \in {decodeMessage(m), decodeBackendRaw(midiRaw(m))},
           ShowEvent(mode, e), \A d \in pressure : IsPad(d)
    PROVE  /\ \A d : d # c => /\ d \in heldDown' <=> d \in heldDown
                              /\ d \in pressure' <=> d \in pressure
           /\ m.family = 160 => heldDown' = heldDown /\ c \in pressure'
           /\ m.family # 160 => /\ c \in heldDown' <=> m = OnMessage(c)
                                /\ c \notin pressure'
           /\ \A d \in pressure' : IsPad(d)
<1> DEFINE switched == e.kind = "cc" /\ IsSwitch(c)
           on == e.kind = "note-on" \/ (switched /\ e.value >= 64)
           off == e.kind = "note-off" \/ (switched /\ e.value < 64)
<1>1. e.control = c /\ c # None
  BY MessagesRead
<1>2. /\ heldDown' = IF on THEN heldDown \cup {c}
                     ELSE IF off THEN heldDown \ {c} ELSE heldDown
      /\ pressure' = IF IsPad(c) /\ e.kind = "poly-aftertouch" THEN pressure \cup {c}
                     ELSE IF IsPad(c) /\ e.kind \in Notes THEN pressure \ {c}
                     ELSE pressure
  BY <1>1 DEF ShowEvent
<1>3. \A d : d # c => /\ d \in heldDown' <=> d \in heldDown
                      /\ d \in pressure' <=> d \in pressure
  BY <1>2
<1>4. \A d \in pressure' : IsPad(d)
  BY <1>2
<1>5. CASE m.family = 160
  <2>1. e.kind = "poly-aftertouch" /\ IsPad(c)
    BY <1>5, MessagesRead
  <2> QED
    BY <1>2, <1>3, <1>4, <1>5, <2>1
<1>6. CASE m.family # 160
  <2>1. e.kind # "poly-aftertouch" /\ (IsPad(c) => e.kind \in Notes)
    BY <1>6, MessagesRead
  <2>2. c \notin pressure'
    BY <1>2, <2>1
  <2>3. m = OnMessage(c) => on
    BY <1>6, MessagesRead
  <2>4. m # OnMessage(c) => off /\ ~on
    <3>1. m # OnMessage(c) => \/ e.kind = "note-off"
                              \/ e.kind = "cc" /\ e.value = 0 /\ IsSwitch(c)
      BY <1>6, MessagesRead
    <3> QED
      BY <3>1
  <2>5. c \in heldDown' <=> m = OnMessage(c)
    BY <1>2, <2>3, <2>4
  <2> QED
    BY <1>3, <1>4, <1>6, <2>2, <2>5
<1> QED
  BY <1>5, <1>6

\* A control of which two queues hold the same.
LEMMA SameHeard ==
    ASSUME NEW q, NEW r, NEW c, Of(r, c) = Of(q, c),
           \A i \in Of(q, c) : r[i].msg = q[i].msg /\ (r[i].last <=> q[i].last),
           NEW pressed, NEW hard, NEW pressed2, NEW hard2,
           c \in pressed2 <=> c \in pressed, c \in hard2 <=> c \in hard
    PROVE  /\ Words(r, c) = Words(q, c) /\ Squeezes(r, c) = Squeezes(q, c)
           /\ LastWord(q, c, pressed, hard) => LastWord(r, c, pressed2, hard2)
           /\ Fresh(q, c) => Fresh(r, c)
<1>1. Words(r, c) = Words(q, c) /\ Words(q, c) \subseteq Of(q, c)
  BY DEF Words
<1>2. Squeezes(r, c) = Squeezes(q, c) /\ Squeezes(q, c) \subseteq Of(q, c)
  BY DEF Squeezes
<1>3. Fresh(q, c) => Fresh(r, c)
  BY <1>1 DEF Fresh
<1>4. ASSUME LastWord(q, c, pressed, hard) PROVE LastWord(r, c, pressed2, hard2)
  BY <1>1, <1>2, <1>4 DEF LastWord
<1> QED
  BY <1>1, <1>2, <1>3, <1>4

\* The first message is taken.
LEMMA TakenHeard ==
    ASSUME NEW q, IsSeq(q), q # <<>>, NEW c
    PROVE  LET r == Tail(q) IN
           /\ \A i \in DOMAIN r : i + 1 \in DOMAIN q /\ r[i] = q[i + 1]
           /\ \A i \in Of(r, c) : i + 1 \in Of(q, c)
           /\ \A i \in Of(q, c) : i # 1 => i - 1 \in Of(r, c)
           /\ \A i \in Words(r, c) : i + 1 \in Words(q, c)
           /\ \A i \in Words(q, c) : i # 1 => i - 1 \in Words(r, c)
           /\ \A i \in Squeezes(r, c) : i + 1 \in Squeezes(q, c)
           /\ \A i \in Squeezes(q, c) : i # 1 => i - 1 \in Squeezes(r, c)
           /\ 1 \in DOMAIN q /\ Head(q) = q[1]
           /\ Of(r, c) \subseteq Nat \ {0} /\ Of(q, c) \subseteq Nat \ {0}
<1> DEFINE r == Tail(q)
<1>1. /\ Head(q) = q[1] /\ 1 \in DOMAIN q
      /\ DOMAIN r = 1 .. Len(q) - 1
      /\ \A k \in DOMAIN r : k + 1 \in DOMAIN q /\ r[k] = q[k + 1]
  BY RestOfSeq
<1>2. DOMAIN q = 1 .. Len(q) /\ Len(q) \in Nat
  BY LenProperties DEF IsSeq
<1> HIDE DEF r
<1>3. \A i \in DOMAIN q : i # 1 => i - 1 \in DOMAIN r /\ r[i - 1] = q[i]
  <2> SUFFICES ASSUME NEW i \in DOMAIN q, i # 1
               PROVE  i - 1 \in DOMAIN r /\ r[i - 1] = q[i]
    OBVIOUS
  <2>1. i - 1 \in DOMAIN r /\ (i - 1) + 1 = i
    BY <1>1, <1>2
  <2> QED
    BY <1>1, <2>1
<1>4. DOMAIN r \subseteq Nat \ {0} /\ DOMAIN q \subseteq Nat \ {0}
  BY <1>1, <1>2
<1>5. /\ \A i \in Of(r, c) : i + 1 \in Of(q, c)
      /\ \A i \in Of(q, c) : i # 1 => i - 1 \in Of(r, c)
      /\ Of(r, c) \subseteq Nat \ {0} /\ Of(q, c) \subseteq Nat \ {0}
  BY <1>1, <1>3, <1>4 DEF Of
<1>6. /\ \A i \in Words(r, c) : i + 1 \in Words(q, c)
      /\ \A i \in Words(q, c) : i # 1 => i - 1 \in Words(r, c)
  BY <1>1, <1>3, <1>5 DEF Words, Of
<1>7. /\ \A i \in Squeezes(r, c) : i + 1 \in Squeezes(q, c)
      /\ \A i \in Squeezes(q, c) : i # 1 => i - 1 \in Squeezes(r, c)
  BY <1>1, <1>3, <1>5 DEF Squeezes, Of
<1> QED
  BY <1>1, <1>5, <1>6, <1>7 DEF r

LEMMA TakenLastWord ==
    ASSUME NEW q, IsSeq(q), q # <<>>, NEW c, NEW pressed, NEW hard,
           LastWord(q, c, pressed, hard)
    PROVE  /\ LastWord(Tail(q), c, pressed, hard)
           /\ Fresh(q, c) => Fresh(Tail(q), c)
<1> DEFINE r == Tail(q)
<1>1. /\ \A i \in DOMAIN r : r[i] = q[i + 1]
      /\ Of(r, c) \subseteq Nat \ {0} /\ Of(q, c) \subseteq Nat \ {0}
      /\ Of(r, c) \subseteq DOMAIN r
      /\ Words(r, c) \subseteq Of(r, c) /\ Squeezes(r, c) \subseteq Of(r, c)
      /\ Words(q, c) \subseteq Of(q, c) /\ Squeezes(q, c) \subseteq Of(q, c)
  <2>1. /\ \A i \in DOMAIN r : r[i] = q[i + 1]
        /\ Of(r, c) \subseteq Nat \ {0} /\ Of(q, c) \subseteq Nat \ {0}
    BY TakenHeard
  <2>2. /\ Of(r, c) \subseteq DOMAIN r
        /\ Words(r, c) \subseteq Of(r, c) /\ Squeezes(r, c) \subseteq Of(r, c)
        /\ Words(q, c) \subseteq Of(q, c) /\ Squeezes(q, c) \subseteq Of(q, c)
    BY DEF Of, Words, Squeezes
  <2> QED
    BY <2>1, <2>2
<1>2. /\ \A i \in Of(r, c) : i + 1 \in Of(q, c)
      /\ \A i \in Of(q, c) : i # 1 => i - 1 \in Of(r, c)
      /\ \A i \in Words(r, c) : i + 1 \in Words(q, c)
      /\ \A i \in Words(q, c) : i # 1 => i - 1 \in Words(r, c)
      /\ \A i \in Squeezes(r, c) : i + 1 \in Squeezes(q, c)
      /\ \A i \in Squeezes(q, c) : i # 1 => i - 1 \in Squeezes(r, c)
  BY TakenHeard
<1> HIDE DEF r
<1>3. \A i, j \in Of(r, c) : (i < j /\ r[i].last) => r[j].last
  <2> SUFFICES ASSUME NEW i \in Of(r, c), NEW j \in Of(r, c), i < j, r[i].last
               PROVE  r[j].last
    OBVIOUS
  <2>1. i + 1 \in Of(q, c) /\ j + 1 \in Of(q, c) /\ i + 1 < j + 1
    BY <1>1, <1>2
  <2>2. r[i] = q[i + 1] /\ r[j] = q[j + 1]
    BY <1>1
  <2> QED
    BY <2>1, <2>2 DEF LastWord
<1>4. ASSUME NEW i \in Words(r, c), r[i].last, \A j \in Words(r, c) : j <= i
      PROVE  /\ (r[i].msg = OnMessage(c)) <=> c \in pressed
             /\ c \in hard => \E j \in Squeezes(r, c) : i < j
  <2>1. i + 1 \in Words(q, c) /\ r[i] = q[i + 1] /\ i \in Nat
    BY <1>1, <1>2
  <2>2. \A j \in Words(q, c) : j <= i + 1
    <3> SUFFICES ASSUME NEW j \in Words(q, c), j # 1 PROVE j <= i + 1
      BY <2>1
    <3>1. j - 1 \in Words(r, c) /\ j \in Nat
      BY <1>1, <1>2
    <3> QED
      BY <1>4, <2>1, <3>1
  <2>3. /\ (q[i + 1].msg = OnMessage(c)) <=> c \in pressed
        /\ c \in hard => \E j \in Squeezes(q, c) : i + 1 < j
    BY <1>4, <2>1, <2>2 DEF LastWord
  <2>4. ASSUME c \in hard PROVE \E j \in Squeezes(r, c) : i < j
    <3>1. PICK j \in Squeezes(q, c) : i + 1 < j
      BY <2>3, <2>4
    <3>2. j - 1 \in Squeezes(r, c) /\ i < j - 1
      BY <1>1, <1>2, <2>1, <3>1
    <3> QED
      BY <3>2
  <2> QED
    BY <2>1, <2>3, <2>4
<1>5. ASSUME NEW i \in Squeezes(r, c), r[i].last, \A j \in Words(r, c) : j < i
      PROVE  c \in hard
  <2>1. i + 1 \in Squeezes(q, c) /\ r[i] = q[i + 1] /\ i \in Nat
    BY <1>1, <1>2
  <2>2. \A j \in Words(q, c) : j < i + 1
    <3> SUFFICES ASSUME NEW j \in Words(q, c), j # 1 PROVE j < i + 1
      BY <1>1, <2>1
    <3>1. j - 1 \in Words(r, c) /\ j \in Nat
      BY <1>1, <1>2
    <3> QED
      BY <1>5, <2>1, <3>1
  <2> QED
    BY <1>5, <2>1, <2>2 DEF LastWord
<1>6. LastWord(r, c, pressed, hard)
  BY <1>3, <1>4, <1>5 DEF LastWord
<1>7. ASSUME Fresh(q, c) PROVE Fresh(r, c)
  <2>1. CASE \A i \in Of(q, c) : q[i].last
    BY <1>1, <1>2, <2>1 DEF Fresh
  <2>2. ASSUME NEW i \in Words(q, c), q[i].last, i # 1 PROVE Fresh(r, c)
    <3>1. i - 1 \in Words(r, c) /\ i \in Nat
      BY <1>1, <1>2, <2>2
    <3>2. r[i - 1] = q[i]
      <4>1. r[i - 1] = q[(i - 1) + 1]
        BY <1>1, <3>1
      <4> QED
        BY <3>1, <4>1
    <3> QED
      BY <2>2, <3>1, <3>2 DEF Fresh
  <2>3. ASSUME 1 \in Words(q, c), q[1].last PROVE Fresh(r, c)
    <3>1. ASSUME NEW j \in Of(r, c) PROVE r[j].last
      <4>1. j + 1 \in Of(q, c) /\ 1 < j + 1 /\ r[j] = q[j + 1]
        BY <1>1, <1>2
      <4>2. 1 \in Of(q, c)
        BY <1>1, <2>3
      <4> QED
        BY <2>3, <4>1, <4>2 DEF LastWord
    <3> QED
      BY <3>1 DEF Fresh
  <2> QED
    BY <1>7, <2>1, <2>2, <2>3 DEF Fresh
<1> QED
  BY <1>6, <1>7 DEF r

\* A message of another control comes in last; one of this control does, a word
\* or pressure.
LEMMA AddedHeard ==
    ASSUME NEW q, IsSeq(q), NEW e, NEW c
    PROVE  LET r == Append(q, e)  n == Len(q) + 1 IN
           /\ \A i \in DOMAIN q : r[i] = q[i] /\ i < n
           /\ r[n] = e /\ n \in Nat
           /\ Of(r, c) = Of(q, c) \cup (IF e.of = c THEN {n} ELSE {})
           /\ Words(r, c) = Words(q, c)
                 \cup (IF e.of = c /\ e.msg.family # 160 THEN {n} ELSE {})
           /\ Squeezes(r, c) = Squeezes(q, c)
                 \cup (IF e.of = c /\ e.msg.family = 160 THEN {n} ELSE {})
           /\ Of(q, c) \subseteq DOMAIN q /\ DOMAIN q \subseteq Nat
           /\ Words(q, c) \subseteq Of(q, c) /\ Squeezes(q, c) \subseteq Of(q, c)
<1> DEFINE r == Append(q, e)
           n == Len(q) + 1
<1>1. DOMAIN q = 1 .. Len(q) /\ Len(q) \in Nat
  BY LenProperties DEF IsSeq
<1>2. DOMAIN r = 1 .. n /\ r[n] = e /\ \A i \in DOMAIN q : r[i] = q[i]
  BY SeqAndLast
<1> HIDE DEF r
<1>3. DOMAIN r = DOMAIN q \cup {n} /\ (\A i \in DOMAIN q : i < n) /\ n \in Nat
  BY <1>1, <1>2
<1> HIDE DEF n
<1>4. Of(r, c) = Of(q, c) \cup (IF e.of = c THEN {n} ELSE {})
  BY <1>2, <1>3 DEF Of
<1>5. Of(q, c) \subseteq DOMAIN q /\ DOMAIN q \subseteq Nat
  BY <1>1 DEF Of
<1>6. Words(r, c) = Words(q, c)
         \cup (IF e.of = c /\ e.msg.family # 160 THEN {n} ELSE {})
  BY <1>2, <1>4, <1>5 DEF Words
<1>7. Squeezes(r, c) = Squeezes(q, c)
         \cup (IF e.of = c /\ e.msg.family = 160 THEN {n} ELSE {})
  BY <1>2, <1>4, <1>5 DEF Squeezes
<1>8. Words(q, c) \subseteq Of(q, c) /\ Squeezes(q, c) \subseteq Of(q, c)
  BY DEF Words, Squeezes
<1> QED
  BY <1>2, <1>3, <1>4, <1>5, <1>6, <1>7, <1>8 DEF r, n

\* How the keyboard changes with a message that it sends.
AsBefore(c, pressed, hard, pressed2, hard2) ==
    /\ c \in pressed2 <=> c \in pressed
    /\ c \in hard2 <=> c \in hard
Tells(e, c, pressed, hard, pressed2, hard2) ==
    \/ e.of # c /\ AsBefore(c, pressed, hard, pressed2, hard2)
    \/ /\ e.of = c /\ e.msg.family # 160 /\ c \notin hard2
       /\ (e.msg = OnMessage(c)) <=> c \in pressed2
    \/ /\ e.of = c /\ e.msg.family = 160 /\ c \in hard2
       /\ c \in pressed2 <=> c \in pressed

\* A queue that is true of a control, when a message comes in and is its last,
\* or is missed.
Adding(q, e, c, pressed, hard, pressed2, hard2) ==
    /\ IsSeq(q) /\ LastWord(q, c, pressed, hard)
    /\ e.last /\ Tells(e, c, pressed, hard, pressed2, hard2)
Missing(q, c, d, pressed, hard, pressed2, hard2) ==
    /\ IsSeq(q) /\ LastWord(q, d, pressed, hard)
    /\ \A i \in DOMAIN q : {"of", "msg", "last"} \subseteq DOMAIN q[i]
    /\ d # c => AsBefore(d, pressed, hard, pressed2, hard2)

\* The last word said: what it says, and no pressure after it.
LEMMA AddedLastWord ==
    ASSUME NEW q, NEW e, NEW c, NEW pressed, NEW hard, NEW pressed2, NEW hard2,
           Adding(q, e, c, pressed, hard, pressed2, hard2)
    PROVE  /\ LastWord(Append(q, e), c, pressed2, hard2)
           /\ Fresh(q, c) => Fresh(Append(q, e), c)
           /\ (e.of = c /\ e.msg.family # 160) => Fresh(Append(q, e), c)
<1> DEFINE r == Append(q, e)
           n == Len(q) + 1
<1> USE DEF Tells, AsBefore, Adding
<1>1. /\ \A i \in DOMAIN q : r[i] = q[i] /\ i < n
      /\ r[n] = e /\ n \in Nat
      /\ Of(r, c) = Of(q, c) \cup (IF e.of = c THEN {n} ELSE {})
      /\ Words(r, c) = Words(q, c)
            \cup (IF e.of = c /\ e.msg.family # 160 THEN {n} ELSE {})
      /\ Squeezes(r, c) = Squeezes(q, c)
            \cup (IF e.of = c /\ e.msg.family = 160 THEN {n} ELSE {})
      /\ Of(q, c) \subseteq DOMAIN q /\ DOMAIN q \subseteq Nat
      /\ Words(q, c) \subseteq Of(q, c) /\ Squeezes(q, c) \subseteq Of(q, c)
  BY AddedHeard
<1> HIDE DEF r, n
<1>2. \A i, j \in Of(r, c) : (i < j /\ r[i].last) => r[j].last
  <2> SUFFICES ASSUME NEW i \in Of(r, c), NEW j \in Of(r, c), i < j, r[i].last
               PROVE  r[j].last
    OBVIOUS
  <2>1. CASE j = n
    BY <1>1, <2>1
  <2>2. CASE j # n
    <3>1. j \in Of(q, c) /\ j < n /\ j \in Nat
      BY <1>1, <2>2
    <3>2. i \in Of(q, c)
      BY <1>1, <3>1
    <3> QED
      BY <1>1, <3>1, <3>2 DEF LastWord
  <2> QED
    BY <2>1, <2>2
<1>3. ASSUME NEW i \in Words(r, c), r[i].last, \A j \in Words(r, c) : j <= i
      PROVE  /\ (r[i].msg = OnMessage(c)) <=> c \in pressed2
             /\ c \in hard2 => \E j \in Squeezes(r, c) : i < j
  <2>1. CASE i = n
    <3>1. e.of = c /\ e.msg.family # 160
      BY <1>1, <2>1
    <3> QED
      BY <1>1, <2>1, <3>1
  <2>2. CASE i # n
    <3>1. i \in Words(q, c) /\ r[i] = q[i] /\ i < n /\ i \in Nat
      BY <1>1, <2>2
    <3>2. \A j \in Words(q, c) : j <= i
      BY <1>1, <1>3
    <3>3. /\ (q[i].msg = OnMessage(c)) <=> c \in pressed
          /\ c \in hard => \E j \in Squeezes(q, c) : i < j
      BY <1>3, <3>1, <3>2 DEF LastWord
    <3>4. ~(e.of = c /\ e.msg.family # 160)
      <4> SUFFICES ASSUME e.of = c, e.msg.family # 160 PROVE FALSE
        OBVIOUS
      <4>1. n \in Words(r, c)
        BY <1>1
      <4>2. n <= i
        BY <1>3, <4>1
      <4> QED
        BY <1>1, <3>1, <4>2
    <3>5. c \in pressed2 <=> c \in pressed
      BY <3>4
    <3>6. CASE e.of # c
      BY <1>1, <3>1, <3>3, <3>5, <3>6
    <3>7. CASE e.of = c
      <4>1. n \in Squeezes(r, c) /\ i < n
        BY <1>1, <3>1, <3>4, <3>7
      <4> QED
        BY <3>1, <3>3, <3>5, <4>1
    <3> QED
      BY <3>6, <3>7
  <2> QED
    BY <2>1, <2>2
<1>4. ASSUME NEW i \in Squeezes(r, c), r[i].last, \A j \in Words(r, c) : j < i
      PROVE  c \in hard2
  <2>1. CASE i = n
    BY <1>1, <2>1
  <2>2. CASE i # n
    <3>1. i \in Squeezes(q, c) /\ r[i] = q[i] /\ i < n /\ i \in Nat
      BY <1>1, <2>2
    <3>2. ~(e.of = c /\ e.msg.family # 160)
      <4> SUFFICES ASSUME e.of = c, e.msg.family # 160 PROVE FALSE
        OBVIOUS
      <4>1. n < i
        BY <1>1, <1>4
      <4> QED
        BY <1>1, <3>1, <4>1
    <3>3. \A j \in Words(q, c) : j < i
      BY <1>1, <1>4
    <3>4. c \in hard
      BY <1>4, <3>1, <3>3 DEF LastWord
    <3> QED
      BY <3>2, <3>4
  <2> QED
    BY <2>1, <2>2
<1>5. LastWord(r, c, pressed2, hard2)
  BY <1>2, <1>3, <1>4 DEF LastWord
<1>6. Fresh(q, c) => Fresh(r, c)
  BY <1>1 DEF Fresh
<1>7. (e.of = c /\ e.msg.family # 160) => Fresh(r, c)
  BY <1>1 DEF Fresh
<1> QED
  BY <1>5, <1>6, <1>7 DEF r

\* Something of a control is missed.
LEMMA MissedHeard ==
    ASSUME NEW q, NEW c, NEW d, NEW pressed, NEW hard, NEW pressed2, NEW hard2,
           Missing(q, c, d, pressed, hard, pressed2, hard2)
    PROVE  LET r == NotLast(q, c) IN
           /\ DOMAIN r = DOMAIN q /\ IsSeq(r)
           /\ Of(r, d) = Of(q, d) /\ Words(r, d) = Words(q, d)
           /\ Squeezes(r, d) = Squeezes(q, d)
           /\ \A i \in DOMAIN q : r[i] = [q[i] EXCEPT !.last = q[i].last /\ q[i].of # c]
           /\ LastWord(r, d, pressed2, hard2)
           /\ d # c => (Fresh(q, d) => Fresh(r, d))
           /\ d = c => \A i \in Of(r, d) : ~r[i].last
<1> DEFINE r == NotLast(q, c)
<1> USE DEF Missing
<1>1. /\ DOMAIN r = DOMAIN q
      /\ \A i \in DOMAIN q : r[i] = [q[i] EXCEPT !.last = q[i].last /\ q[i].of # c]
  BY DEF NotLast
<1>2. DOMAIN q = 1 .. Len(q) /\ Len(q) \in Nat
  BY LenProperties DEF IsSeq
<1>3. IsSeq(r)
  <2>1. r = [i \in 1 .. Len(q) |-> r[i]]
    BY <1>2 DEF NotLast
  <2>2. DOMAIN r = 1 .. Len(q)
    BY <1>1, <1>2
  <2> HIDE DEF r
  <2> DEFINE S == {r[k] : k \in DOMAIN r}
  <2>3. \A i \in 1 .. Len(q) : r[i] \in S
    BY <2>2
  <2> HIDE DEF S
  <2>4. r \in [1 .. Len(q) -> S]
    BY <2>1, <2>3
  <2>5. r \in Seq(S)
    BY <1>2, <2>4, SeqDef
  <2> QED
    BY <2>5 DEF S, IsSeq
<1> HIDE DEF r
<1>4. \A i \in DOMAIN q : /\ r[i].of = q[i].of /\ r[i].msg = q[i].msg
                          /\ r[i].last <=> (q[i].last /\ q[i].of # c)
  BY <1>1
<1>5. Of(r, d) = Of(q, d) /\ Of(q, d) \subseteq DOMAIN q
  BY <1>1, <1>4 DEF Of
<1>6. Words(r, d) = Words(q, d) /\ Squeezes(r, d) = Squeezes(q, d)
  BY <1>4, <1>5 DEF Words, Squeezes
<1>7. CASE d = c
  <2>1. \A i \in Of(r, d) : ~r[i].last
    BY <1>4, <1>5, <1>7 DEF Of
  <2>2. Words(r, d) \subseteq Of(r, d) /\ Squeezes(r, d) \subseteq Of(r, d)
    BY DEF Words, Squeezes
  <2>3. LastWord(r, d, pressed2, hard2)
    BY <2>1, <2>2 DEF LastWord
  <2> QED
    BY <1>1, <1>3, <1>5, <1>6, <1>7, <2>1, <2>3 DEF r
<1>8. CASE d # c
  <2>1. \A i \in Of(q, d) : r[i].msg = q[i].msg /\ (r[i].last <=> q[i].last)
    BY <1>4, <1>5, <1>8 DEF Of
  <2>2. /\ LastWord(q, d, pressed, hard) => LastWord(r, d, pressed2, hard2)
        /\ Fresh(q, d) => Fresh(r, d)
    BY <1>5, <1>8, <2>1, SameHeard DEF AsBefore
  <2> QED
    BY <1>1, <1>3, <1>5, <1>6, <1>8, <2>2 DEF r
<1> QED
  BY <1>7, <1>8

\* A queue that takes the message of a control in, or misses it, and what is in
\* it of each control then.
Updating(q, r, c, e, d, pressed, hard, pressed2, hard2) ==
    /\ IsSeq(q) /\ LastWord(q, d, pressed, hard)
    /\ \A i \in DOMAIN q : {"of", "msg", "last"} \subseteq DOMAIN q[i]
    /\ e.of = c /\ e.last /\ Tells(e, d, pressed, hard, pressed2, hard2)
    /\ r = Append(q, e) \/ r = NotLast(q, c)

LEMMA QueueStep ==
    ASSUME NEW q, NEW r, NEW c, NEW e, NEW d,
           NEW pressed, NEW hard, NEW pressed2, NEW hard2,
           Updating(q, r, c, e, d, pressed, hard, pressed2, hard2)
    PROVE  /\ IsSeq(r) /\ LastWord(r, d, pressed2, hard2)
           /\ d # c => /\ Words(r, d) = Words(q, d) /\ Squeezes(r, d) = Squeezes(q, d)
                       /\ Fresh(q, d) => Fresh(r, d)
           /\ (d = c /\ r = NotLast(q, c)) => \A i \in Of(r, c) : ~r[i].last
<1> USE DEF Updating
<1>1. CASE r = Append(q, e)
  <2>1. IsSeq(r)
    BY <1>1, SeqAndLast
  <2>2. /\ LastWord(r, d, pressed2, hard2)
        /\ Fresh(q, d) => Fresh(r, d)
        /\ (e.of = d /\ e.msg.family # 160) => Fresh(r, d)
    <3>1. /\ LastWord(Append(q, e), d, pressed2, hard2)
          /\ Fresh(q, d) => Fresh(Append(q, e), d)
          /\ (e.of = d /\ e.msg.family # 160) => Fresh(Append(q, e), d)
      <4>1. Adding(q, e, d, pressed, hard, pressed2, hard2)
        BY DEF Adding
      <4> QED
        BY <4>1, AddedLastWord
    <3> QED
      BY <1>1, <3>1
  <2> DEFINE n == Len(q) + 1
  <2>3. /\ Words(r, d) = Words(q, d)
              \cup (IF e.of = d /\ e.msg.family # 160 THEN {n} ELSE {})
        /\ Squeezes(r, d) = Squeezes(q, d)
              \cup (IF e.of = d /\ e.msg.family = 160 THEN {n} ELSE {})
    BY <1>1, AddedHeard
  <2> HIDE DEF n
  <2>4. r = NotLast(q, c) => DOMAIN r = DOMAIN q
    BY DEF NotLast
  <2>5. DOMAIN r # DOMAIN q
    <3>1. DOMAIN r = 1 .. Len(q) + 1 /\ DOMAIN q = 1 .. Len(q) /\ Len(q) \in Nat
      BY <1>1, SeqAndLast, LenProperties DEF IsSeq
    <3>2. Len(q) + 1 \in DOMAIN r /\ Len(q) + 1 \notin DOMAIN q
      BY <3>1
    <3> QED
      BY <3>2
  <2> QED
    BY <2>1, <2>2, <2>3, <2>4, <2>5
<1>2. CASE r = NotLast(q, c)
  <2>0. d # c => AsBefore(d, pressed, hard, pressed2, hard2)
    BY DEF Tells
  <2>1. /\ IsSeq(r) /\ DOMAIN r = DOMAIN q
        /\ Words(r, d) = Words(q, d) /\ Squeezes(r, d) = Squeezes(q, d)
        /\ LastWord(r, d, pressed2, hard2)
        /\ d # c => (Fresh(q, d) => Fresh(r, d))
        /\ d = c => \A i \in Of(r, d) : ~r[i].last
    <3>1. Missing(q, c, d, pressed, hard, pressed2, hard2)
      BY <2>0 DEF Missing
    <3>2. LET s == NotLast(q, c) IN
           /\ DOMAIN s = DOMAIN q /\ IsSeq(s)
           /\ Of(s, d) = Of(q, d) /\ Words(s, d) = Words(q, d)
           /\ Squeezes(s, d) = Squeezes(q, d)
           /\ \A i \in DOMAIN q : s[i] = [q[i] EXCEPT !.last = q[i].last /\ q[i].of # c]
           /\ LastWord(s, d, pressed2, hard2)
           /\ d # c => (Fresh(q, d) => Fresh(s, d))
           /\ d = c => \A i \in Of(s, d) : ~s[i].last
      BY <3>1, MissedHeard
    <3> QED
      BY <1>2, <3>2
  <2>2. r # Append(q, e)
    <3>1. DOMAIN Append(q, e) = 1 .. Len(q) + 1 /\ DOMAIN q = 1 .. Len(q) /\ Len(q) \in Nat
      BY SeqAndLast, LenProperties DEF IsSeq
    <3>2. Len(q) + 1 \in DOMAIN Append(q, e) /\ Len(q) + 1 \notin DOMAIN q
      BY <3>1
    <3> QED
      BY <2>1, <3>2
  <2> QED
    BY <2>1, <2>2
<1> QED
  BY <1>1, <1>2

LEMMA QueueTakes ==
    ASSUME NEW q, NEW c, NEW e, NEW pressed, NEW hard, NEW pressed2, NEW hard2,
           Updating(q, Append(q, e), c, e, c, pressed, hard, pressed2, hard2)
    PROVE  /\ Fresh(q, c) => Fresh(Append(q, e), c)
           /\ e.msg.family # 160 =>
                 Fresh(Append(q, e), c) /\ Words(Append(q, e), c) # {}
           /\ e.msg.family = 160 =>
                 Words(Append(q, e), c) = Words(q, c) /\ Squeezes(Append(q, e), c) # {}
<1>1. e.of = c /\ Adding(q, e, c, pressed, hard, pressed2, hard2)
  BY DEF Updating, Adding
<1>2. /\ Fresh(q, c) => Fresh(Append(q, e), c)
      /\ (e.of = c /\ e.msg.family # 160) => Fresh(Append(q, e), c)
  BY <1>1, AddedLastWord
<1>3. IsSeq(q)
  BY DEF Updating
<1>4. /\ Words(Append(q, e), c) = Words(q, c)
            \cup (IF e.of = c /\ e.msg.family # 160 THEN {Len(q) + 1} ELSE {})
      /\ Squeezes(Append(q, e), c) = Squeezes(q, c)
            \cup (IF e.of = c /\ e.msg.family = 160 THEN {Len(q) + 1} ELSE {})
  BY <1>3, AddedHeard
<1> QED
  BY <1>1, <1>2, <1>4

\* The daemon's stream without its oldest event, as the daemon leaves a full one.
LEMMA Shortened ==
    ASSUME QueuesTyped, rawEvents # <<>>, NEW d \in Played, ControlHeard(d)
    PROVE  LET q == Tail(rawEvents) IN
           /\ IsSeq(q) /\ LastWord(q, d, down, squeezed)
           /\ Fresh(rawEvents, d) => Fresh(q, d)
           /\ \A i \in DOMAIN q :
                 q[i] \in [of : Played, msg : MessagesOf(q[i].of), last : BOOLEAN]
           /\ Head(rawEvents).of # d =>
                 /\ Words(q, d) = {} <=> Words(rawEvents, d) = {}
                 /\ Squeezes(q, d) = {} <=> Squeezes(rawEvents, d) = {}
<1> DEFINE q == Tail(rawEvents)
<1>1. IsSeq(rawEvents) /\ IsSeq(q)
  BY RestOfSeq DEF QueuesTyped
<1>2. LastWord(q, d, down, squeezed) /\ (Fresh(rawEvents, d) => Fresh(q, d))
  BY <1>1, TakenLastWord DEF ControlHeard
<1>3. /\ \A i \in DOMAIN q : i + 1 \in DOMAIN rawEvents /\ q[i] = rawEvents[i + 1]
      /\ \A i \in Words(q, d) : i + 1 \in Words(rawEvents, d)
      /\ \A i \in Words(rawEvents, d) : i # 1 => i - 1 \in Words(q, d)
      /\ \A i \in Squeezes(q, d) : i + 1 \in Squeezes(rawEvents, d)
      /\ \A i \in Squeezes(rawEvents, d) : i # 1 => i - 1 \in Squeezes(q, d)
      /\ Head(rawEvents) = rawEvents[1]
  BY <1>1, TakenHeard
<1> HIDE DEF q
<1>4. \A i \in DOMAIN q :
         q[i] \in [of : Played, msg : MessagesOf(q[i].of), last : BOOLEAN]
  BY <1>3 DEF QueuesTyped
<1>5. ASSUME Head(rawEvents).of # d
      PROVE  /\ Words(q, d) = {} <=> Words(rawEvents, d) = {}
             /\ Squeezes(q, d) = {} <=> Squeezes(rawEvents, d) = {}
  <2>1. 1 \notin Words(rawEvents, d) /\ 1 \notin Squeezes(rawEvents, d)
    BY <1>3, <1>5 DEF Words, Squeezes, Of
  <2> QED
    BY <1>3, <2>1
<1> QED
  BY <1>1, <1>2, <1>4, <1>5 DEF q

\* What the keyboard sends, and how it is then.
KeyMessage(c, m) ==
    /\ c \in Played /\ m \in MessagesOf(c)
    /\ Emit(c, m) /\ KeyboardStep
    /\ \A d : d # c => AsBefore(d, down, squeezed, down', squeezed')
    /\ \/ m.family # 160 /\ c \notin squeezed' /\ (m = OnMessage(c) <=> c \in down')
       \/ m.family = 160 /\ c \in squeezed' /\ (c \in down' <=> c \in down) /\ c \in down

LEMMA KeyMessageHeard ==
    ASSUME HeardInv, NEW c, NEW m, KeyMessage(c, m), NEW d \in Played
    PROVE  ControlHeard(d)'
<1> DEFINE there == m.port \in plugged
           listened == there /\ m.port \in heard
           streamed == there /\ sse = "open"
           full == streamed /\ Len(rawEvents) = HubCap
           a == [of |-> c, msg |-> m, last |-> TRUE, via |-> access]
           e == [of |-> c, msg |-> m, last |-> TRUE]
           q == IF full THEN Tail(rawEvents) ELSE rawEvents
<1>1. /\ air' = IF listened THEN Append(air, a) ELSE NotLast(air, c)
      /\ rawEvents' = IF streamed THEN Append(q, e) ELSE NotLast(q, c)
      /\ unsure \subseteq unsure'
      /\ activeSource = "browser" /\ ~listened => c \in unsure'
      /\ activeSource # "browser" /\ ~streamed => c \in unsure'
      /\ activeSource = "daemon" /\ full => Head(rawEvents).of \in unsure'
  <2>1. c \in Played /\ Emit(c, m)
    BY DEF KeyMessage
  <2>2. /\ air' = IF listened THEN Append(air, a) ELSE NotLast(air, c)
        /\ rawEvents' = IF streamed THEN Append(q, e) ELSE NotLast(q, c)
    BY <2>1 DEF Emit
  <2>3. unsure' = unsure \cup
              CASE activeSource = "browser" /\ ~listened -> {c}
                [] activeSource # "browser" /\ ~streamed -> {c}
                [] activeSource = "daemon" /\ full -> {Head(rawEvents).of}
                [] OTHER -> {}
    BY <2>1 DEF Emit
  <2>7. full => streamed
    OBVIOUS
  <2> HIDE DEF listened, streamed, full, a, e, q
  <2>4. activeSource = "browser" /\ ~listened => c \in unsure'
    BY <2>3
  <2>5. activeSource # "browser" /\ ~streamed => c \in unsure'
    BY <2>3, <2>7
  <2>6. activeSource = "daemon" /\ full /\ streamed => Head(rawEvents).of \in unsure'
    BY <2>3
  <2>8. unsure \subseteq unsure'
    BY <2>3
  <2> QED
    BY <2>2, <2>4, <2>5, <2>6, <2>7, <2>8
<1>2. /\ UNCHANGED <<mounted, activeSource, access, heldDown, pressure>>
      /\ c \in Played /\ m \in MessagesOf(c)
      /\ listened => streamed \/ sse # "open"
      /\ streamed => sse = "open"
      /\ full => rawEvents # <<>>
  <2>1. Len(<<>>) = 0 /\ HubCap # 0
    BY CapsAssumption
  <2> QED
    BY <2>1 DEF KeyMessage, KeyboardStep, chosen, surface
<1>3. listened => activeSource = "browser" /\ access # 0
  BY DEF HeardInv, SourceInv
<1>4. /\ a.of = c /\ a.msg = m /\ a.last /\ a.via = access
      /\ e.of = c /\ e.msg = m /\ e.last
      /\ a \in [of : Played, msg : MessagesOf(c), last : BOOLEAN, via : {access}]
  BY <1>2
<1> HIDE DEF listened, streamed, full, a, e
<1>5. /\ IsSeq(q) /\ LastWord(q, d, down, squeezed)
      /\ Fresh(rawEvents, d) => Fresh(q, d)
      /\ \A i \in DOMAIN q :
            q[i] \in [of : Played, msg : MessagesOf(q[i].of), last : BOOLEAN]
      /\ (full /\ Head(rawEvents).of = d) \/
            /\ Words(q, d) = {} <=> Words(rawEvents, d) = {}
            /\ Squeezes(q, d) = {} <=> Squeezes(rawEvents, d) = {}
      /\ rawEvents = <<>> => q = <<>>
  <2>1. CASE full
    BY <1>2, <2>1, Shortened DEF HeardInv
  <2>2. CASE ~full
    BY <2>2 DEF HeardInv, QueuesTyped, ControlHeard
  <2> QED
    BY <2>1, <2>2
<1> HIDE DEF q
<1>6. Tells(a, d, down, squeezed, down', squeezed')
      /\ Tells(e, d, down, squeezed, down', squeezed')
  BY <1>4 DEF KeyMessage, Tells, AsBefore
<1>7. Updating(air, air', c, a, d, down, squeezed, down', squeezed')
  <2>1. \A i \in DOMAIN air : {"of", "msg", "last"} \subseteq DOMAIN air[i]
    BY DEF HeardInv, QueuesTyped
  <2>2. IsSeq(air) /\ LastWord(air, d, down, squeezed)
    BY DEF HeardInv, QueuesTyped, ControlHeard
  <2> QED
    BY <1>1, <1>4, <1>6, <2>1, <2>2 DEF Updating
<1>8. Updating(q, rawEvents', c, e, d, down, squeezed, down', squeezed')
  <2>1. \A i \in DOMAIN q : {"of", "msg", "last"} \subseteq DOMAIN q[i]
    BY <1>5
  <2> QED
    BY <1>1, <1>4, <1>5, <1>6, <2>1 DEF Updating
<1>9. LastWord(air, d, down, squeezed)' /\ LastWord(rawEvents, d, down, squeezed)'
  BY <1>7, <1>8, QueueStep
<1>10. ASSUME d # c PROVE ControlHeard(d)'
  <2>1. /\ Words(air', d) = Words(air, d) /\ Squeezes(air', d) = Squeezes(air, d)
        /\ Fresh(air, d) => Fresh(air', d)
    BY <1>7, <1>10, QueueStep
  <2>2. /\ Words(rawEvents', d) = Words(q, d) /\ Squeezes(rawEvents', d) = Squeezes(q, d)
        /\ Fresh(rawEvents, d) => Fresh(rawEvents', d)
    BY <1>5, <1>8, <1>10, QueueStep
  <2>3. /\ Of(air', d) = Of(air, d)
        /\ \A i \in Of(air, d) : /\ air'[i].last <=> air[i].last
                                 /\ air'[i].via = air[i].via
    <3>1. CASE listened
      <4>1. /\ \A i \in DOMAIN air : air'[i] = air[i]
            /\ Of(air', d) = Of(air, d) /\ Of(air, d) \subseteq DOMAIN air
        <5>1. IsSeq(air)
          BY <1>7 DEF Updating
        <5>2. /\ \A i \in DOMAIN air : Append(air, a)[i] = air[i]
              /\ Of(Append(air, a), d) = Of(air, d) \cup (IF a.of = d THEN {Len(air) + 1} ELSE {})
              /\ Of(air, d) \subseteq DOMAIN air
          BY <5>1, AddedHeard
        <5> QED
          BY <1>1, <1>4, <1>10, <3>1, <5>2
      <4> QED
        BY <4>1
    <3>2. CASE ~listened
      <4>1. /\ DOMAIN air' = DOMAIN air
            /\ \A i \in DOMAIN air :
                  air'[i] = [air[i] EXCEPT !.last = air[i].last /\ air[i].of # c]
        BY <1>1, <3>2 DEF NotLast
      <4>2. \A i \in DOMAIN air : {"of", "last", "via"} \subseteq DOMAIN air[i]
        BY DEF HeardInv, QueuesTyped
      <4>3. \A i \in DOMAIN air : /\ air'[i].of = air[i].of /\ air'[i].via = air[i].via
                                  /\ air'[i].last <=> (air[i].last /\ air[i].of # c)
        BY <4>1, <4>2
      <4> QED
        BY <1>10, <4>1, <4>3 DEF Of
    <3> QED
      BY <3>1, <3>2
  <2>4. Doomed(air, d)' <=> Doomed(air, d)
    BY <1>2, <2>3 DEF Doomed
  <2>5. (\E i \in Words(air', d) : air'[i].last) => \E i \in Words(air, d) : air[i].last
    BY <2>1, <2>3 DEF Words
  <2>6. heldDown' = heldDown /\ pressure' = pressure
        /\ (d \in down' <=> d \in down) /\ (d \in squeezed' <=> d \in squeezed)
    BY <1>2, <1>10 DEF KeyMessage, AsBefore
  <2>7. SurfaceRight(air, d) => SurfaceRight(air, d)'
    BY <2>1, <2>6 DEF SurfaceRight
  <2>8. (d \notin unsure' /\ activeSource = "daemon" /\ SurfaceRight(rawEvents, d))
        => SurfaceRight(rawEvents, d)'
    <3>1. d \notin unsure' /\ activeSource = "daemon" => ~(full /\ Head(rawEvents).of = d)
      BY <1>1
    <3> QED
      BY <1>5, <2>2, <2>6, <3>1 DEF SurfaceRight
  <2>9. ControlHeard(d)
    BY DEF HeardInv
  <2> QED
    BY <1>1, <1>2, <1>9, <2>1, <2>2, <2>4, <2>5, <2>7, <2>8, <2>9 DEF ControlHeard
<1>11. ASSUME d = c PROVE ControlHeard(d)'
  <2>1. ControlHeard(c)
    BY <1>11 DEF HeardInv
  <2>0. /\ Updating(air, air', c, a, c, down, squeezed, down', squeezed')
        /\ Updating(q, rawEvents', c, e, c, down, squeezed, down', squeezed')
    BY <1>7, <1>8, <1>11
  <2>2. CASE listened
    <3>1. air' = Append(air, a)
      BY <1>1, <2>2
    <3>2. /\ Fresh(air, c) \/ m.family # 160 => Fresh(air', c)
          /\ m.family # 160 => Words(air', c) # {}
          /\ m.family = 160 => Words(air', c) = Words(air, c) /\ Squeezes(air', c) # {}
      <4>1. Updating(air, Append(air, a), c, a, c, down, squeezed, down', squeezed')
        BY <2>0, <3>1
      <4>2. /\ Fresh(air, c) => Fresh(Append(air, a), c)
            /\ a.msg.family # 160 =>
                  Fresh(Append(air, a), c) /\ Words(Append(air, a), c) # {}
            /\ a.msg.family = 160 =>
                  /\ Words(Append(air, a), c) = Words(air, c)
                  /\ Squeezes(Append(air, a), c) # {}
        BY <4>1, QueueTakes
      <4> QED
        BY <1>4, <3>1, <4>2
    <3>3. /\ \A i \in Of(air, c) : i \in Of(air', c) /\ air'[i] = air[i]
          /\ Words(air, c) \subseteq Of(air, c)
      <4>1. IsSeq(air)
        BY <1>7 DEF Updating
      <4>2. /\ \A i \in DOMAIN air : Append(air, a)[i] = air[i]
            /\ Of(Append(air, a), c)
                  = Of(air, c) \cup (IF a.of = c THEN {Len(air) + 1} ELSE {})
            /\ Of(air, c) \subseteq DOMAIN air /\ Words(air, c) \subseteq Of(air, c)
        BY <4>1, AddedHeard
      <4> QED
        BY <3>1, <4>2
    <3>4. Doomed(air, c) => Doomed(air, c)'
      BY <1>2, <3>3 DEF Doomed
    <3>5. ASSUME streamed
          PROVE  /\ (\E i \in Words(air', c) : air'[i].last) => Fresh(rawEvents', c)
                 /\ c \notin unsure' => Fresh(rawEvents', c)
      <4>1. rawEvents' = Append(q, e)
        BY <1>1, <3>5
      <4>2. Fresh(q, c) \/ m.family # 160 => Fresh(rawEvents', c)
        <5>1. Updating(q, Append(q, e), c, e, c, down, squeezed, down', squeezed')
          BY <2>0, <4>1
        <5>2. /\ Fresh(q, c) => Fresh(Append(q, e), c)
              /\ e.msg.family # 160 => Fresh(Append(q, e), c)
          BY <5>1, QueueTakes
        <5> QED
          BY <1>4, <4>1, <5>2
      <4>3. (\E i \in Words(air', c) : air'[i].last) => Fresh(rawEvents', c)
        <5>1. (m.family = 160 /\ \E i \in Words(air', c) : air'[i].last)
              => \E i \in Words(air, c) : air[i].last
          BY <3>2, <3>3
        <5> QED
          BY <1>5, <1>11, <2>1, <4>2, <5>1 DEF ControlHeard
      <4>4. c \notin unsure' => Fresh(rawEvents', c)
        BY <1>1, <1>5, <1>11, <2>1, <4>2 DEF ControlHeard
      <4> QED
        BY <4>3, <4>4
    <3>6. ASSUME ~streamed PROVE Fresh(rawEvents', c)
      <4>1. rawEvents = <<>>
        BY <1>2, <2>2, <3>6 DEF HeardInv, QueuesTyped
      <4>2. rawEvents' = NotLast(<<>>, c)
        BY <1>1, <1>5, <3>6, <4>1
      <4>3. DOMAIN rawEvents' = {}
        BY <4>2 DEF NotLast
      <4> QED
        BY <4>3 DEF Fresh, Of
    <3>7. /\ (\E i \in Words(air', c) : air'[i].last) => Fresh(rawEvents', c)
          /\ c \notin unsure' => Fresh(rawEvents', c)
      BY <3>5, <3>6
    <3>8. c \notin unsure' => Fresh(air', c) \/ Doomed(air, c)'
      BY <1>1, <2>1, <3>2, <3>4 DEF ControlHeard
    <3>9. ASSUME c \notin unsure', mounted, ~Doomed(air, c)'
          PROVE  SurfaceRight(air, c)'
      <4>1. SurfaceRight(air, c)
        BY <1>1, <1>3, <2>1, <2>2, <3>4, <3>9 DEF ControlHeard
      <4> QED
        BY <1>2, <3>2, <4>1 DEF SurfaceRight, KeyMessage
    <3> QED
      BY <1>2, <1>3, <1>9, <1>11, <2>2, <3>7, <3>8, <3>9 DEF ControlHeard
  <2>3. CASE ~listened
    <3>1. air' = NotLast(air, c)
      BY <1>1, <2>3
    <3>2. \A i \in Of(air', c) : ~air'[i].last
      BY <2>0, <3>1, QueueStep
    <3>3. ~\E i \in Words(air', c) : air'[i].last
      BY <3>2 DEF Words
    <3>4. ASSUME c \notin unsure'
          PROVE  /\ Fresh(rawEvents', c)
                 /\ Fresh(air', c) \/ Doomed(air, c)'
                 /\ activeSource # "browser"
                 /\ (mounted /\ activeSource = "daemon") => SurfaceRight(rawEvents, c)'
      <4>1. activeSource # "browser" /\ streamed /\ c \notin unsure
        BY <1>1, <2>3, <3>4
      <4>2. rawEvents' = Append(q, e)
        BY <1>1, <4>1
      <4>3. /\ Fresh(q, c) \/ m.family # 160 => Fresh(rawEvents', c)
            /\ m.family # 160 => Words(rawEvents', c) # {}
            /\ m.family = 160 => /\ Words(rawEvents', c) = Words(q, c)
                                 /\ Squeezes(rawEvents', c) # {}
        <5>1. Updating(q, Append(q, e), c, e, c, down, squeezed, down', squeezed')
          BY <2>0, <4>2
        <5>2. /\ Fresh(q, c) => Fresh(Append(q, e), c)
              /\ e.msg.family # 160 =>
                    Fresh(Append(q, e), c) /\ Words(Append(q, e), c) # {}
              /\ e.msg.family = 160 =>
                    /\ Words(Append(q, e), c) = Words(q, c)
                    /\ Squeezes(Append(q, e), c) # {}
          BY <5>1, QueueTakes
        <5> QED
          BY <1>4, <4>2, <5>2
      <4>4. Fresh(rawEvents', c)
        BY <1>5, <1>11, <2>1, <4>1, <4>3 DEF ControlHeard
      <4>5. access = 0
        BY <4>1 DEF HeardInv, SourceInv
      <4>6. \A i \in DOMAIN air' : air'[i].via # access'
        <5>1. /\ DOMAIN air' = DOMAIN air
              /\ \A i \in DOMAIN air :
                    air'[i] = [air[i] EXCEPT !.last = air[i].last /\ air[i].of # c]
          BY <3>1 DEF NotLast
        <5>2. \A i \in DOMAIN air : "via" \in DOMAIN air[i] /\ air[i].via # 0
          BY DEF HeardInv, QueuesTyped, SourceInv
        <5>3. \A i \in DOMAIN air : air'[i].via = air[i].via
          BY <5>1, <5>2
        <5> QED
          BY <1>2, <4>5, <5>1, <5>2, <5>3
      <4>7. Fresh(air', c) \/ Doomed(air, c)'
        BY <4>6 DEF Fresh, Doomed, Of
      <4>8. ASSUME mounted, activeSource = "daemon" PROVE SurfaceRight(rawEvents, c)'
        <5>1. SurfaceRight(rawEvents, c)
          BY <2>1, <4>1, <4>8 DEF ControlHeard
        <5>2. ~(full /\ Head(rawEvents).of = c)
          BY <1>1, <3>4, <4>8
        <5> QED
          BY <1>2, <1>5, <1>11, <4>3, <5>1, <5>2 DEF SurfaceRight, KeyMessage
      <4> QED
        BY <4>1, <4>4, <4>7, <4>8
    <3> QED
      BY <1>2, <1>9, <1>11, <3>3, <3>4 DEF ControlHeard
  <2> QED
    BY <2>2, <2>3
<1> QED
  BY <1>10, <1>11

\* The keyboard's own steps, each with a message.
LEMMA KeyboardHeard ==
    ASSUME HeardInv, NEW c \in Played, Press(c) \/ Release(c) \/ Squeeze(c)
    PROVE  \E m : KeyMessage(c, m)
<1>1. squeezed \subseteq down
  BY DEF HeardInv, QueuesTyped
<1>2. OnMessage(c).family \in {144, 176} /\ OnMessage(c).value # 0
      /\ OnMessage(c) \in [port : {"DAW", "MIDI"}, family : {144, 176}, channel : Int,
                           number : Int, value : {100, 127}]
  <2>1. CASE c = <<"key", 60>>
    BY <2>1 DEF OnMessage, Message
  <2>2. CASE c = <<"pad-top", 1>>
    BY <2>2 DEF OnMessage, Message
  <2>3. CASE c = <<"shift">>
    BY <2>3 DEF OnMessage, Message
  <2>4. CASE c = <<"sustain">>
    BY <2>4 DEF OnMessage, Message
  <2> QED
    BY <2>1, <2>2, <2>3, <2>4, PlayedAssumption DEF AllPlayed
<1>3. CASE Press(c)
  <2>1. /\ c \notin down /\ Emit(c, OnMessage(c)) /\ down' = down \cup {c}
        /\ squeezed' = squeezed /\ KeyboardStep
    BY <1>3 DEF Press
  <2>2. OnMessage(c) \in MessagesOf(c)
    BY DEF MessagesOf
  <2>3. KeyMessage(c, OnMessage(c))
    BY <1>1, <1>2, <2>1, <2>2 DEF KeyMessage, AsBefore
  <2> QED
    BY <2>3
<1>4. CASE Release(c)
  <2>1. PICK m \in OffMessages(c) : Emit(c, m)
    BY <1>4 DEF Release
  <2>2. /\ c \in down /\ down' = down \ {c} /\ squeezed' = squeezed \ {c}
        /\ KeyboardStep
    BY <1>4 DEF Release
  <2>3. m # OnMessage(c) /\ m.family # 160
    BY <1>2, <2>1 DEF OffMessages
  <2>4. m \in MessagesOf(c)
    BY <2>1 DEF MessagesOf
  <2>5. KeyMessage(c, m)
    BY <2>1, <2>2, <2>3, <2>4 DEF KeyMessage, AsBefore
  <2> QED
    BY <2>5
<1>5. CASE Squeeze(c)
  <2>1. /\ c \in down \ squeezed /\ IsPad(c) /\ Emit(c, SqueezeMessage(c))
        /\ squeezed' = squeezed \cup {c} /\ down' = down /\ KeyboardStep
    BY <1>5 DEF Squeeze
  <2>2. SqueezeMessage(c) \in MessagesOf(c)
    BY <2>1 DEF MessagesOf
  <2>3. SqueezeMessage(c).family = 160
    BY <1>2 DEF SqueezeMessage
  <2>4. KeyMessage(c, SqueezeMessage(c))
    BY <2>1, <2>2, <2>3 DEF KeyMessage, AsBefore
  <2> QED
    BY <2>4
<1> QED
  BY <1>3, <1>4, <1>5

\* A control is shown as before when nothing of it changes.
LEMMA QuietHeard ==
    ASSUME NEW d, ControlHeard(d),
           UNCHANGED <<air, rawEvents, unsure, access, down, squeezed, mounted,
                       activeSource>>,
           activeSource = "offline" \/ UNCHANGED <<heldDown, pressure>>
    PROVE  ControlHeard(d)'
BY DEF ControlHeard, LastWord, Fresh, Doomed, SurfaceRight, Of, Words, Squeezes

\* What is lost with the daemon's stream.
LEMMA NoneStreamed ==
    ASSUME rawEvents' = <<>>, NEW d
    PROVE  /\ \A pressed, hard : LastWord(rawEvents', d, pressed, hard)
           /\ Fresh(rawEvents', d)
           /\ Of(rawEvents', d) = {} /\ Words(rawEvents', d) = {}
           /\ Squeezes(rawEvents', d) = {}
<1>1. DOMAIN rawEvents' = {}
  OBVIOUS
<1>2. /\ Of(rawEvents', d) = {} /\ Words(rawEvents', d) = {}
      /\ Squeezes(rawEvents', d) = {}
  BY <1>1 DEF Of, Words, Squeezes
<1> QED
  BY <1>2 DEF LastWord, Fresh

\* The stream is lost: the page missed what was on it, if it listened to it.
LEMMA StreamLost ==
    ASSUME HeardInv, NEW d \in Played, rawEvents' = <<>>,
           UNCHANGED <<air, down, squeezed, heldDown, pressure, activeSource>>,
           \/ /\ UNCHANGED <<unsure, access, mounted>> /\ activeSource # "daemon"
           \/ /\ UNCHANGED <<access, mounted>>
              /\ unsure' = unsure \cup {rawEvents[i].of : i \in DOMAIN rawEvents}
           \/ UNCHANGED unsure /\ mounted' = FALSE /\ access' = 0
    PROVE  ControlHeard(d)'
<1>1. ControlHeard(d)
  BY DEF HeardInv
<1>2. LastWord(air, d, down, squeezed)'
  BY <1>1 DEF ControlHeard
<1>3. LastWord(rawEvents, d, down, squeezed)' /\ Fresh(rawEvents, d)'
      /\ Words(rawEvents, d)' = {} /\ Squeezes(rawEvents, d)' = {}
  BY NoneStreamed
<1>4. ASSUME d \notin unsure'
      PROVE  /\ Fresh(air, d)' \/ Doomed(air, d)'
             /\ (mounted' /\ activeSource' = "browser" /\ ~Doomed(air, d)')
                   => SurfaceRight(air, d)'
             /\ (mounted' /\ activeSource' = "daemon") => SurfaceRight(rawEvents, d)'
  <2>1. d \notin unsure
    BY <1>4
  <2>2. CASE access' = access /\ mounted' = mounted
    <3>1. Doomed(air, d)' <=> Doomed(air, d)
      BY <2>2 DEF Doomed
    <3>2. SurfaceRight(air, d) => SurfaceRight(air, d)'
      BY DEF SurfaceRight
    <3>3. ASSUME activeSource = "daemon", mounted, SurfaceRight(rawEvents, d)
          PROVE  SurfaceRight(rawEvents, d)'
      <4>1. \A i \in DOMAIN rawEvents : rawEvents[i].of \in unsure'
        BY <2>2, <3>3 DEF HeardInv, SourceInv
      <4>2. Of(rawEvents, d) = {}
        BY <1>4, <4>1 DEF Of
      <4> QED
        BY <1>3, <3>3, <4>2 DEF SurfaceRight, Words, Squeezes
    <3> QED
      BY <1>1, <2>1, <2>2, <3>1, <3>2, <3>3 DEF ControlHeard
  <2>3. CASE mounted' = FALSE /\ access' = 0
    <3>1. \A i \in DOMAIN air : air[i].via # 0
      BY DEF HeardInv, QueuesTyped, SourceInv
    <3>2. Fresh(air, d)' \/ Doomed(air, d)'
      BY <2>3, <3>1 DEF Fresh, Doomed, Of
    <3> QED
      BY <2>3, <3>2
  <2> QED
    BY <2>2, <2>3
<1> QED
  BY <1>2, <1>3, <1>4 DEF ControlHeard

\* Another source, or the same anew: of what is under way the page does not know
\* more than before, and what is down it does not know at all.
LEMMA SourceHeard ==
    ASSUME HeardInv, NEW d \in Played, NEW mode, SetSourceMode(mode),
           UNCHANGED <<air, rawEvents, down, squeezed, mounted>>,
           \/ mode = "browser" /\ access' = access
           \/ access' = 0
    PROVE  ControlHeard(d)'
<1>1. ControlHeard(d)
  BY DEF HeardInv
<1>2. LastWord(air, d, down, squeezed)' /\ LastWord(rawEvents, d, down, squeezed)'
      /\ ((\E i \in Words(air, d) : air[i].last) => Fresh(rawEvents, d))'
  BY <1>1 DEF ControlHeard
<1>3. /\ heldDown' = {} /\ pressure' = {} /\ activeSource' = mode
      /\ unsure' = down \cup (unsure \cap UnderWay)
  BY DEF SetSourceMode, ResetSurface
<1>4. squeezed \subseteq down
  BY DEF HeardInv, QueuesTyped
<1>5. ASSUME d \notin unsure'
      PROVE  /\ d \notin down /\ d \notin squeezed
             /\ d \in unsure => Of(air, d) = {} /\ Of(rawEvents, d) = {}
  <2>1. d \notin down /\ (d \in unsure => d \notin UnderWay)
    BY <1>3, <1>5
  <2>2. d \notin UnderWay => Of(air, d) = {} /\ Of(rawEvents, d) = {}
    BY DEF UnderWay, Of
  <2> QED
    BY <1>4, <2>1, <2>2
<1>6. ASSUME d \notin unsure' PROVE Fresh(rawEvents, d)
  <2>1. Of(rawEvents, d) = {} => Fresh(rawEvents, d)
    BY DEF Fresh
  <2> QED
    BY <1>1, <1>5, <1>6, <2>1 DEF ControlHeard
<1>7. ASSUME d \notin unsure' PROVE Fresh(air, d)' \/ Doomed(air, d)'
  <2>1. CASE access' = access
    <3>1. Of(air, d) = {} => Fresh(air, d)
      BY DEF Fresh
    <3>2. Fresh(air, d)' <=> Fresh(air, d)
      BY DEF Fresh
    <3>3. Doomed(air, d) => Doomed(air, d)'
      BY <2>1 DEF Doomed
    <3> QED
      BY <1>1, <1>5, <1>7, <3>1, <3>2, <3>3 DEF ControlHeard
  <2>2. CASE access' = 0
    <3>1. \A i \in DOMAIN air : air[i].via # 0
      BY DEF HeardInv, QueuesTyped, SourceInv
    <3> QED
      BY <2>2, <3>1 DEF Fresh, Doomed, Of
  <2> QED
    BY <2>1, <2>2
<1>8. ASSUME NEW q, LastWord(q, d, down, squeezed), Fresh(q, d), d \notin unsure',
             Words(q, d) = {}
      PROVE  Squeezes(q, d) = {}
  <2> SUFFICES ASSUME NEW i \in Squeezes(q, d) PROVE FALSE
    OBVIOUS
  <2>1. i \in Of(q, d) /\ q[i].last
    BY <1>8 DEF Fresh, Squeezes
  <2>2. d \in squeezed
    BY <1>8, <2>1 DEF LastWord
  <2> QED
    BY <1>5, <1>8, <2>2
<1>9. ASSUME NEW q, Squeezes(q, d) = {} \/ Words(q, d) # {}, d \notin unsure'
      PROVE  Words(q, d) = {} =>
                /\ d \in heldDown' <=> d \in down'
                /\ d \in squeezed' <=> ((d \in heldDown' /\ d \in pressure')
                                          \/ Squeezes(q, d) # {})
  BY <1>3, <1>5, <1>9
<1>10. ASSUME d \notin unsure', ~Doomed(air, d)' PROVE SurfaceRight(air, d)'
  <2>1. Fresh(air, d)
    BY <1>7, <1>10 DEF Fresh
  <2>2. LastWord(air, d, down, squeezed)
    BY <1>1 DEF ControlHeard
  <2>3. Words(air, d) = {} => Squeezes(air, d) = {}
    BY <1>8, <1>10, <2>1, <2>2
  <2> QED
    BY <1>9, <1>10, <2>3 DEF SurfaceRight
<1>11. ASSUME d \notin unsure' PROVE SurfaceRight(rawEvents, d)'
  <2>1. LastWord(rawEvents, d, down, squeezed)
    BY <1>1 DEF ControlHeard
  <2>2. Words(rawEvents, d) = {} => Squeezes(rawEvents, d) = {}
    BY <1>6, <1>8, <1>11, <2>1
  <2> QED
    BY <1>9, <1>11, <2>2 DEF SurfaceRight
<1>12. d \notin unsure' => Fresh(rawEvents, d)'
  BY <1>6 DEF Fresh
<1> QED
  BY <1>2, <1>7, <1>10, <1>11, <1>12 DEF ControlHeard

\* Another access is granted than what is under way came by.
LEMMA GrantedHeard ==
    ASSUME HeardInv, NEW d \in Played, NEW t \in asks, Granted(t)
    PROVE  ControlHeard(d)'
<1>1. UNCHANGED <<mounted, activeSource, air, rawEvents, heldDown, pressure, down,
                  squeezed, unsure>>
  BY DEF Granted, daemonIn, surface, keyboard
<1>2. access' = t \/ access' = access
  BY DEF Granted
<1>3. ControlHeard(d)
  BY DEF HeardInv
<1>4. CASE access' = access
  BY <1>1, <1>3, <1>4, QuietHeard
<1>5. CASE access' = t
  <2>1. \A i \in DOMAIN air : air[i].via # access'
    BY <1>5 DEF HeardInv, QueuesTyped
  <2>2. Doomed(air, d)' <=> Of(air, d) # {}
    BY <1>1, <2>1 DEF Doomed, Of
  <2>3. Of(air, d) = {} => Fresh(air, d)' /\ ~Doomed(air, d)
    BY <1>1 DEF Fresh, Doomed, Of
  <2>4. SurfaceRight(air, d) => SurfaceRight(air, d)'
    BY <1>1 DEF SurfaceRight
  <2>5. SurfaceRight(rawEvents, d) => SurfaceRight(rawEvents, d)'
    BY <1>1 DEF SurfaceRight
  <2> QED
    BY <1>1, <1>3, <2>2, <2>3, <2>4, <2>5 DEF ControlHeard
<1> QED
  BY <1>2, <1>4, <1>5

\* The first message of the queue listened to is heard.
LEMMA HearStep ==
    ASSUME QueuesTyped, NEW q, IsSeq(q), q # <<>>, NEW d,
           LastWord(q, d, down, squeezed),
           NEW c \in Played, Head(q).of = c, Head(q).msg \in MessagesOf(c),
           NEW mode, NEW e \in {decodeMessage(Head(q).msg),
                                decodeBackendRaw(midiRaw(Head(q).msg))},
           mode = activeSource, Hear(mode, Head(q), e),
           UNCHANGED <<down, squeezed>>,
           d \notin unsure => Fresh(q, d) /\ SurfaceRight(q, d),
           d \notin unsure'
    PROVE  Fresh(Tail(q), d) /\ SurfaceRight(Tail(q), d)'
<1> DEFINE r == Tail(q)
           a == Head(q)
<1>1. ShowEvent(mode, e)
      /\ unsure' = IF a.last /\ e.kind # "poly-aftertouch" THEN unsure \ {c} ELSE unsure
  BY DEF Hear, Ingest
<1>2. /\ \A b : b # c => /\ b \in heldDown' <=> b \in heldDown
                         /\ b \in pressure' <=> b \in pressure
      /\ a.msg.family = 160 => heldDown' = heldDown /\ c \in pressure'
      /\ a.msg.family # 160 => /\ c \in heldDown' <=> a.msg = OnMessage(c)
                               /\ c \notin pressure'
  <2>1. \A b \in pressure : IsPad(b)
    BY DEF QueuesTyped
  <2> QED
    BY <1>1, <2>1, MessageShown
<1>3. a.msg.family = 160 <=> e.kind = "poly-aftertouch"
  BY MessagesRead
<1>4. /\ \A i \in DOMAIN r : i + 1 \in DOMAIN q /\ r[i] = q[i + 1]
      /\ \A i \in Words(r, d) : i + 1 \in Words(q, d)
      /\ \A i \in Words(q, d) : i # 1 => i - 1 \in Words(r, d)
      /\ \A i \in Squeezes(r, d) : i + 1 \in Squeezes(q, d)
      /\ \A i \in Squeezes(q, d) : i # 1 => i - 1 \in Squeezes(r, d)
      /\ 1 \in DOMAIN q /\ a = q[1]
      /\ Of(r, d) \subseteq Nat \ {0} /\ Of(q, d) \subseteq Nat \ {0}
  BY TakenHeard
<1>5. Fresh(q, d) => Fresh(r, d)
  BY TakenLastWord
<1> HIDE DEF r, a
<1>6. UNCHANGED <<down, squeezed>>
  OBVIOUS
<1>7. CASE d # c
  <2>1. d \notin unsure
    BY <1>1, <1>7
  <2>2. 1 \notin Words(q, d) /\ 1 \notin Squeezes(q, d)
    BY <1>4, <1>7 DEF Words, Squeezes, Of, a
  <2>3. /\ Words(r, d) = {} <=> Words(q, d) = {}
        /\ Squeezes(r, d) = {} <=> Squeezes(q, d) = {}
    BY <1>4, <2>2
  <2>4. Fresh(q, d) /\ SurfaceRight(q, d)
    BY <2>1
  <2>5. SurfaceRight(r, d)'
    BY <1>2, <1>6, <1>7, <2>3, <2>4 DEF SurfaceRight
  <2> QED
    BY <1>5, <2>4, <2>5 DEF r
<1>8. CASE d = c /\ a.msg.family = 160
  <2>1. d \notin unsure
    BY <1>1, <1>3, <1>8
  <2>2. 1 \in Squeezes(q, d) /\ 1 \notin Words(q, d)
    BY <1>4, <1>8 DEF Squeezes, Words, Of, a
  <2>3. Words(r, d) = {} => Words(q, d) = {}
    BY <1>4, <2>2
  <2>4. Fresh(q, d) /\ SurfaceRight(q, d)
    BY <2>1
  <2>5. squeezed \subseteq down
    BY DEF QueuesTyped
  <2>6. SurfaceRight(r, d)'
    BY <1>2, <1>6, <1>8, <2>2, <2>3, <2>4, <2>5 DEF SurfaceRight
  <2> QED
    BY <1>5, <2>4, <2>6 DEF r
<1>9. CASE d = c /\ a.msg.family # 160
  <2>1. 1 \in Words(q, d) /\ 1 \in Of(q, d) /\ q[1] = a
    BY <1>4, <1>9 DEF Words, Of, a
  <2>2. /\ Words(q, d) \subseteq Of(q, d) /\ Squeezes(q, d) \subseteq Of(q, d)
        /\ \A i \in Squeezes(q, d) : i \notin Words(q, d)
    BY DEF Words, Squeezes
  <2>3. CASE a.last
    <3>1. Fresh(q, d)
      BY <2>1, <2>3 DEF Fresh
    <3>2. ASSUME Words(r, d) = {}
          PROVE  /\ d \in heldDown' <=> d \in down'
                 /\ d \in squeezed' <=> Squeezes(r, d) # {}
      <4>1. \A j \in Words(q, d) : j = 1
        BY <1>4, <3>2
      <4>2. \A j \in Words(q, d) : j <= 1
        BY <4>1
      <4>3. /\ (q[1].msg = OnMessage(d)) <=> d \in down
            /\ d \in squeezed => \E j \in Squeezes(q, d) : 1 < j
        BY <2>1, <2>3, <4>2 DEF LastWord
      <4>4. d \in squeezed => Squeezes(r, d) # {}
        <5>1. \A j \in Squeezes(q, d) : 1 < j => j # 1
          OBVIOUS
        <5> QED
          BY <1>4, <4>3, <5>1
      <4>5. ASSUME NEW k \in Squeezes(r, d) PROVE d \in squeezed
        <5>1. k + 1 \in Squeezes(q, d) /\ 1 < k + 1
          <6>1. k \in Of(r, d)
            BY DEF Squeezes
          <6>2. k \in Nat \ {0}
            BY <1>4, <6>1
          <6> QED
            BY <1>4, <6>2
        <5>2. q[k + 1].last
          BY <2>1, <2>2, <2>3, <5>1 DEF LastWord
        <5>3. \A j \in Words(q, d) : j < k + 1
          BY <4>1, <5>1
        <5> QED
          BY <5>1, <5>2, <5>3 DEF LastWord
      <4>6. d \in heldDown' <=> d \in down'
        BY <1>2, <1>6, <1>9, <2>1, <4>3
      <4> QED
        BY <1>6, <4>4, <4>5, <4>6
    <3>3. SurfaceRight(r, d)'
      BY <1>2, <1>9, <3>2 DEF SurfaceRight
    <3> QED
      BY <1>5, <3>1, <3>3 DEF r
  <2>4. CASE ~a.last
    <3>1. d \notin unsure
      BY <1>1, <2>4
    <3>2. Fresh(q, d)
      BY <3>1
    <3>3. PICK i \in Words(q, d) : q[i].last
      BY <2>1, <2>4, <3>2 DEF Fresh
    <3>4. i # 1
      BY <2>1, <2>4, <3>3
    <3>5. Words(r, d) # {}
      BY <1>4, <3>4
    <3>6. SurfaceRight(r, d)'
      BY <3>5 DEF SurfaceRight
    <3> QED
      BY <1>5, <3>2, <3>6 DEF r
  <2> QED
    BY <2>3, <2>4
<1> QED
  BY <1>7, <1>8, <1>9

LEMMA BrowserMessageHeard ==
    ASSUME HeardInv, NEW d \in Played, BrowserMessage
    PROVE  ControlHeard(d)'
<1>0. PICK q : q = air
  OBVIOUS
<1> DEFINE a == Head(q)
           c == a.of
           e == decodeMessage(a.msg)
           r == Tail(q)
<1>1. /\ q # <<>> /\ air' = r
      /\ UNCHANGED <<mounted, activeSource, access, rawEvents, down, squeezed>>
  BY <1>0 DEF BrowserMessage, chosen, daemonIn, keyboard
<1>2. \/ a.via = access /\ a.msg.port \in heard /\ Hear("browser", a, e)
      \/ /\ ~(a.via = access /\ a.msg.port \in heard)
         /\ unsure' = unsure \cup {c} /\ UNCHANGED surface
  BY <1>0 DEF BrowserMessage
<1>3. /\ QueuesTyped /\ SourceInv /\ IsSeq(q)
      /\ LastWord(q, d, down, squeezed) /\ LastWord(rawEvents, d, down, squeezed)
      /\ (\E i \in Words(q, d) : q[i].last) => Fresh(rawEvents, d)
      /\ d \notin unsure =>
            /\ Fresh(rawEvents, d)
            /\ Fresh(q, d) \/ Doomed(q, d)
            /\ (mounted /\ activeSource = "browser" /\ ~Doomed(q, d)) =>
                  SurfaceRight(q, d)
            /\ (mounted /\ activeSource = "daemon") => SurfaceRight(rawEvents, d)
  BY <1>0 DEF HeardInv, QueuesTyped, ControlHeard
<1>4. LastWord(q, d, down, squeezed) /\ LastWord(rawEvents, d, down, squeezed)
  BY <1>3 DEF ControlHeard
<1>5. LastWord(r, d, down, squeezed) /\ (Fresh(q, d) => Fresh(r, d))
  BY <1>1, <1>3, <1>4, TakenLastWord
<1>6. /\ \A i \in DOMAIN r : i + 1 \in DOMAIN q /\ r[i] = q[i + 1]
      /\ \A i \in Of(r, d) : i + 1 \in Of(q, d)
      /\ \A i \in Of(q, d) : i # 1 => i - 1 \in Of(r, d)
      /\ \A i \in Words(r, d) : i + 1 \in Words(q, d)
      /\ \A i \in Words(q, d) : i # 1 => i - 1 \in Words(r, d)
      /\ \A i \in Squeezes(r, d) : i + 1 \in Squeezes(q, d)
      /\ \A i \in Squeezes(q, d) : i # 1 => i - 1 \in Squeezes(r, d)
      /\ 1 \in DOMAIN q /\ a = q[1]
      /\ Of(r, d) \subseteq Nat \ {0} /\ Of(q, d) \subseteq Nat \ {0}
  BY <1>1, <1>3, TakenHeard
<1>7. c \in Played /\ a.msg \in MessagesOf(c) /\ a.via # 0
  BY <1>0, <1>3, <1>6 DEF QueuesTyped, SourceInv
<1> HIDE DEF r, a, c, e
<1>8. Words(r, d) \subseteq Of(r, d) /\ Of(r, d) \subseteq DOMAIN r
  BY DEF Words, Of
<1>9. (\E i \in Words(r, d) : r[i].last) => Fresh(rawEvents, d)
  <2>1. (\E i \in Words(r, d) : r[i].last) => \E i \in Words(q, d) : q[i].last
    BY <1>6, <1>8
  <2> QED
    BY <1>3, <2>1 DEF ControlHeard
<1>10. ASSUME NEW i \in Of(q, d), i # 1, q[i].via # access
       PROVE  Doomed(r, d)'
  <2>1. i - 1 \in Of(r, d) /\ i \in Nat
    BY <1>6, <1>10
  <2>2. r[i - 1] = q[(i - 1) + 1]
    BY <1>6, <1>8, <2>1
  <2>3. r[i - 1] = q[i]
    BY <2>1, <2>2
  <2> QED
    BY <1>1, <1>10, <2>1, <2>3 DEF Doomed
<1>11. CASE a.via = access /\ a.msg.port \in heard /\ Hear("browser", a, e)
  <2>1. activeSource = "browser" /\ mounted
    BY <1>3, <1>7, <1>11 DEF SourceInv
  <2>2. Doomed(q, d) => Doomed(r, d)'
    <3> SUFFICES ASSUME NEW i \in Of(q, d), q[i].via # access PROVE Doomed(r, d)'
      BY DEF Doomed
    <3>1. i # 1
      BY <1>6, <1>11
    <3> QED
      BY <1>10, <3>1
  <2>3. unsure' = IF a.last /\ e.kind # "poly-aftertouch" THEN unsure \ {c} ELSE unsure
    BY <1>11, <2>1 DEF Hear, c
  <2>4. d \notin unsure' => Fresh(rawEvents, d)
    <3>1. CASE d \notin unsure
      BY <1>3, <3>1 DEF ControlHeard
    <3>2. ASSUME d \in unsure, d \notin unsure' PROVE Fresh(rawEvents, d)
      <4>1. a.last /\ e.kind # "poly-aftertouch" /\ d = c
        BY <2>3, <3>2
      <4>2. a.msg.family # 160
        BY <1>7, <4>1, MessagesRead DEF e
      <4>3. 1 \in Words(q, d) /\ q[1].last
        BY <1>6, <4>1, <4>2 DEF Words, Of, c
      <4> QED
        BY <1>3, <4>3 DEF ControlHeard
    <3> QED
      BY <3>1, <3>2
  <2>5. ASSUME d \notin unsure', ~Doomed(r, d)'
        PROVE  Fresh(r, d) /\ SurfaceRight(r, d)'
    <3>1. ~Doomed(q, d)
      BY <2>2, <2>5
    <3>2. d \notin unsure => Fresh(q, d) /\ SurfaceRight(q, d)
      BY <1>3, <2>1, <3>1 DEF ControlHeard
    <3>3. Head(q).of = c /\ Head(q).msg \in MessagesOf(c)
      BY <1>7 DEF a, c
    <3>4. Hear("browser", Head(q), decodeMessage(Head(q).msg))
      BY <1>11 DEF a, e
    <3>5. Fresh(Tail(q), d) /\ SurfaceRight(Tail(q), d)'
      BY <1>1, <1>3, <1>4, <1>7, <2>1, <2>5, <3>2, <3>3, <3>4, HearStep
    <3> QED
      BY <3>5 DEF r
  <2> QED
    BY <1>1, <1>4, <1>5, <1>9, <2>1, <2>4, <2>5 DEF ControlHeard
<1>12. CASE /\ ~(a.via = access /\ a.msg.port \in heard)
            /\ unsure' = unsure \cup {c} /\ UNCHANGED surface
  <2>1. ASSUME d \notin unsure'
        PROVE  /\ Fresh(rawEvents, d)
               /\ Fresh(r, d) \/ Doomed(r, d)'
               /\ (mounted /\ activeSource = "browser" /\ ~Doomed(r, d)')
                     => SurfaceRight(r, d)'
               /\ (mounted /\ activeSource = "daemon") => SurfaceRight(rawEvents, d)'
    <3>1. d \notin unsure /\ d # c
      BY <1>12, <2>1
    <3>2. 1 \notin Of(q, d)
      BY <1>6, <3>1 DEF Of, c
    <3>3. Words(q, d) \subseteq Of(q, d) /\ Squeezes(q, d) \subseteq Of(q, d)
      BY DEF Words, Squeezes
    <3>4. /\ Words(r, d) = {} <=> Words(q, d) = {}
          /\ Squeezes(r, d) = {} <=> Squeezes(q, d) = {}
      BY <1>6, <3>2, <3>3
    <3>5. Doomed(q, d) => Doomed(r, d)'
      BY <1>10, <3>2 DEF Doomed
    <3>6. UNCHANGED <<heldDown, pressure, down, squeezed>>
      BY <1>1, <1>12 DEF surface
    <3>7. SurfaceRight(q, d) => SurfaceRight(r, d)'
      BY <3>4, <3>6 DEF SurfaceRight
    <3>8. SurfaceRight(rawEvents, d) => SurfaceRight(rawEvents, d)'
      BY <1>1, <3>6 DEF SurfaceRight
    <3> QED
      BY <1>3, <1>5, <3>1, <3>5, <3>7, <3>8 DEF ControlHeard
  <2> QED
    BY <1>1, <1>4, <1>5, <1>9, <2>1 DEF ControlHeard
<1> QED
  BY <1>2, <1>11, <1>12

LEMMA DaemonEventHeard ==
    ASSUME HeardInv, NEW d \in Played, DaemonEvent
    PROVE  ControlHeard(d)'
<1>0. PICK q : q = rawEvents
  OBVIOUS
<1> DEFINE a == Head(q)
           c == a.of
           e == decodeBackendRaw(midiRaw(a.msg))
           r == Tail(q)
<1>1. /\ q # <<>> /\ rawEvents' = r /\ sse = "open"
      /\ UNCHANGED <<mounted, activeSource, access, air, down, squeezed>>
      /\ Hear("daemon", a, e)
  BY <1>0 DEF DaemonEvent, chosen, browserIn, keyboard
<1>2. /\ QueuesTyped /\ SourceInv /\ IsSeq(q)
      /\ LastWord(air, d, down, squeezed) /\ LastWord(q, d, down, squeezed)
      /\ (\E i \in Words(air, d) : air[i].last) => Fresh(q, d)
      /\ d \notin unsure =>
            /\ Fresh(q, d)
            /\ Fresh(air, d) \/ Doomed(air, d)
            /\ (mounted /\ activeSource = "browser" /\ ~Doomed(air, d)) =>
                  SurfaceRight(air, d)
            /\ (mounted /\ activeSource = "daemon") => SurfaceRight(q, d)
  BY <1>0 DEF HeardInv, QueuesTyped, ControlHeard
<1>3. LastWord(air, d, down, squeezed) /\ LastWord(q, d, down, squeezed)
  BY <1>2 DEF ControlHeard
<1>4. LastWord(r, d, down, squeezed) /\ (Fresh(q, d) => Fresh(r, d))
  BY <1>1, <1>2, <1>3, TakenLastWord
<1>5. 1 \in DOMAIN q /\ a = q[1]
  BY <1>1, <1>2, RestOfSeq
<1>6. c \in Played /\ a.msg \in MessagesOf(c)
  BY <1>0, <1>2, <1>5 DEF QueuesTyped
<1> HIDE DEF r, a, c, e
<1>7. CASE activeSource = "daemon"
  <2>1. access = 0 /\ mounted
    BY <1>1, <1>2, <1>7 DEF SourceInv
  <2>2. \A i \in DOMAIN air : air[i].via # access
    BY <1>2, <2>1 DEF QueuesTyped, SourceInv
  <2>3. Fresh(air, d)' \/ Doomed(air, d)'
    BY <1>1, <2>2 DEF Fresh, Doomed, Of
  <2>4. ASSUME d \notin unsure' PROVE Fresh(r, d) /\ SurfaceRight(r, d)'
    <3>1. d \notin unsure => Fresh(q, d) /\ SurfaceRight(q, d)
      BY <1>2, <1>7, <2>1 DEF ControlHeard
    <3>2. Head(q).of = c /\ Head(q).msg \in MessagesOf(c)
      BY <1>6 DEF a, c
    <3>3. Hear("daemon", Head(q), decodeBackendRaw(midiRaw(Head(q).msg)))
      BY <1>1 DEF a, e
    <3>4. Fresh(Tail(q), d) /\ SurfaceRight(Tail(q), d)'
      BY <1>1, <1>2, <1>3, <1>6, <1>7, <2>4, <3>1, <3>2, <3>3, HearStep
    <3> QED
      BY <3>4 DEF r
  <2> QED
    BY <1>1, <1>2, <1>3, <1>4, <1>7, <2>3, <2>4 DEF ControlHeard
<1>8. CASE activeSource # "daemon"
  <2>1. unsure' = unsure /\ UNCHANGED <<heldDown, pressure>>
    BY <1>1, <1>8 DEF Hear, Ingest, surface
  <2>2. SurfaceRight(air, d) => SurfaceRight(air, d)'
    BY <1>1, <2>1 DEF SurfaceRight
  <2>3. Doomed(air, d)' <=> Doomed(air, d)
    BY <1>1 DEF Doomed
  <2> QED
    BY <1>1, <1>2, <1>3, <1>4, <1>8, <2>1, <2>2, <2>3 DEF ControlHeard
<1> QED
  BY <1>7, <1>8

\* The queues when the page does something, or hears something.
QueuesKept ==
    /\ UNCHANGED air \/ (air # <<>> /\ air' = Tail(air))
    /\ \/ UNCHANGED rawEvents \/ rawEvents' = <<>>
       \/ rawEvents # <<>> /\ rawEvents' = Tail(rawEvents)
    /\ sse' # "open" => rawEvents' = <<>>
    /\ UNCHANGED <<down, squeezed>>
    /\ token' \in Nat /\ token' >= token
    /\ \A t \in asks' : t \in asks \/ t = token + 1
    /\ asks' # asks => access' = access \/ (access' \in asks /\ access' \notin asks')
    /\ asks' = asks => access' = access \/ access' = 0
    /\ activeSource' \in {"browser", "daemon", "offline"}
    /\ \A b \in pressure' : IsPad(b)

LEMMA KeptTyped ==
    ASSUME QueuesTyped, SourceInv, QueuesKept
    PROVE  QueuesTyped'
<1>0. /\ token \in Nat /\ token' \in Nat /\ token' >= token /\ asks \subseteq 1..token
      /\ access \in 0..token /\ access \notin asks
      /\ IsSeq(air) /\ IsSeq(rawEvents)
  BY DEF QueuesTyped, SourceInv, QueuesKept
<1>1. \A t \in 0..token : t \notin asks => t \notin asks'
  BY <1>0 DEF QueuesKept
<1>2. access' \in 0..token' /\ access' \notin asks'
  <2>1. 0..token \subseteq 0..token' /\ 0 \in 0..token /\ asks \subseteq 0..token
    BY <1>0
  <2>2. 0 \notin asks /\ access \notin asks'
    BY <1>0, <1>1
  <2>3. \/ access' = access \/ access' = 0
        \/ access' \in asks /\ access' \notin asks'
    BY DEF QueuesKept
  <2> QED
    BY <1>0, <1>1, <2>1, <2>2, <2>3
<1>3. /\ IsSeq(air')
      /\ \A i \in DOMAIN air' :
            /\ air'[i] \in [of : Played, msg : MessagesOf(air'[i].of), last : BOOLEAN,
                            via : 1..token']
            /\ air'[i].via \notin asks'
  <2>1. ASSUME NEW i \in DOMAIN air
        PROVE  /\ air[i] \in [of : Played, msg : MessagesOf(air[i].of), last : BOOLEAN,
                              via : 1..token']
               /\ air[i].via \notin asks'
    <3>1. /\ air[i] \in [of : Played, msg : MessagesOf(air[i].of), last : BOOLEAN,
                         via : 1..token]
          /\ air[i].via \notin asks
      BY DEF QueuesTyped
    <3>2. 1..token \subseteq 1..token' /\ 1..token \subseteq 0..token
      BY <1>0
    <3>3. air[i].via \in 1..token
      BY <3>1
    <3>4. air[i] \in [of : Played, msg : MessagesOf(air[i].of), last : BOOLEAN,
                      via : 1..token']
      BY <3>1, <3>2
    <3> QED
      BY <1>1, <3>1, <3>2, <3>3, <3>4
  <2>2. CASE air' = air
    BY <1>0, <2>1, <2>2
  <2>3. CASE air # <<>> /\ air' = Tail(air)
    <3>1. /\ IsSeq(air')
          /\ \A i \in DOMAIN air' : i + 1 \in DOMAIN air /\ air'[i] = air[i + 1]
      BY <1>0, <2>3, RestOfSeq
    <3> QED
      BY <2>1, <3>1
  <2> QED
    BY <2>2, <2>3 DEF QueuesKept
<1>4. /\ IsSeq(rawEvents')
      /\ \A i \in DOMAIN rawEvents' : rawEvents'[i]
            \in [of : Played, msg : MessagesOf(rawEvents'[i].of), last : BOOLEAN]
  <2>1. \A i \in DOMAIN rawEvents : rawEvents[i]
           \in [of : Played, msg : MessagesOf(rawEvents[i].of), last : BOOLEAN]
    BY DEF QueuesTyped
  <2>2. CASE rawEvents' = rawEvents
    BY <1>0, <2>1, <2>2
  <2>3. CASE rawEvents' = <<>>
    <3>1. DOMAIN rawEvents' = {} /\ rawEvents' \in Seq({})
      BY <2>3
    <3> QED
      BY <3>1, OwnElements
  <2>4. CASE rawEvents # <<>> /\ rawEvents' = Tail(rawEvents)
    <3>1. /\ IsSeq(rawEvents')
          /\ \A i \in DOMAIN rawEvents' :
                i + 1 \in DOMAIN rawEvents /\ rawEvents'[i] = rawEvents[i + 1]
      BY <1>0, <2>4, RestOfSeq
    <3> QED
      BY <2>1, <3>1
  <2> QED
    BY <2>2, <2>3, <2>4 DEF QueuesKept
<1>5. /\ sse' # "open" => rawEvents' = <<>>
      /\ activeSource' \in {"browser", "daemon", "offline"}
      /\ squeezed' \subseteq down'
      /\ \A c \in squeezed' \cup pressure' : IsPad(c)
  BY DEF QueuesKept, QueuesTyped
<1> QED
  BY <1>2, <1>3, <1>4, <1>5 DEF QueuesTyped

\* What is missed or comes in leaves a queue a queue.
LEMMA MissedTyped ==
    ASSUME NEW q, IsSeq(q), NEW c
    PROVE  /\ IsSeq(NotLast(q, c)) /\ DOMAIN NotLast(q, c) = DOMAIN q
           /\ q = <<>> => NotLast(q, c) = <<>>
<1> DEFINE r == NotLast(q, c)
<1>1. DOMAIN q = 1 .. Len(q) /\ Len(q) \in Nat
  BY LenProperties DEF IsSeq
<1>2. DOMAIN r = 1 .. Len(q) /\ r = [i \in 1 .. Len(q) |-> r[i]]
  BY <1>1 DEF NotLast
<1> HIDE DEF r
<1> DEFINE S == {r[k] : k \in DOMAIN r}
<1>3. \A i \in 1 .. Len(q) : r[i] \in S
  BY <1>2
<1> HIDE DEF S
<1>4. r \in [1 .. Len(q) -> S]
  BY <1>2, <1>3
<1>5. r \in Seq(S)
  BY <1>1, <1>4, SeqDef
<1>6. q = <<>> => r = <<>>
  <2>1. q = <<>> => DOMAIN r = {}
    BY <1>1, <1>2
  <2>2. Len(r) \in Nat /\ DOMAIN r = 1 .. Len(r)
    BY <1>5, LenProperties
  <2>3. DOMAIN r = {} => Len(r) = 0
    BY <2>2
  <2> QED
    BY <1>5, <2>1, <2>3, EmptySeq
<1> QED
  BY <1>1, <1>2, <1>5, <1>6 DEF S, IsSeq, r

LEMMA KeyMessageTyped ==
    ASSUME HeardInv, NEW c, NEW m, KeyMessage(c, m)
    PROVE  QueuesTyped'
<1> DEFINE there == m.port \in plugged
           listened == there /\ m.port \in heard
           streamed == there /\ sse = "open"
           full == streamed /\ Len(rawEvents) = HubCap
           a == [of |-> c, msg |-> m, last |-> TRUE, via |-> access]
           b == [of |-> c, msg |-> m, last |-> TRUE]
           q == IF full THEN Tail(rawEvents) ELSE rawEvents
<1>1. /\ air' = IF listened THEN Append(air, a) ELSE NotLast(air, c)
      /\ rawEvents' = IF ~streamed THEN NotLast(rawEvents, c) ELSE Append(q, b)
      /\ UNCHANGED <<activeSource, token, asks, access, sse, pressure>>
      /\ c \in Played /\ m \in MessagesOf(c)
  BY DEF KeyMessage, Emit, KeyboardStep, chosen, surface
<1>2. /\ QueuesTyped /\ SourceInv
      /\ IsSeq(air) /\ IsSeq(rawEvents) /\ access \in 0..token /\ access \notin asks
  BY DEF HeardInv, QueuesTyped
<1>3. listened => a \in [of : Played, msg : MessagesOf(a.of), last : BOOLEAN, via : 1..token]
                  /\ a.via \notin asks
  <2>1. listened => access # 0
    BY <1>2 DEF SourceInv
  <2>2. listened => access \in 1..token
    BY <1>2, <2>1 DEF SourceInv
  <2> QED
    BY <1>1, <1>2, <2>2
<1>4. b \in [of : Played, msg : MessagesOf(b.of), last : BOOLEAN]
  BY <1>1
<1>5. /\ IsSeq(air')
      /\ \A i \in DOMAIN air' :
            /\ air'[i] \in [of : Played, msg : MessagesOf(air'[i].of), last : BOOLEAN,
                            via : 1..token]
            /\ air'[i].via \notin asks
  <2>1. \A i \in DOMAIN air :
           /\ air[i] \in [of : Played, msg : MessagesOf(air[i].of), last : BOOLEAN,
                          via : 1..token]
           /\ air[i].via \notin asks
    BY <1>2 DEF QueuesTyped
  <2>2. CASE listened
    <3>1. /\ IsSeq(air') /\ DOMAIN air' = 1 .. Len(air) + 1
          /\ air'[Len(air) + 1] = a /\ \A k \in DOMAIN air : air'[k] = air[k]
      BY <1>1, <1>2, <2>2, SeqAndLast
    <3>2. DOMAIN air = 1 .. Len(air) /\ Len(air) \in Nat
      BY <1>2, LenProperties DEF IsSeq
    <3>3. \A i \in DOMAIN air' : i \in DOMAIN air \/ i = Len(air) + 1
      BY <3>1, <3>2
    <3> HIDE DEF a, listened
    <3> QED
      BY <1>3, <2>1, <2>2, <3>1, <3>3
  <2>3. CASE ~listened
    <3>1. air' = NotLast(air, c) /\ IsSeq(air') /\ DOMAIN air' = DOMAIN air
      BY <1>1, <1>2, <2>3, MissedTyped
    <3>2. \A i \in DOMAIN air :
             air'[i] = [air[i] EXCEPT !.last = air[i].last /\ air[i].of # c]
      BY <3>1 DEF NotLast
    <3> SUFFICES ASSUME NEW i \in DOMAIN air
                 PROVE  /\ air'[i] \in [of : Played, msg : MessagesOf(air'[i].of),
                                        last : BOOLEAN, via : 1..token]
                        /\ air'[i].via \notin asks
      BY <3>1
    <3>3. PICK x : x = air[i]
      OBVIOUS
    <3>4. air'[i] = [x EXCEPT !.last = x.last /\ x.of # c]
      BY <3>2, <3>3
    <3>5. /\ x \in [of : Played, msg : MessagesOf(x.of), last : BOOLEAN, via : 1..token]
          /\ x.via \notin asks
      BY <2>1, <3>3
    <3>6. air'[i].of = x.of /\ air'[i].via = x.via
      BY <3>4, <3>5
    <3>7. MessagesOf(air'[i].of) = MessagesOf(x.of)
      BY <3>6
    <3>8. air'[i] \in [of : Played, msg : MessagesOf(x.of), last : BOOLEAN, via : 1..token]
      BY <3>4, <3>5
    <3> QED
      BY <3>5, <3>6, <3>7, <3>8
  <2> QED
    BY <2>2, <2>3
<1>6. /\ IsSeq(rawEvents')
      /\ \A i \in DOMAIN rawEvents' : rawEvents'[i]
            \in [of : Played, msg : MessagesOf(rawEvents'[i].of), last : BOOLEAN]
  <2>1. \A i \in DOMAIN rawEvents :
           rawEvents[i] \in [of : Played, msg : MessagesOf(rawEvents[i].of), last : BOOLEAN]
    BY <1>2 DEF QueuesTyped
  <2>2. CASE streamed
    <3>1. /\ IsSeq(q)
          /\ \A i \in DOMAIN q :
                q[i] \in [of : Played, msg : MessagesOf(q[i].of), last : BOOLEAN]
      <4>1. CASE full
        <5>1. rawEvents # <<>>
          BY <4>1, CapsAssumption
        <5>2. /\ IsSeq(Tail(rawEvents))
              /\ \A k \in DOMAIN Tail(rawEvents) : k + 1 \in DOMAIN rawEvents
                    /\ Tail(rawEvents)[k] = rawEvents[k + 1]
          BY <1>2, <5>1, RestOfSeq
        <5> QED
          BY <2>1, <4>1, <5>2
      <4>2. CASE ~full
        BY <1>2, <2>1, <4>2
      <4> QED
        BY <4>1, <4>2
    <3>2. rawEvents' = Append(q, b)
      BY <1>1, <2>2
    <3> HIDE DEF q, b
    <3>3. /\ IsSeq(rawEvents') /\ DOMAIN rawEvents' = 1 .. Len(q) + 1
          /\ rawEvents'[Len(q) + 1] = b /\ \A k \in DOMAIN q : rawEvents'[k] = q[k]
      BY <3>1, <3>2, SeqAndLast
    <3>4. DOMAIN q = 1 .. Len(q) /\ Len(q) \in Nat
      BY <3>1, LenProperties DEF IsSeq
    <3>5. \A i \in DOMAIN rawEvents' : i \in DOMAIN q \/ i = Len(q) + 1
      BY <3>3, <3>4
    <3> QED
      BY <1>4, <3>1, <3>3, <3>5
  <2>3. CASE ~streamed
    <3>1. /\ rawEvents' = NotLast(rawEvents, c) /\ IsSeq(rawEvents')
          /\ DOMAIN rawEvents' = DOMAIN rawEvents
      BY <1>1, <1>2, <2>3, MissedTyped
    <3>2. \A i \in DOMAIN rawEvents :
             rawEvents'[i] = [rawEvents[i] EXCEPT !.last = rawEvents[i].last
                                                           /\ rawEvents[i].of # c]
      BY <3>1 DEF NotLast
    <3> SUFFICES ASSUME NEW i \in DOMAIN rawEvents
                 PROVE  rawEvents'[i] \in [of : Played, msg : MessagesOf(rawEvents'[i].of),
                                          last : BOOLEAN]
      BY <3>1
    <3>3. PICK x : x = rawEvents[i]
      OBVIOUS
    <3>4. rawEvents'[i] = [x EXCEPT !.last = x.last /\ x.of # c]
      BY <3>2, <3>3
    <3>5. x \in [of : Played, msg : MessagesOf(x.of), last : BOOLEAN]
      BY <2>1, <3>3
    <3>6. MessagesOf(rawEvents'[i].of) = MessagesOf(x.of)
      BY <3>4, <3>5
    <3>7. rawEvents'[i] \in [of : Played, msg : MessagesOf(x.of), last : BOOLEAN]
      BY <3>4, <3>5
    <3> QED
      BY <3>6, <3>7
  <2> QED
    BY <2>2, <2>3
<1>7. sse' # "open" => rawEvents' = <<>>
  BY <1>1, <1>2, MissedTyped DEF QueuesTyped
<1> HIDE DEF a, b, q, there, listened, streamed, full
<1>8. m.family = 160 => IsPad(c)
  BY <1>1, MessagesRead
<1>9. squeezed' \subseteq down' /\ \A x \in squeezed' \cup pressure' : IsPad(x)
  <2>1. /\ \A d : d # c => AsBefore(d, down, squeezed, down', squeezed')
        /\ \/ c \notin squeezed'
           \/ m.family = 160 /\ (c \in down' <=> c \in down) /\ c \in down
    BY DEF KeyMessage
  <2>2. squeezed \subseteq down /\ \A x \in squeezed \cup pressure : IsPad(x)
    BY <1>2 DEF QueuesTyped
  <2> QED
    BY <1>1, <1>8, <2>1, <2>2 DEF AsBefore
<1>10. activeSource' \in {"browser", "daemon", "offline"}
  BY <1>1, <1>2 DEF QueuesTyped
<1> QED
  BY <1>1, <1>2, <1>5, <1>6, <1>7, <1>9, <1>10 DEF QueuesTyped

LEMMA IngestPads ==
    ASSUME NEW mode, NEW e, Ingest(mode, e), \A b \in pressure : IsPad(b)
    PROVE  \A b \in pressure' : IsPad(b)
<1>1. \/ pressure' = pressure \/ pressure' = pressure \ {e.control}
      \/ IsPad(e.control) /\ pressure' = pressure \cup {e.control}
  BY DEF Ingest, ShowEvent, surface
<1> QED
  BY <1>1

Heard == QueuesKept /\ \A d \in Played : ControlHeard(d)'

\* The facts about the state that the steps below carry over.
LEMMA HeardFacts ==
    ASSUME HeardInv
    PROVE  /\ QueuesTyped /\ SourceInv /\ \A d \in Played : ControlHeard(d)
           /\ token \in Nat /\ asks \subseteq 1..token
           /\ sse # "open" => rawEvents = <<>>
           /\ activeSource \in {"browser", "daemon", "offline"}
           /\ \A b \in pressure : IsPad(b)
BY DEF HeardInv, QueuesTyped, SourceInv

\* Steps that touch nothing of what is shown.
LEMMA QuietSteps ==
    ASSUME HeardInv,
           \/ \E p \in {"DAW", "MIDI"} : PortChanges(p)
           \/ \E t \in asks : Refused(t)
           \/ \E f \in Files : ImportReport(f)
           \/ \E f \in imports : ImportFails(f)
           \/ StateChange \/ SseOpens \/ SseRetry \/ Step \/ ReplayTick
           \/ UNCHANGED debugVars
    PROVE  Heard
<1> USE HeardFacts
<1> DEFINE Quiet ==
        /\ UNCHANGED <<air, rawEvents, unsure, access, down, squeezed, mounted,
                       activeSource, token>>
        /\ activeSource = "offline" \/ UNCHANGED <<heldDown, pressure>>
        /\ asks' \subseteq asks
        /\ sse' # "open" => rawEvents' = <<>>
        /\ \A b \in pressure' : IsPad(b)
<1>1. Quiet
  <2>1. ASSUME NEW p, PortChanges(p) PROVE Quiet
    BY <2>1 DEF PortChanges, chosen, daemonIn, surface
  <2>2. ASSUME NEW t, Refused(t) PROVE Quiet
    BY <2>2 DEF Refused, browserIn, daemonIn, surface, keyboard
  <2>3. ASSUME NEW f, ImportReport(f) \/ ImportFails(f) PROVE Quiet
    BY <2>3 DEF ImportReport, ImportFails, chosen, browserIn, daemonIn, surface, keyboard
  <2>4. CASE StateChange
    BY <2>4 DEF StateChange, chosen, daemonIn, surface, keyboard
  <2>5. CASE SseOpens \/ SseRetry
    BY <2>5 DEF SseOpens, SseRetry, chosen, browserIn, surface, keyboard
  <2>6. ASSUME NEW e, Ingest("offline", e),
               UNCHANGED <<chosen, browserIn, daemonIn, keyboard, unsure>>
        PROVE  Quiet
    <3>1. activeSource = "offline" \/ UNCHANGED <<heldDown, pressure>>
      BY <2>6 DEF Ingest, surface
    <3>2. \A b \in pressure' : IsPad(b)
      BY <2>6, IngestPads
    <3> QED
      BY <2>6, <3>1, <3>2 DEF chosen, browserIn, daemonIn, keyboard
  <2>7. CASE Step
    BY <2>6, <2>7 DEF Step
  <2>8. CASE ReplayTick
    BY <2>6, <2>8 DEF ReplayTick
  <2>9. CASE UNCHANGED debugVars
    BY <2>9 DEF debugVars, chosen, browserIn, daemonIn, surface, keyboard
  <2> QED
    BY <2>1, <2>2, <2>3, <2>4, <2>5, <2>7, <2>8, <2>9
<1>2. QueuesKept
  BY <1>1 DEF QueuesKept
<1>3. \A d \in Played : ControlHeard(d)'
  BY <1>1, QuietHeard
<1> QED
  BY <1>2, <1>3 DEF Heard

\* Steps with which the page loses what is on the daemon's stream.
LEMMA StreamSteps ==
    ASSUME HeardInv, Effects \/ SseFails \/ Unmount
    PROVE  Heard
<1> USE HeardFacts
<1>1. CASE Effects /\ activeSource = "daemon"
  <2>1. /\ UNCHANGED <<air, rawEvents, unsure, access, down, squeezed, mounted,
                       activeSource, token, asks, heldDown, pressure>>
        /\ sse' # "open" => sse # "open"
    BY <1>1 DEF Effects, chosen, browserIn, surface, keyboard
  <2>2. QueuesKept
    BY <2>1 DEF QueuesKept
  <2>3. \A d \in Played : ControlHeard(d)'
    BY <2>1, QuietHeard
  <2> QED
    BY <2>2, <2>3 DEF Heard
<1>2. CASE Effects /\ activeSource # "daemon"
  <2>1. /\ UNCHANGED <<air, unsure, access, down, squeezed, mounted,
                       activeSource, token, asks, heldDown, pressure>>
        /\ rawEvents' = <<>>
    BY <1>2 DEF Effects, chosen, browserIn, surface, keyboard
  <2>2. QueuesKept
    BY <2>1 DEF QueuesKept
  <2>3. \A d \in Played : ControlHeard(d)'
    BY <1>2, <2>1, StreamLost
  <2> QED
    BY <2>2, <2>3 DEF Heard
<1>3. CASE SseFails
  <2>1. /\ UNCHANGED <<air, access, down, squeezed, mounted,
                       activeSource, token, asks, heldDown, pressure>>
        /\ rawEvents' = <<>>
        /\ unsure' = unsure \cup {rawEvents[i].of : i \in DOMAIN rawEvents}
    BY <1>3 DEF SseFails, chosen, browserIn, surface, keyboard
  <2>2. QueuesKept
    BY <2>1 DEF QueuesKept
  <2>3. \A d \in Played : ControlHeard(d)'
    BY <2>1, StreamLost
  <2> QED
    BY <2>2, <2>3 DEF Heard
<1>4. CASE Unmount
  <2>1. /\ UNCHANGED <<air, unsure, down, squeezed, activeSource, asks, heldDown,
                       pressure>>
        /\ rawEvents' = <<>> /\ mounted' = FALSE /\ access' = 0 /\ token' = token + 1
    BY <1>4 DEF Unmount, DisconnectBrowser, surface, keyboard
  <2>2. QueuesKept
    BY <2>1 DEF QueuesKept
  <2>3. \A d \in Played : ControlHeard(d)'
    BY <2>1, StreamLost
  <2> QED
    BY <2>2, <2>3 DEF Heard
<1> QED
  BY <1>1, <1>2, <1>3, <1>4

\* Steps with which another source is chosen, or the same anew.
LEMMA SourceSteps ==
    ASSUME HeardInv,
           \/ ConnectBrowser \/ PlayPause
           \/ \E mode \in {"daemon", "offline"} : ChooseSource(mode)
           \/ \E f \in imports : ImportDone(f)
    PROVE  Heard
<1> USE HeardFacts
<1>1. ASSUME NEW mode \in {"browser", "daemon", "offline"}, SetSourceMode(mode),
             UNCHANGED <<air, rawEvents, down, squeezed, mounted, sse>>,
             token' = token + 1,
             \/ /\ mode = "browser" /\ access' = access
                /\ asks' = asks \cup {token + 1}
             \/ access' = 0 /\ asks' = asks
      PROVE  Heard
  <2>1. activeSource' = mode /\ pressure' = {}
    BY <1>1 DEF SetSourceMode, ResetSurface
  <2>2. QueuesKept
    <3>1. \A t \in asks' : t \in asks \/ t = token + 1
      BY <1>1
    <3>2. /\ asks' # asks => access' = access
          /\ asks' = asks => access' = access \/ access' = 0
      BY <1>1
    <3> QED
      BY <1>1, <2>1, <3>1, <3>2 DEF QueuesKept
  <2>3. \A d \in Played : ControlHeard(d)'
    BY <1>1, SourceHeard
  <2> QED
    BY <2>2, <2>3 DEF Heard
<1>2. CASE ConnectBrowser
  BY <1>1, <1>2 DEF ConnectBrowser, browserIn, daemonIn, keyboard
<1>3. CASE PlayPause
  BY <1>1, <1>3 DEF PlayPause, DisconnectBrowser, daemonIn, keyboard
<1>4. ASSUME NEW mode \in {"daemon", "offline"}, ChooseSource(mode) PROVE Heard
  BY <1>1, <1>4 DEF ChooseSource, DisconnectBrowser, daemonIn, keyboard
<1>5. ASSUME NEW f, ImportDone(f) PROVE Heard
  BY <1>1, <1>5 DEF ImportDone, DisconnectBrowser, daemonIn, keyboard
<1> QED
  BY <1>2, <1>3, <1>4, <1>5

\* Steps with which a message is taken, or an access.
LEMMA TakingSteps ==
    ASSUME HeardInv,
           BrowserMessage \/ DaemonEvent \/ \E t \in asks : Granted(t)
    PROVE  Heard
<1> USE HeardFacts
<1>1. CASE BrowserMessage
  <2>1. /\ air # <<>> /\ air' = Tail(air)
        /\ UNCHANGED <<rawEvents, sse, down, squeezed, token, asks, access, activeSource>>
    BY <1>1 DEF BrowserMessage, chosen, daemonIn, keyboard
  <2>2. \A b \in pressure' : IsPad(b)
    BY <1>1, IngestPads DEF BrowserMessage, Hear, surface
  <2>3. QueuesKept
    BY <2>1, <2>2 DEF QueuesKept
  <2> QED
    BY <1>1, <2>3, BrowserMessageHeard DEF Heard
<1>2. CASE DaemonEvent
  <2>1. /\ sse = "open" /\ rawEvents # <<>> /\ rawEvents' = Tail(rawEvents)
        /\ UNCHANGED <<air, sse, down, squeezed, token, asks, access, activeSource>>
    BY <1>2 DEF DaemonEvent, chosen, browserIn, keyboard
  <2>2. \A b \in pressure' : IsPad(b)
    BY <1>2, IngestPads DEF DaemonEvent, Hear
  <2>3. QueuesKept
    BY <2>1, <2>2 DEF QueuesKept
  <2> QED
    BY <1>2, <2>3, DaemonEventHeard DEF Heard
<1>3. ASSUME NEW t \in asks, Granted(t) PROVE Heard
  <2>1. /\ UNCHANGED <<air, rawEvents, sse, down, squeezed, token, activeSource, pressure>>
        /\ asks' = asks \ {t} /\ (access' = t \/ access' = access)
    BY <1>3 DEF Granted, daemonIn, surface, keyboard
  <2>2. QueuesKept
    BY <2>1 DEF QueuesKept
  <2> QED
    BY <1>3, <2>2, GrantedHeard DEF Heard
<1> QED
  BY <1>1, <1>2, <1>3

LEMMA HeardInitially == DebugInit => HeardInv
<1> SUFFICES ASSUME DebugInit PROVE HeardInv
  OBVIOUS
<1>1. SourceInv
  BY SourceInitially
<1>2. /\ air = <<>> /\ rawEvents = <<>> /\ asks = {} /\ access = 0 /\ token = 0
      /\ activeSource = "browser" /\ down = {} /\ squeezed = {} /\ pressure = {}
      /\ heldDown = {}
  BY DEF DebugInit
<1>3. DOMAIN air = {} /\ DOMAIN rawEvents = {} /\ IsSeq(air) /\ IsSeq(rawEvents)
  <2>1. <<>> \in Seq({}) /\ DOMAIN <<>> = {}
    OBVIOUS
  <2>2. IsSeq(<<>>)
    BY <2>1, OwnElements
  <2> QED
    BY <1>2, <2>1, <2>2
<1>4. QueuesTyped
  BY <1>2, <1>3 DEF QueuesTyped
<1>5. ASSUME NEW d PROVE ControlHeard(d)
  <2>1. /\ Of(air, d) = {} /\ Of(rawEvents, d) = {}
        /\ Words(air, d) = {} /\ Words(rawEvents, d) = {}
        /\ Squeezes(air, d) = {} /\ Squeezes(rawEvents, d) = {}
    BY <1>3 DEF Of, Words, Squeezes
  <2>2. /\ LastWord(air, d, down, squeezed) /\ LastWord(rawEvents, d, down, squeezed)
        /\ Fresh(air, d) /\ Fresh(rawEvents, d)
    BY <2>1 DEF LastWord, Fresh
  <2>3. SurfaceRight(air, d) /\ SurfaceRight(rawEvents, d)
    BY <1>2, <2>1 DEF SurfaceRight
  <2> QED
    BY <2>2, <2>3 DEF ControlHeard
<1> QED
  BY <1>1, <1>4, <1>5 DEF HeardInv

LEMMA HeardStep == HeardInv /\ [DebugNext]_debugVars => HeardInv'
<1> SUFFICES ASSUME HeardInv, [DebugNext]_debugVars PROVE HeardInv'
  OBVIOUS
<1>1. SourceInv'
  BY SourceStep DEF HeardInv
<1>2. CASE Heard
  <2>1. QueuesTyped'
    BY <1>2, KeptTyped DEF Heard, HeardInv
  <2> QED
    BY <1>1, <1>2, <2>1 DEF Heard, HeardInv
<1>3. ASSUME NEW c \in Played, Press(c) \/ Release(c) \/ Squeeze(c) PROVE HeardInv'
  <2>1. PICK m : KeyMessage(c, m)
    BY <1>3, KeyboardHeard
  <2>2. QueuesTyped'
    BY <2>1, KeyMessageTyped
  <2>3. \A d \in Played : ControlHeard(d)'
    BY <2>1, KeyMessageHeard
  <2> QED
    BY <1>1, <2>2, <2>3 DEF HeardInv
<1> QED
  BY <1>2, <1>3, QuietSteps, StreamSteps, SourceSteps, TakingSteps DEF DebugNext

\* Once all that was sent has come in, the debugger shows as held what is down
\* on the keyboard, with the pressure of its pads (ShownIsPlayed), unless it
\* missed something of that control.
THEOREM ShownAsPlayed == DebugSpec => []ShownIsPlayed
<1>1. HeardInv => ShownIsPlayed
  <2> SUFFICES ASSUME HeardInv, mounted, activeSource # "offline", air = <<>>,
                      rawEvents = <<>>, NEW c \in Played, c \notin unsure
               PROVE  /\ c \in heldDown <=> c \in down
                      /\ c \in heldDown /\ c \in pressure <=> c \in squeezed
    BY DEF ShownIsPlayed
  <2>1. DOMAIN air = {} /\ DOMAIN rawEvents = {}
    OBVIOUS
  <2>2. /\ ~Doomed(air, c)
        /\ Words(air, c) = {} /\ Words(rawEvents, c) = {}
        /\ Squeezes(air, c) = {} /\ Squeezes(rawEvents, c) = {}
    BY <2>1 DEF Doomed, Of, Words, Squeezes
  <2>3. SurfaceRight(air, c) \/ SurfaceRight(rawEvents, c)
    BY <2>2 DEF HeardInv, QueuesTyped, ControlHeard
  <2> QED
    BY <2>2, <2>3 DEF SurfaceRight
<1> QED
  BY <1>1, HeardInitially, HeardStep, PTL DEF DebugSpec

----------------------------------------------------------------------------
(* The probe's record (MidiProbe).                                         *)

Beginners == {h \in handlers : h.step = "begin"}
Asking == {h \in handlers : h.step = "asking"}
OfRecord == {NoConn, capture}
OwnRecordings == [conn : {capture}, label : {NoLabel, capture}]

\* While nothing straddled the start of the record there is no handler with
\* another connection to begin with, unless the session was stopped: what that
\* one lets in before it begins is thrown away when it does.
RecordInv ==
    /\ capture \in Nat /\ opened \in Nat /\ capture <= opened
    /\ active => conn = capture
    /\ labeling \in {NoLabel, capture}
    /\ \A h \in Beginners : h.conn # capture
    /\ ~straddled =>
          /\ active => Beginners = {}
          /\ \A h \in Asking : h.conn = capture
          /\ lastIdentity = NoIdentity \/ lastIdentity.asked = capture
          /\ Beginners = {} =>
                /\ open \subseteq {capture} /\ events \in Seq(OwnRecordings)
                /\ lastIdentity.from \in OfRecord /\ \A h \in Asking : h.from \in OfRecord

\* A step that begins no record and records nothing.
LEMMA RecordKept ==
    ASSUME RecordInv,
           UNCHANGED <<capture, straddled, opened, events>>,
           active' => active /\ conn' = conn,
           open' \subseteq open, labeling' \in {NoLabel, labeling, capture},
           lastIdentity' = lastIdentity
              \/ \E h \in Asking : lastIdentity' = [asked |-> h.conn, from |-> h.from],
           \A h \in Beginners' : \E g \in Beginners : g.conn = h.conn,
           Beginners # {} => Beginners' # {},
           \A h \in Asking' :
              (active /\ h.conn = conn /\ h.from = NoConn)
              \/ \E g \in Asking : g.conn = h.conn /\ g.from = h.from
    PROVE  RecordInv'
<1>1. OfRecord' = OfRecord
  BY DEF OfRecord
<1>2. OwnRecordings' = OwnRecordings
  BY DEF OwnRecordings
<1>3. /\ \A h \in Beginners' : h.conn # capture
      /\ Beginners' = {} <=> Beginners = {}
  BY DEF RecordInv
<1>4. ASSUME ~straddled
      PROVE  /\ \A h \in Asking' : h.conn = capture
             /\ lastIdentity' = NoIdentity \/ lastIdentity'.asked = capture
  BY <1>4 DEF RecordInv
<1>5. ASSUME ~straddled, Beginners = {}
      PROVE  lastIdentity'.from \in OfRecord /\ \A h \in Asking' : h.from \in OfRecord
  BY <1>5 DEF RecordInv, OfRecord
<1>6. /\ capture' \in Nat /\ opened' \in Nat /\ capture' <= opened'
      /\ active' => conn' = capture'
      /\ labeling' \in {NoLabel, capture'}
  BY DEF RecordInv
<1>7. ASSUME ~straddled
      PROVE  /\ active' => Beginners' = {}
             /\ Beginners' = {} => open' \subseteq {capture} /\ events \in Seq(OwnRecordings)
  BY <1>3, <1>7 DEF RecordInv
<1> QED
  BY <1>1, <1>2, <1>3, <1>4, <1>5, <1>6, <1>7 DEF RecordInv

LEMMA NewHandler ==
    ASSUME NEW k, handlers' = handlers \cup {k},
           \/ k.step \in {"open", "close", "publish"}
           \/ (k.step = "asking" /\ active /\ k.conn = conn /\ k.from = NoConn)
    PROVE  /\ Beginners' = Beginners
           /\ \A h \in Asking' : (active /\ h.conn = conn /\ h.from = NoConn) \/ h \in Asking
  BY DEF Beginners, Asking

\* Handlers come that begin nothing, or end.
LEMMA ComersRecord ==
    ASSUME RecordInv, NEW mine,
           StartLooks(mine) \/ StopLetsGo(mine) \/ BeginLabel(mine) \/ IdentityRequest(mine)
    PROVE  RecordInv'
<1> DEFINE Same ==
      /\ Beginners' = Beginners
      /\ \A h \in Asking' : (active /\ h.conn = conn /\ h.from = NoConn) \/ h \in Asking
<1>1. \A step, m, c, st : Handler(step, m, c, st).step = step
  BY DEF Handler
<1>2. Same
  <2>1. CASE StartLooks(mine)
    <3> DEFINE k == Handler("open", mine, NoConn, NoStatus)
    <3>1. handlers' = handlers \cup {k} /\ k.step = "open"
      BY <1>1, <2>1 DEF StartLooks, Arrives
    <3> HIDE DEF k
    <3> QED
      BY <3>1, NewHandler
  <2>2. CASE StopLetsGo(mine)
    <3> DEFINE k == Handler("close", mine, conn, StatusOf(FALSE, capture, labeling, version'))
    <3>1. handlers' = handlers \cup {k} /\ k.step = "close"
      BY <1>1, <2>2 DEF StopLetsGo, Arrives
    <3> HIDE DEF k
    <3> QED
      BY <3>1, NewHandler
  <2>3. CASE BeginLabel(mine)
    <3> DEFINE k == Handler("publish", FALSE, NoConn,
                            StatusOf(TRUE, capture, capture, version'))
    <3>1. handlers' = handlers \cup {k} /\ k.step = "publish"
      BY <1>1, <2>3 DEF BeginLabel, Arrives
    <3> HIDE DEF k
    <3> QED
      BY <3>1, NewHandler
  <2>4. CASE IdentityRequest(mine)
    <3> DEFINE k == [id |-> identityCh', step |-> "asking", mine |-> mine, conn |-> conn,
                     from |-> NoConn]
    <3>1. /\ handlers' = handlers \cup {k} /\ k.step = "asking" /\ active
          /\ k.conn = conn /\ k.from = NoConn
      BY <2>4 DEF IdentityRequest, Arrives
    <3> HIDE DEF k
    <3> QED
      BY <3>1, NewHandler
  <2> QED
    BY <2>1, <2>2, <2>3, <2>4
<1>3. /\ UNCHANGED <<capture, straddled, opened, events, lastIdentity, open>>
      /\ active' => active /\ conn' = conn
      /\ labeling' \in {NoLabel, labeling, capture}
  <2>1. CASE StartLooks(mine) \/ IdentityRequest(mine)
    BY <2>1 DEF StartLooks, IdentityRequest, session, connections, probeGhosts
  <2>2. CASE StopLetsGo(mine)
    BY <2>2 DEF StopLetsGo, connections
  <2>3. CASE BeginLabel(mine)
    BY <2>3 DEF BeginLabel, connections
  <2> QED
    BY <2>1, <2>2, <2>3
<1> QED
  BY <1>2, <1>3, RecordKept

LEMMA GoersRecord ==
    ASSUME PortsInv, RecordInv, NEW h \in handlers,
           \/ PortNotFound(h) \/ Closes(h) \/ Publishes(h) \/ IdentityResult(h)
           \/ AnswerReads(h) \/ HearAnswer(h) \/ AnswerLost(h)
    PROVE  RecordInv'
<1>1. h.step \notin {"begin"} /\ handlers \ {h} \subseteq handlers'
      /\ \A g \in handlers' : g \in handlers \/ (g.step \in {"publish", "answer", "answered"})
  <2>1. CASE PortNotFound(h) \/ HearAnswer(h) \/ AnswerLost(h) \/ IdentityResult(h)
    BY <2>1 DEF PortNotFound, HearAnswer, AnswerLost, IdentityResult, Ends
  <2>2. CASE Closes(h) \/ Publishes(h)
    <3>1. IsWork(h) /\ h.step \in {"close", "publish"}
      BY <2>2 DEF Closes, Publishes, PortsInv, HandlersTyped, IsAsking
    <3>2. \A step, c, st :
             [h EXCEPT !.step = step, !.conn = c, !.status = st].step = step
      BY <3>1 DEF IsWork
    <3> DEFINE k(step) == [h EXCEPT !.step = step, !.conn = NoConn, !.status = h.status]
    <3>3. /\ handlers \ {h} \subseteq handlers'
          /\ \/ handlers' \subseteq handlers \cup {k("publish")}
             \/ handlers' \subseteq handlers \cup {k("answer")}
      BY <2>2 DEF Closes, Publishes, Ends, Goes
    <3>4. k("publish").step = "publish" /\ k("answer").step = "answer"
      BY <3>2
    <3> HIDE DEF k
    <3> QED
      BY <3>1, <3>3, <3>4
  <2>3. CASE AnswerReads(h)
    <3> DEFINE st == Status
               k == [h EXCEPT !.step = "answered", !.conn = NoConn, !.status = st]
    <3>1. handlers' = (handlers \ {h}) \cup {k} /\ h.step = "answer"
      BY <2>3 DEF AnswerReads, Goes
    <3> HIDE DEF st
    <3>2. k.step = "answered"
      BY <3>1 DEF PortsInv, HandlersTyped, IsWork, IsAsking
    <3> HIDE DEF k
    <3> QED
      BY <3>1, <3>2
  <2> QED
    BY <2>1, <2>2, <2>3
<1>2. Beginners' = Beginners /\ Asking' \subseteq Asking
  BY <1>1 DEF Beginners, Asking
<1>3. /\ UNCHANGED <<capture, straddled, opened, events, active, conn>>
      /\ open' \subseteq open /\ labeling' \in {NoLabel, labeling}
      /\ lastIdentity' = lastIdentity
         \/ (h \in Asking /\ lastIdentity' = [asked |-> h.conn, from |-> h.from])
  BY DEF PortNotFound, Closes, Publishes, AnswerReads, HearAnswer, AnswerLost, IdentityResult,
     session, connections, probeGhosts, Asking, ExpiredLabel
<1> QED
  BY <1>2, <1>3, RecordKept

LEMMA PageRecord ==
    ASSUME PortsInv, RecordInv,
           \/ WindowEnds \/ HearChange \/ PageStreamLost \/ PageStreamBack \/ LoadPage
           \/ UNCHANGED probeVars
    PROVE  RecordInv'
<1>1. /\ UNCHANGED <<capture, straddled, opened, events, active, conn, open, labeling,
                     lastIdentity>>
  BY DEF WindowEnds, HearChange, PageStreamLost, PageStreamBack, LoadPage, probeVars, session,
     connections, probeGhosts
<1>2. CASE LoadPage
  <2> DEFINE Left(h) == [h EXCEPT !.mine = FALSE]
             k == Handler("answer", TRUE, NoConn, NoStatus)
  <2>1. handlers' = {Left(h) : h \in {g \in handlers : g.step \notin {"answer", "answered"}}} \cup {k}
        /\ k.step = "answer"
    BY <1>2 DEF LoadPage, Handler
  <2>2. ASSUME NEW h \in handlers
        PROVE  /\ Left(h).step = h.step /\ Left(h).conn = h.conn
               /\ h.step = "asking" => Left(h).from = h.from
    BY DEF PortsInv, HandlersTyped, IsWork, IsAsking
  <2> HIDE DEF Left, k
  <2>3. ASSUME NEW h \in Beginners' PROVE \E g \in Beginners : g.conn = h.conn
    BY <2>1, <2>2, <2>3 DEF Beginners
  <2>4. ASSUME NEW h \in Beginners PROVE Left(h) \in Beginners'
    BY <2>1, <2>2, <2>4 DEF Beginners
  <2>5. ASSUME NEW h \in Asking' PROVE \E g \in Asking : g.conn = h.conn /\ g.from = h.from
    BY <2>1, <2>2, <2>5 DEF Asking
  <2>6. Beginners # {} => Beginners' # {}
    BY <2>4
  <2> QED
    BY <1>1, <2>3, <2>5, <2>6, RecordKept
<1>3. CASE handlers' = handlers
  BY <1>1, <1>3, RecordKept DEF Beginners, Asking
<1> QED
  BY <1>2, <1>3 DEF WindowEnds, HearChange, PageStreamLost, PageStreamBack, probeVars

\* Nothing is recorded of no connection.
LEMMA RestartsRecord ==
    ASSUME RecordInv, DaemonRestarts PROVE RecordInv'
<1>1. /\ handlers' = {} /\ open' = {} /\ active' = FALSE /\ opened' = opened
      /\ capture' = NoConn /\ events' = <<>> /\ labeling' = NoLabel
      /\ lastIdentity' = NoIdentity
  BY DEF DaemonRestarts
<1>2. events' \in Seq(OwnRecordings')
  BY <1>1
<1>3. NoIdentity.from = NoConn
  BY DEF NoIdentity
<1>4. Beginners' = {} /\ Asking' = {}
  BY <1>1 DEF Beginners, Asking
<1>5. opened \in Nat
  BY DEF RecordInv
<1> QED
  BY <1>1, <1>2, <1>3, <1>4, <1>5 DEF RecordInv, OfRecord, NoConn, NoLabel

\* A Start opens a connection: if that leaves the record of one, it is not
\* active, and this one will begin anew or come second.
LEMMA OpensRecord ==
    ASSUME PortsInv, RecordInv, NEW h \in handlers, StartOpens(h)
    PROVE  RecordInv'
<1> DEFINE k == [h EXCEPT !.step = "begin", !.conn = opened', !.status = NoStatus]
<1>1. /\ handlers' = (handlers \ {h}) \cup {k} /\ h.step = "open" /\ opened' = opened + 1
      /\ straddled' = (straddled \/ active)
      /\ UNCHANGED <<active, conn, capture, labeling, lastIdentity, events>>
  BY DEF StartOpens, Goes, session
<1>2. IsWork(h)
  BY <1>1 DEF PortsInv, HandlersTyped, IsAsking
<1>3. k.step = "begin" /\ k.conn = opened'
  BY <1>2 DEF IsWork
<1> HIDE DEF k
<1>4. Beginners' = Beginners \cup {k} /\ Asking' = Asking
  BY <1>1, <1>3 DEF Beginners, Asking
<1>5. /\ capture \in Nat /\ opened' \in Nat /\ capture <= opened' /\ capture # opened'
  BY <1>1 DEF RecordInv
<1>6. \A g \in Beginners' : g.conn # capture
  BY <1>3, <1>4, <1>5 DEF RecordInv
<1>7. straddled' \/ (~straddled /\ ~active)
  BY <1>1 DEF RecordInv
<1>8. Beginners' # {}
  BY <1>4
<1> QED
  BY <1>1, <1>4, <1>5, <1>6, <1>7, <1>8 DEF RecordInv

\* The first to begin starts a record of its own connection; one that comes
\* second finds a record that was straddled when it opened.
LEMMA BeginsRecord ==
    ASSUME PortsInv, RecordInv, NEW h \in handlers, StartBegins(h)
    PROVE  RecordInv'
<1>1. UNCHANGED <<open, opened>> /\ h.step = "begin"
  BY DEF StartBegins, connections
<1>2. IsWork(h) /\ h \in Holders /\ h \in Beginners /\ Beginners \subseteq Holders
  BY <1>1 DEF PortsInv, HandlersTyped, IsAsking, Holders, Holds, Beginners
<1>3. CASE active /\ ComesSecond(h)
  <2> DEFINE k == [h EXCEPT !.step = "close", !.conn = h.conn, !.status = NoStatus]
  <2>1. /\ handlers' = (handlers \ {h}) \cup {k}
        /\ UNCHANGED <<active, conn, events, labeling, lastIdentity, capture, straddled>>
    BY <1>3 DEF ComesSecond, Goes, session
  <2>2. k.step = "close"
    BY <1>2 DEF IsWork
  <2> HIDE DEF k
  <2>3. Beginners' \subseteq Beginners
    BY <2>1, <2>2 DEF Beginners
  <2>4. straddled
    BY <1>2, <1>3 DEF RecordInv
  <2> QED
    BY <1>1, <2>1, <2>3, <2>4 DEF RecordInv
<1>4. CASE ~active /\ Begins(h)
  <2> DEFINE st == StatusOf(TRUE, h.conn, NoLabel, version')
             k == [h EXCEPT !.step = "publish", !.conn = NoConn, !.status = st]
  <2>1. /\ handlers' = (handlers \ {h}) \cup {k}
        /\ conn' = h.conn /\ capture' = h.conn /\ events' = <<>>
        /\ labeling' = NoLabel /\ lastIdentity' = NoIdentity
        /\ straddled' = Overlapped(h)
    BY <1>4 DEF Begins, Goes
  <2>2. k.step = "publish"
    BY <1>2 DEF IsWork
  <2> HIDE DEF k
  <2>3. Beginners' = Beginners \ {h} /\ Asking' = Asking
    BY <1>1, <2>1, <2>2 DEF Beginners, Asking
  <2>4. h.conn \in open /\ \A g \in Beginners \ {h} : g.conn \in open /\ g.conn # h.conn
    BY <1>2 DEF PortsInv, OpenIsOwned, OneOwnerEach
  <2>5. capture' \in Nat /\ opened' \in Nat /\ capture' <= opened'
    BY <1>1, <2>1, <2>4 DEF PortsInv, OpensCounted
  <2>6. \A g \in Beginners' : g.conn # capture'
    BY <2>1, <2>3, <2>4
  <2>7. ASSUME ~straddled' PROVE open' = {capture'} /\ Beginners' = {} /\ Asking' = {}
    <3>1. open = {h.conn} /\ Asking = {}
      BY <2>1, <2>7 DEF Overlapped, Asking
    <3> QED
      BY <1>1, <2>1, <2>3, <2>4, <3>1
  <2>8. NoIdentity.from = NoConn
    BY DEF NoIdentity
  <2>9. events' \in Seq(OwnRecordings')
    BY <2>1
  <2> QED
    BY <2>1, <2>5, <2>6, <2>7, <2>8, <2>9 DEF RecordInv, OfRecord
<1> QED
  BY <1>3, <1>4 DEF StartBegins

LEMMA IngestsRecord ==
    ASSUME PortsInv, RecordInv, NEW c \in open, Ingests(c) \/ IngestsReply(c)
    PROVE  RecordInv'
<1>1. /\ UNCHANGED <<active, conn, open, opened, capture, straddled, lastIdentity>>
      /\ labeling' \in {NoLabel, labeling}
  BY DEF Ingests, IngestsReply, Recorded, connections, ExpiredLabel
<1>2. OwnRecordings' = OwnRecordings /\ OfRecord' = OfRecord
  BY <1>1 DEF OwnRecordings, OfRecord
<1>3. ASSUME events \in Seq(OwnRecordings), c = capture PROVE events' \in Seq(OwnRecordings)
  <2> DEFINE e == Recording(c, ExpiredLabel)
             all == Append(events, e)
  <2>1. e \in OwnRecordings
    BY <1>3 DEF RecordInv, Recording, OwnRecordings, ExpiredLabel
  <2> HIDE DEF e
  <2>2. all \in Seq(OwnRecordings) /\ Len(all) = Len(events) + 1 /\ Len(events) \in Nat
    BY <1>3, <2>1, AppendProperties, LenProperties
  <2>3. events' = IF Len(all) > BufferCap THEN Tail(all) ELSE all
    BY DEF Ingests, IngestsReply, Recorded, e
  <2> HIDE DEF all
  <2>4. all # <<>>
    BY <2>2, EmptySeq
  <2>5. Tail(all) \in Seq(OwnRecordings)
    BY <2>2, <2>4, HeadTailProperties
  <2> QED
    BY <2>2, <2>3, <2>5
<1>4. /\ \A h \in Beginners' : h \in Beginners
      /\ \A h \in Beginners : h \in Beginners'
      /\ \A h \in Asking' : \E g \in Asking : g.conn = h.conn /\ h.from \in {g.from, c}
  <2>1. CASE Ingests(c)
    BY <2>1 DEF Ingests, Beginners, Asking
  <2>2. CASE IngestsReply(c)
    <3> DEFINE Replied(h) == IF h.step = "asking" /\ h.id = identityCh
                             THEN [h EXCEPT !.from = c] ELSE h
    <3>1. handlers' = {Replied(h) : h \in handlers}
      BY <2>2 DEF IngestsReply
    <3>2. ASSUME NEW h \in handlers
          PROVE  /\ h.step = "asking" => /\ Replied(h).step = "asking"
                                         /\ Replied(h).conn = h.conn
                                         /\ Replied(h).from \in {h.from, c}
                 /\ h.step # "asking" => Replied(h) = h
      BY DEF PortsInv, HandlersTyped, IsWork, IsAsking
    <3> HIDE DEF Replied
    <3> QED
      BY <3>1, <3>2 DEF Beginners, Asking
  <2> QED
    BY <2>1, <2>2
<1>5. Beginners' = Beginners
  BY <1>4
<1>6. ASSUME ~straddled, Beginners = {}
      PROVE  events' \in Seq(OwnRecordings) /\ \A h \in Asking' : h.from \in OfRecord
  <2>1. c = capture
    BY <1>6 DEF RecordInv
  <2> QED
    BY <1>3, <1>4, <1>6, <2>1 DEF RecordInv, OfRecord
<1>7. ~straddled => \A h \in Asking' : h.conn = capture
  BY <1>4 DEF RecordInv
<1>8. labeling' \in {NoLabel, capture}
  BY <1>1 DEF RecordInv
<1> QED
  BY <1>1, <1>2, <1>5, <1>6, <1>7, <1>8 DEF RecordInv

LEMMA RecordStep == PortsInv /\ RecordInv /\ [ProbeNext]_probeVars => RecordInv'
  BY ComersRecord, GoersRecord, PageRecord, RestartsRecord, OpensRecord, BeginsRecord,
     IngestsRecord DEF ProbeNext

LEMMA ProbeStarts == ProbeInit => PortsInv /\ RecordInv
<1>1. <<>> \in Seq(OwnRecordings)
  OBVIOUS
<1>2. NoIdentity.from = NoConn
  BY DEF NoIdentity
<1> QED
  BY <1>1, <1>2 DEF ProbeInit, PortsInv, HandlersTyped, OpensCounted, OpenIsOwned,
     OneOwnerEach, Holders, OfSession, RecordInv, OfRecord, Beginners, Asking, NoConn, NoLabel

\* The messages, labels and identity of a profile are of the one device its
\* record names, unless something straddled the start of the record, however
\* Starts, Stops, captures and requests interleave and for any buffer.
THEOREM ProfilesAreTrue == ProbeSpec => []ProfileIsOfOneDevice
<1>1. PortsInv /\ RecordInv => ProfileIsOfOneDevice
  <2> SUFFICES ASSUME PortsInv, RecordInv, ~straddled, open \subseteq {capture}
               PROVE  /\ \A i \in DOMAIN events : events[i].conn = capture
                                                  /\ events[i].label \in {NoLabel, capture}
                      /\ lastIdentity = NoIdentity \/ lastIdentity.asked = capture
                      /\ lastIdentity.from \in {NoConn, capture}
    BY DEF ProfileIsOfOneDevice
  <2>1. Beginners = {}
    <3>1. \A h \in Beginners : h.conn \in open
      BY DEF PortsInv, OpenIsOwned, Holders, Holds, Beginners
    <3> QED
      BY <3>1 DEF RecordInv
  <2>2. events \in Seq(OwnRecordings)
    BY <2>1 DEF RecordInv
  <2>3. \A i \in DOMAIN events : events[i] \in OwnRecordings
    BY <2>2, ElementOfSeq, LenProperties
  <2> QED
    BY <2>1, <2>3 DEF RecordInv, OwnRecordings, OfRecord
<1> QED
  BY <1>1, ProbeStarts, PortsKept, RecordStep, PTL DEF ProbeSpec

----------------------------------------------------------------------------
(* The probe page (MidiProbe).                                             *)

Elems(q) == {q[i] : i \in DOMAIN q}

Works == {h \in handlers : h.step # "asking"}
WorkStatuses == {h.status : h \in Works}
Carried == {h.status : h \in {g \in handlers : g.step \in {"publish", "close"}}}
Queued == {e.status : e \in {d \in Elems(hub) : d.kind = "probe-status"}}

\* A status of version s.version, told of a session that is at version v: of
\* the last version it is what the session is, but that a window may be over.
Told(s, v, isActive, c, name) ==
    /\ s.version \in Nat /\ s.version <= v
    /\ s.version = v => /\ s.active = isActive
                        /\ isActive => s.inPort = c
                        /\ isActive /\ name # NoLabel => s.label = name

\* The page has heard of the last version, or will, or missed it.
KnowInv ==
    /\ version \in Nat /\ newest \in Nat /\ newest <= version
    /\ active \in BOOLEAN /\ (version = 0 => active = FALSE)
    /\ IsSeq(hub)
    /\ \A s \in {status} \cup WorkStatuses \cup Queued :
          Told(s, version, active, conn, labeling)
    /\ live # "closed" =>
          \/ newest = version \/ version \in missed
          \/ \E s \in Carried \cup Queued : s.version = version

LEMMA ElemsOf ==
    ASSUME NEW q, IsSeq(q)
    PROVE  /\ q # <<>> => IsSeq(Tail(q)) /\ Elems(q) = Elems(Tail(q)) \cup {Head(q)}
           /\ \A e : IsSeq(Append(q, e)) /\ Elems(Append(q, e)) = Elems(q) \cup {e}
<1>1. Len(q) \in Nat /\ DOMAIN q = 1..Len(q)
  BY LenProperties DEF IsSeq
<1>2. ASSUME q # <<>> PROVE IsSeq(Tail(q)) /\ Elems(q) = Elems(Tail(q)) \cup {Head(q)}
  <2>1. /\ IsSeq(Tail(q)) /\ Head(q) = q[1] /\ 1 \in DOMAIN q
        /\ DOMAIN Tail(q) = 1..Len(q) - 1
        /\ \A k \in DOMAIN Tail(q) : k + 1 \in DOMAIN q /\ Tail(q)[k] = q[k + 1]
    BY <1>2, RestOfSeq
  <2>2. ASSUME NEW k \in DOMAIN q PROVE q[k] \in Elems(Tail(q)) \cup {Head(q)}
    <3>1. CASE k = 1
      BY <2>1, <3>1
    <3>2. CASE k # 1
      <4>1. k - 1 \in DOMAIN Tail(q) /\ (k - 1) + 1 = k
        BY <1>1, <2>1, <3>2
      <4> QED
        BY <2>1, <4>1 DEF Elems
    <3> QED
      BY <3>1, <3>2
  <2> QED
    BY <2>1, <2>2 DEF Elems
<1>3. ASSUME NEW e PROVE IsSeq(Append(q, e)) /\ Elems(Append(q, e)) = Elems(q) \cup {e}
  <2>1. /\ IsSeq(Append(q, e)) /\ DOMAIN Append(q, e) = 1..Len(q) + 1
        /\ Append(q, e)[Len(q) + 1] = e
        /\ \A k \in DOMAIN q : Append(q, e)[k] = q[k]
    BY SeqAndLast
  <2>2. DOMAIN Append(q, e) = DOMAIN q \cup {Len(q) + 1}
    BY <1>1, <2>1
  <2> QED
    BY <2>1, <2>2 DEF Elems
<1> QED
  BY <1>2, <1>3

\* What is published is queued, or missed.
LEMMA PublishQueues ==
    ASSUME IsSeq(hub), NEW e, Publish(e)
    PROVE  /\ IsSeq(hub') /\ Elems(hub') \subseteq Elems(hub) \cup {e}
           /\ missed \subseteq missed'
           /\ \A d \in Elems(hub) \cup {e} :
                 d.kind = "probe-status" => d \in Elems(hub') \/ d.status.version \in missed'
<1> DEFINE full == Len(hub) = ProbeHubCap
           kept == IF full THEN Tail(hub) ELSE hub
           lost == IF live = "up" THEN IF full THEN {Head(hub)} ELSE {} ELSE {e}
<1>1. full => hub # <<>>
  BY ProbeHubCapAssumption
<1>2. IsSeq(kept) /\ Elems(hub) \subseteq Elems(kept) \cup (IF full THEN {Head(hub)} ELSE {})
      /\ Elems(kept) \subseteq Elems(hub)
  BY <1>1, ElemsOf
<1>3. /\ hub' = IF live = "up" THEN Append(kept, e) ELSE hub
      /\ missed' = missed \cup VersionsOf(lost)
  BY DEF Publish
<1>4. \A d \in lost : d.kind = "probe-status" => d.status.version \in missed'
  BY <1>3 DEF VersionsOf
<1>5. Elems(hub) \cup {e} \subseteq Elems(hub') \cup lost
  <2>1. IsSeq(Append(kept, e)) /\ Elems(Append(kept, e)) = Elems(kept) \cup {e}
    BY <1>2, ElemsOf
  <2> QED
    BY <1>2, <1>3, <2>1
<1> HIDE DEF kept, full, lost
<1>6. IsSeq(Append(kept, e)) /\ Elems(Append(kept, e)) = Elems(kept) \cup {e}
  BY <1>2, ElemsOf
<1> QED
  BY <1>2, <1>3, <1>4, <1>5, <1>6

LEMMA KnowsKept ==
    ASSUME KnowInv, UNCHANGED <<version, active, conn>>, labeling' \in {NoLabel, labeling},
           newest' \in Nat, newest <= newest', newest' <= version, IsSeq(hub'),
           \A s \in {status'} \cup WorkStatuses' \cup Queued' :
              s = NoStatus \/ s \in {status} \cup WorkStatuses \cup Queued,
           live' # "closed" =>
              /\ live # "closed" /\ missed \subseteq missed'
              /\ \A s \in Carried \cup Queued : s.version = version =>
                    s \in Carried' \cup Queued' \/ version \in missed' \/ newest' = version
    PROVE  KnowInv'
<1>1. Told(NoStatus, version, active, conn, labeling)
  <2>1. NoStatus.version = 0 /\ NoStatus.active = FALSE
    BY DEF NoStatus, StatusOf
  <2>2. NoStatus.version \in Nat /\ NoStatus.version <= version
    BY <2>1 DEF KnowInv
  <2>3. NoStatus.version = version => NoStatus.active = active /\ ~active
    BY <2>1, Zenon DEF KnowInv
  <2> QED
    BY <2>2, <2>3 DEF Told
<1>2. \A s \in {status'} \cup WorkStatuses' \cup Queued' :
         Told(s, version, active, conn, labeling)
  BY <1>1 DEF KnowInv
<1>3. \A s : Told(s, version, active, conn, labeling)
             => Told(s, version', active', conn', labeling')
  BY DEF Told
<1>4. \A s \in {status'} \cup WorkStatuses' \cup Queued' :
         Told(s, version', active', conn', labeling')
  BY <1>2, <1>3
<1>5. live' # "closed" =>
          \/ newest' = version' \/ version' \in missed'
          \/ \E s \in Carried' \cup Queued' : s.version = version'
  BY DEF KnowInv
<1>6. version' \in Nat /\ newest' <= version' /\ active' \in BOOLEAN /\ (version' = 0 => active' = FALSE)
  BY DEF KnowInv
<1> QED
  BY <1>4, <1>5, <1>6 DEF KnowInv

\* Another status is the last one now, and a handler has it.
LEMMA KnowsNew ==
    ASSUME KnowInv, version' = version + 1, UNCHANGED <<newest, status, hub>>,
           NEW st, st.version = version', active' \in BOOLEAN,
           st.active = active' /\ (active' => st.inPort = conn')
              /\ (active' /\ labeling' # NoLabel => st.label = labeling'),
           \A s \in WorkStatuses' : s \in WorkStatuses \cup {st},
           st \in Carried'
    PROVE  KnowInv'
<1>1. version' \in Nat /\ version' # 0 /\ newest' \in Nat /\ newest' <= version'
  BY DEF KnowInv
<1>2. Told(st, version', active', conn', labeling')
  BY <1>1 DEF Told
<1>3. \A s : Told(s, version, active, conn, labeling)
             => Told(s, version', active', conn', labeling')
  BY DEF Told, KnowInv
<1>4. Queued' = Queued /\ IsSeq(hub')
  BY DEF Queued, KnowInv
<1>5. \A s \in {status'} \cup WorkStatuses' \cup Queued' :
         Told(s, version', active', conn', labeling')
  BY <1>2, <1>3, <1>4 DEF KnowInv
<1> QED
  BY <1>1, <1>4, <1>5 DEF KnowInv

\* Handlers of which no page hears come and go.
LEMMA ComersKnow ==
    ASSUME KnowInv, RecordInv, NEW mine,
           StartLooks(mine) \/ StopLetsGo(mine) \/ BeginLabel(mine) \/ IdentityRequest(mine)
    PROVE  KnowInv'
<1>1. \A step, m, c, st : /\ Handler(step, m, c, st).step = step
                          /\ Handler(step, m, c, st).status = st
  BY DEF Handler
<1>2. ASSUME NEW k, handlers' = handlers \cup {k}, k.step = "asking" \/ k.status = NoStatus,
             UNCHANGED <<version, active, conn, labeling, newest, status, hub, live, missed>>
      PROVE  KnowInv'
  <2>1. Carried \subseteq Carried' /\ Queued' = Queued
    BY <1>2 DEF Carried, Queued
  <2>2. \A s \in WorkStatuses' : s = NoStatus \/ s \in WorkStatuses
    BY <1>2 DEF WorkStatuses, Works
  <2>3. newest' \in Nat /\ newest <= newest' /\ newest' <= version /\ IsSeq(hub')
    BY <1>2 DEF KnowInv
  <2> QED
    BY <1>2, <2>1, <2>2, <2>3, KnowsKept
<1>3. ASSUME NEW k, handlers' = handlers \cup {k}, k.step \in {"close", "publish"},
             version' = version + 1, UNCHANGED <<newest, status, hub>>,
             k.status.version = version', active' \in BOOLEAN,
             k.status.active = active' /\ (active' => k.status.inPort = conn')
                /\ (active' /\ labeling' # NoLabel => k.status.label = labeling')
      PROVE  KnowInv'
  <2>1. k.status \in Carried' /\ \A s \in WorkStatuses' : s \in WorkStatuses \cup {k.status}
    BY <1>3 DEF Carried, WorkStatuses, Works
  <2> QED
    BY <1>3, <2>1, KnowsNew
<1>4. CASE StartLooks(mine)
  <2> DEFINE k == Handler("open", mine, NoConn, NoStatus)
  <2>1. handlers' = handlers \cup {k} /\ k.status = NoStatus
    BY <1>1, <1>4 DEF StartLooks, Arrives
  <2> HIDE DEF k
  <2> QED
    BY <1>2, <1>4, <2>1 DEF StartLooks, session, probePage, probeGhosts
<1>5. CASE IdentityRequest(mine)
  <2> DEFINE k == [id |-> identityCh', step |-> "asking", mine |-> mine, conn |-> conn,
                   from |-> NoConn]
  <2>1. handlers' = handlers \cup {k} /\ k.step = "asking"
    BY <1>5 DEF IdentityRequest, Arrives
  <2> HIDE DEF k
  <2> QED
    BY <1>2, <1>5, <2>1 DEF IdentityRequest, probePage, probeGhosts
<1>6. CASE StopLetsGo(mine)
  <2> DEFINE st == StatusOf(FALSE, capture, labeling, version')
             k == Handler("close", mine, conn, st)
  <2>1. /\ handlers' = handlers \cup {k} /\ k.step = "close" /\ k.status = st
        /\ version' = version + 1 /\ active' = FALSE
    <3>1. k.step = "close" /\ k.status = st
      <4> HIDE DEF st
      <4> QED
        BY DEF Handler
    <3>2. handlers' = handlers \cup {k} /\ version' = version + 1 /\ active' = FALSE
      BY <1>6 DEF StopLetsGo, Arrives
    <3> QED
      BY <3>1, <3>2
  <2>2. st.active = FALSE /\ st.version = version'
    BY DEF StatusOf
  <2> HIDE DEF k, st
  <2>3. UNCHANGED <<newest, status, hub>>
    BY <1>6 DEF StopLetsGo, probePage
  <2> QED
    BY <1>3, <2>1, <2>2, <2>3
<1>7. CASE BeginLabel(mine)
  <2> DEFINE st == StatusOf(TRUE, capture, capture, version')
             k == Handler("publish", FALSE, NoConn, st)
  <2>1. /\ handlers' = handlers \cup {k} /\ k.step = "publish" /\ k.status = st
        /\ version' = version + 1 /\ labeling' = capture /\ conn' = conn
    <3>1. k.step = "publish" /\ k.status = st
      <4> HIDE DEF st
      <4> QED
        BY DEF Handler
    <3>2. /\ handlers' = handlers \cup {k} /\ version' = version + 1
          /\ labeling' = capture /\ conn' = conn
      BY <1>7 DEF BeginLabel, Arrives
    <3> QED
      BY <3>1, <3>2
  <2>2. st.active = TRUE /\ st.version = version' /\ st.inPort = capture /\ st.label = capture
    BY DEF StatusOf
  <2> HIDE DEF k, st
  <2>3. UNCHANGED <<newest, status, hub>> /\ active' = TRUE /\ conn = capture
    <3>1. active /\ active' = active /\ UNCHANGED <<newest, status, hub>>
      BY <1>7 DEF BeginLabel, probePage
    <3>2. active = TRUE
      BY <3>1, Zenon DEF KnowInv
    <3> QED
      BY <3>1, <3>2 DEF RecordInv
  <2> QED
    BY <1>3, <2>1, <2>2, <2>3
<1> QED
  BY <1>4, <1>5, <1>6, <1>7

LEMMA StartKnows ==
    ASSUME PortsInv, KnowInv, NEW h \in handlers, StartOpens(h) \/ StartBegins(h)
    PROVE  KnowInv'
<1>1. IsWork(h) /\ h.step \in {"open", "begin"}
  BY DEF StartOpens, StartBegins, PortsInv, HandlersTyped, IsAsking
<1>2. \A step, c, st : LET k == [h EXCEPT !.step = step, !.conn = c, !.status = st]
                       IN  k.step = step /\ k.status = st
  BY <1>1 DEF IsWork
<1>3. ASSUME NEW k, handlers' = (handlers \ {h}) \cup {k},
             k.step \in {"begin", "close"}, k.status = NoStatus,
             UNCHANGED <<version, active, conn, labeling, newest, status, hub, live, missed>>
      PROVE  KnowInv'
  <2>1. Carried \subseteq Carried' /\ Queued' = Queued
    BY <1>1, <1>3 DEF Carried, Queued
  <2>2. \A s \in WorkStatuses' : s = NoStatus \/ s \in WorkStatuses
    BY <1>3 DEF WorkStatuses, Works
  <2>3. newest' \in Nat /\ newest <= newest' /\ newest' <= version /\ IsSeq(hub')
    BY <1>3 DEF KnowInv
  <2> QED
    BY <1>3, <2>1, <2>2, <2>3, KnowsKept
<1>4. CASE StartOpens(h)
  <2> DEFINE k == [h EXCEPT !.step = "begin", !.conn = opened', !.status = NoStatus]
  <2>1. handlers' = (handlers \ {h}) \cup {k} /\ k.step = "begin" /\ k.status = NoStatus
    BY <1>2, <1>4 DEF StartOpens, Goes
  <2> HIDE DEF k
  <2> QED
    BY <1>3, <1>4, <2>1 DEF StartOpens, session, probePage
<1>5. CASE StartBegins(h) /\ ComesSecond(h)
  <2> DEFINE k == [h EXCEPT !.step = "close", !.conn = h.conn, !.status = NoStatus]
  <2>1. handlers' = (handlers \ {h}) \cup {k} /\ k.step = "close" /\ k.status = NoStatus
    BY <1>2, <1>5 DEF ComesSecond, Goes
  <2> HIDE DEF k
  <2> QED
    BY <1>3, <1>5, <2>1 DEF StartBegins, ComesSecond, session, probePage
<1>6. CASE StartBegins(h) /\ Begins(h)
  <2> DEFINE st == StatusOf(TRUE, h.conn, NoLabel, version')
             k == [h EXCEPT !.step = "publish", !.conn = NoConn, !.status = st]
  <2>1. /\ handlers' = (handlers \ {h}) \cup {k} /\ k.step = "publish" /\ k.status = st
        /\ version' = version + 1 /\ labeling' = NoLabel /\ conn' = h.conn /\ active' = TRUE
    BY <1>2, <1>6 DEF Begins, Goes
  <2>2. st.active = TRUE /\ st.version = version' /\ st.inPort = h.conn
    BY DEF StatusOf
  <2> HIDE DEF k, st
  <2>3. UNCHANGED <<newest, status, hub>>
    BY <1>6 DEF StartBegins, probePage
  <2>4. st \in Carried' /\ \A s \in WorkStatuses' : s \in WorkStatuses \cup {st}
    BY <2>1 DEF Carried, WorkStatuses, Works
  <2> QED
    BY <2>1, <2>2, <2>3, <2>4, KnowsNew
<1> QED
  BY <1>4, <1>5, <1>6 DEF StartBegins

\* A status of the last version goes from a handler to the queue; one that is
\* answered is read as it is then.
LEMMA GoersKnow ==
    ASSUME PortsInv, RecordInv, KnowInv, NEW h \in handlers,
           \/ PortNotFound(h) \/ Closes(h) \/ Publishes(h) \/ IdentityResult(h)
           \/ AnswerReads(h) \/ HearAnswer(h) \/ AnswerLost(h)
    PROVE  KnowInv'
<1>1. \A step : LET k == [h EXCEPT !.step = step, !.conn = NoConn, !.status = h.status]
                IN  IsWork(h) => k.step = step /\ k.status = h.status
  BY DEF IsWork
<1>2. newest \in Nat /\ newest <= newest /\ newest <= version /\ IsSeq(hub)
  BY DEF KnowInv
<1>3. CASE PortNotFound(h) \/ AnswerLost(h) \/ IdentityResult(h)
  <2>1. /\ handlers' = handlers \ {h} /\ h.step \in {"open", "answer", "answered", "asking"}
        /\ UNCHANGED <<version, active, conn, labeling, newest, status, hub, live, missed>>
    BY <1>3 DEF PortNotFound, AnswerLost, IdentityResult, Ends, session, probePage, probeGhosts
  <2>2. Carried' = Carried /\ Queued' = Queued
    BY <2>1 DEF Carried, Queued
  <2>3. WorkStatuses' \subseteq WorkStatuses
    BY <2>1 DEF WorkStatuses, Works
  <2> QED
    BY <1>2, <2>1, <2>2, <2>3, KnowsKept
<1>4. CASE Closes(h)
  <2> DEFINE k == [h EXCEPT !.step = "publish", !.conn = NoConn, !.status = h.status]
  <2>1. /\ h.step = "close"
        /\ UNCHANGED <<version, active, conn, labeling, newest, status, hub, live, missed>>
        /\ handlers' = IF h.status = NoStatus THEN handlers \ {h} ELSE (handlers \ {h}) \cup {k}
    BY <1>4 DEF Closes, Goes, Ends, session, probePage, probeGhosts
  <2>2. IsWork(h)
    BY <2>1 DEF PortsInv, HandlersTyped, IsAsking
  <2>3. k.step = "publish" /\ k.status = h.status
    BY <1>1, <2>2
  <2> HIDE DEF k
  <2>4. Queued' = Queued
    BY <2>1 DEF Queued
  <2>5. WorkStatuses' \subseteq WorkStatuses
    BY <2>1, <2>3 DEF WorkStatuses, Works
  <2>6. ASSUME NEW s \in Carried, s.version = version
        PROVE  s \in Carried' \/ newest' = version
    <3>1. CASE s = NoStatus
      <4>1. NoStatus.version = 0
        BY DEF NoStatus, StatusOf
      <4> QED
        BY <1>2, <2>1, <2>6, <3>1, <4>1 DEF KnowInv
    <3>2. CASE s # NoStatus
      BY <2>1, <2>3, <2>6, <3>2 DEF Carried
    <3> QED
      BY <3>1, <3>2
  <2> QED
    BY <1>2, <2>1, <2>4, <2>5, <2>6, KnowsKept
<1>5. CASE Publishes(h)
  <2> DEFINE k == [h EXCEPT !.step = "answer", !.conn = NoConn, !.status = h.status]
             e == StatusEvent(h.status)
  <2>1. /\ h.step = "publish" /\ Publish(e)
        /\ UNCHANGED <<version, active, conn, labeling, newest, status, live>>
        /\ handlers' = IF h.mine THEN (handlers \ {h}) \cup {k} ELSE handlers \ {h}
    BY <1>5 DEF Publishes, Goes, Ends, session, probePage
  <2>2. IsWork(h)
    BY <2>1 DEF PortsInv, HandlersTyped, IsAsking
  <2>3. k.step = "answer" /\ k.status = h.status
    BY <1>1, <2>2
  <2>4. e.kind = "probe-status" /\ e.status = h.status
    BY DEF StatusEvent
  <2> HIDE DEF k, e
  <2>5. /\ IsSeq(hub') /\ Elems(hub') \subseteq Elems(hub) \cup {e}
        /\ missed \subseteq missed'
        /\ \A d \in Elems(hub) \cup {e} :
              d.kind = "probe-status" => d \in Elems(hub') \/ d.status.version \in missed'
    BY <1>2, <2>1, PublishQueues
  <2>6. /\ WorkStatuses' \subseteq WorkStatuses /\ h.status \in WorkStatuses
    BY <2>1, <2>3 DEF WorkStatuses, Works
  <2>7. \A s \in Queued' : s \in Queued \/ s = h.status
    BY <2>4, <2>5 DEF Queued
  <2>8. \A s \in Carried \cup Queued : s \in Carried' \cup Queued' \/ s.version \in missed'
    <3>1. \A s \in Queued \cup {h.status} : s \in Queued' \/ s.version \in missed'
      BY <2>4, <2>5 DEF Queued
    <3>2. \A s \in Carried : s \in Carried' \/ s = h.status
      BY <2>1 DEF Carried
    <3> QED
      BY <3>1, <3>2
  <2> QED
    BY <1>2, <2>1, <2>5, <2>6, <2>7, <2>8, KnowsKept
<1>6. CASE AnswerReads(h)
  <2> DEFINE st == Status
             k == [h EXCEPT !.step = "answered", !.conn = NoConn, !.status = st]
  <2>1. /\ handlers' = (handlers \ {h}) \cup {k} /\ h.step = "answer" /\ labeling' = ExpiredLabel
        /\ UNCHANGED <<version, active, conn, hub, live, status, newest, missed>>
    BY <1>6 DEF AnswerReads, Goes, probePage, probeGhosts
  <2>2. /\ st.version = version /\ st.active = active /\ st.inPort = capture
        /\ st.label = ExpiredLabel
    BY DEF Status, StatusOf
  <2> HIDE DEF st
  <2>3. k.step = "answered" /\ k.status = st
    BY <2>1 DEF PortsInv, HandlersTyped, IsWork, IsAsking
  <2> HIDE DEF k
  <2>4. /\ WorkStatuses' \subseteq WorkStatuses \cup {st} /\ Queued' = Queued
        /\ Carried' = Carried
    BY <2>1, <2>3 DEF WorkStatuses, Works, Queued, Carried
  <2>5. \A s : Told(s, version, active, conn, labeling)
               => Told(s, version', active', conn', labeling')
    BY <2>1 DEF Told, ExpiredLabel
  <2>6. Told(st, version', active', conn', labeling')
    <3>1. (active => conn = capture) /\ version \in Nat
      BY DEF RecordInv, KnowInv
    <3> QED
      BY <2>1, <2>2, <3>1 DEF Told
  <2>7. \A s \in {status'} \cup WorkStatuses' \cup Queued' :
           Told(s, version', active', conn', labeling')
    BY <2>1, <2>4, <2>5, <2>6 DEF KnowInv
  <2> QED
    BY <1>2, <2>1, <2>4, <2>7 DEF KnowInv
<1>7. CASE HearAnswer(h)
  <2>1. /\ handlers' = handlers \ {h} /\ h.step = "answered" /\ status' = h.status
        /\ newest' = IF h.status.version > newest THEN h.status.version ELSE newest
        /\ UNCHANGED <<version, active, conn, labeling, hub, live, missed>>
    BY <1>7 DEF HearAnswer, Take, Ends, session, probeGhosts
  <2>2. /\ WorkStatuses' \subseteq WorkStatuses /\ h.status \in WorkStatuses
        /\ Queued' = Queued /\ Carried' = Carried
    BY <2>1 DEF WorkStatuses, Works, Queued, Carried
  <2>3. h.status.version \in Nat /\ h.status.version <= version
    BY <2>2 DEF KnowInv, Told
  <2>4. newest' \in Nat /\ newest <= newest' /\ newest' <= version
    BY <1>2, <2>1, <2>3
  <2> QED
    BY <1>2, <2>1, <2>2, <2>4, KnowsKept
<1> QED
  BY <1>3, <1>4, <1>5, <1>6, <1>7

LEMMA IngestsKnow ==
    ASSUME PortsInv, KnowInv, NEW c \in open, Ingests(c) \/ IngestsReply(c)
    PROVE  KnowInv'
<1>1. /\ UNCHANGED <<version, active, conn, newest, status, live>>
      /\ labeling' \in {NoLabel, labeling} /\ Publish(Event)
  BY DEF Ingests, IngestsReply, Recorded, probePage, ExpiredLabel
<1>2. newest' \in Nat /\ newest <= newest' /\ newest' <= version /\ IsSeq(hub)
  BY <1>1 DEF KnowInv
<1>3. /\ IsSeq(hub') /\ Elems(hub') \subseteq Elems(hub) \cup {Event}
      /\ missed \subseteq missed'
      /\ \A d \in Elems(hub) :
            d.kind = "probe-status" => d \in Elems(hub') \/ d.status.version \in missed'
  BY <1>1, <1>2, PublishQueues
<1>4. Event.kind # "probe-status"
  BY DEF Event
<1>5. /\ Queued' \subseteq Queued
      /\ \A s \in Queued : s \in Queued' \/ s.version \in missed'
  BY <1>3, <1>4 DEF Queued
<1>6. WorkStatuses' = WorkStatuses /\ Carried' = Carried
  <2>1. CASE Ingests(c)
    BY <2>1 DEF Ingests, WorkStatuses, Works, Carried
  <2>2. CASE IngestsReply(c)
    <3> DEFINE Replied(h) == IF h.step = "asking" /\ h.id = identityCh
                             THEN [h EXCEPT !.from = c] ELSE h
    <3>1. handlers' = {Replied(h) : h \in handlers}
      BY <2>2 DEF IngestsReply
    <3>2. ASSUME NEW h \in handlers
          PROVE  /\ h.step = "asking" => Replied(h).step = "asking"
                 /\ h.step # "asking" => Replied(h) = h
      BY DEF PortsInv, HandlersTyped, IsWork, IsAsking
    <3> HIDE DEF Replied
    <3>3. \A h : h.step # "asking" => (h \in handlers' <=> h \in handlers)
      BY <3>1, <3>2
    <3> QED
      BY <3>3 DEF WorkStatuses, Works, Carried
  <2> QED
    BY <2>1, <2>2
<1> QED
  BY <1>1, <1>2, <1>3, <1>5, <1>6, KnowsKept

LEMMA StreamKnows ==
    ASSUME KnowInv,
           WindowEnds \/ HearChange \/ PageStreamLost \/ PageStreamBack \/ UNCHANGED probeVars
    PROVE  KnowInv'
<1>1. /\ UNCHANGED <<version, active, conn, labeling, handlers>>
      /\ WorkStatuses' = WorkStatuses /\ Carried' = Carried
  BY DEF WindowEnds, HearChange, PageStreamLost, PageStreamBack, probeVars, session,
     probeGhosts, WorkStatuses, Works, Carried
<1>2. newest \in Nat /\ newest <= newest /\ newest <= version /\ IsSeq(hub)
  BY DEF KnowInv
<1>3. CASE WindowEnds \/ PageStreamBack \/ UNCHANGED probeVars
  <2>1. UNCHANGED <<newest, status, hub, missed>> /\ (live' # "closed" => live # "closed")
    BY <1>3 DEF WindowEnds, PageStreamBack, probeVars, session, probePage, probeGhosts
  <2>2. Queued' = Queued
    BY <2>1 DEF Queued
  <2> QED
    BY <1>1, <1>2, <2>1, <2>2, KnowsKept
<1>4. CASE PageStreamLost
  <2>1. /\ UNCHANGED <<newest, status>> /\ hub' = <<>> /\ live # "closed"
        /\ missed' = missed \cup VersionsOf(Elems(hub))
    BY <1>4 DEF PageStreamLost, Elems
  <2>2. Queued' = {} /\ \A s \in Queued : s.version \in missed'
    BY <2>1 DEF Queued, Elems, VersionsOf
  <2>3. IsSeq(hub')
    BY <2>1, NoneQueued
  <2> QED
    BY <1>1, <1>2, <2>1, <2>2, <2>3, KnowsKept
<1>5. CASE HearChange
  <2> DEFINE e == Head(hub)
  <2>1. /\ hub # <<>> /\ hub' = Tail(hub) /\ UNCHANGED <<live, missed>>
        /\ IF e.kind = "probe-status"
           THEN /\ status' = e.status
                /\ newest' = IF e.status.version > newest THEN e.status.version ELSE newest
           ELSE UNCHANGED <<status, newest>>
    BY <1>5 DEF HearChange, Take, probeGhosts
  <2>2. IsSeq(hub') /\ Elems(hub) = Elems(hub') \cup {e}
    BY <1>2, <2>1, ElemsOf
  <2> HIDE DEF e
  <2>3. CASE e.kind = "probe-status"
    <3>1. Queued = Queued' \cup {e.status}
      BY <2>2, <2>3 DEF Queued
    <3>2. e.status.version \in Nat /\ e.status.version <= version
      BY <3>1 DEF KnowInv, Told
    <3>3. newest' \in Nat /\ newest <= newest' /\ newest' <= version
      BY <1>2, <2>1, <2>3, <3>2
    <3>4. e.status.version = version => newest' = version
      BY <1>2, <2>1, <2>3, <3>2
    <3> QED
      BY <1>1, <2>1, <2>2, <2>3, <3>1, <3>3, <3>4, KnowsKept
  <2>4. CASE e.kind # "probe-status"
    <3>1. Queued' = Queued
      BY <2>2, <2>4 DEF Queued
    <3> QED
      BY <1>1, <1>2, <2>1, <2>2, <2>4, <3>1, KnowsKept
  <2> QED
    BY <2>3, <2>4
<1> QED
  BY <1>3, <1>4, <1>5

LEMMA LoadKnows ==
    ASSUME PortsInv, KnowInv, LoadPage
    PROVE  KnowInv'
<1> DEFINE Left(h) == [h EXCEPT !.mine = FALSE]
           k == Handler("answer", TRUE, NoConn, NoStatus)
<1>1. /\ handlers' = {Left(h) : h \in {g \in handlers : g.step \notin {"answer", "answered"}}} \cup {k}
      /\ k.status = NoStatus /\ missed' = {version}
      /\ UNCHANGED <<version, active, conn, labeling>>
      /\ hub' = <<>> /\ status' = NoStatus /\ newest' = 0
  BY DEF LoadPage, Handler, session
<1>2. ASSUME NEW h \in handlers
      PROVE  /\ Left(h).step = h.step
             /\ h.step # "asking" => Left(h).status = h.status
  BY DEF PortsInv, HandlersTyped, IsWork, IsAsking
<1> HIDE DEF Left, k
<1>3. \A s \in WorkStatuses' : s \in WorkStatuses \/ s = NoStatus
  BY <1>1, <1>2 DEF WorkStatuses, Works
<1>5. Queued' = {} /\ IsSeq(hub')
  BY <1>1, NoneQueued DEF Queued, Elems
<1>6. Told(NoStatus, version, active, conn, labeling)
  <2>1. NoStatus.version = 0 /\ NoStatus.active = FALSE
    BY DEF NoStatus, StatusOf
  <2>2. NoStatus.version \in Nat /\ NoStatus.version <= version
    BY <2>1 DEF KnowInv
  <2>3. NoStatus.version = version => NoStatus.active = active /\ ~active
    BY <2>1, Zenon DEF KnowInv
  <2> QED
    BY <2>2, <2>3 DEF Told
<1>7. \A s \in {status'} \cup WorkStatuses' \cup Queued' :
         Told(s, version', active', conn', labeling')
  BY <1>1, <1>3, <1>5, <1>6 DEF KnowInv
<1>8. /\ version' \in Nat /\ newest' \in Nat /\ newest' <= version'
      /\ active' \in BOOLEAN /\ (version' = 0 => active' = FALSE)
  BY <1>1 DEF KnowInv
<1> QED
  BY <1>1, <1>5, <1>7, <1>8 DEF KnowInv

\* A session that starts again is at a version of which nobody is told.
LEMMA RestartKnows ==
    ASSUME KnowInv, DaemonRestarts
    PROVE  KnowInv'
<1>1. /\ handlers' = {} /\ hub' = <<>> /\ active' = FALSE
      /\ version' = version + 1 /\ missed' = missed \cup {version'}
      /\ UNCHANGED <<status, newest>>
  BY DEF DaemonRestarts
<1>2. Queued' = {} /\ WorkStatuses' = {} /\ IsSeq(hub')
  BY <1>1, NoneQueued DEF Queued, Elems, WorkStatuses, Works
<1>3. Told(status', version', active', conn', labeling')
  BY <1>1 DEF KnowInv, Told
<1>4. version' \in Nat /\ newest' \in Nat /\ newest' <= version'
  BY <1>1 DEF KnowInv
<1>5. active' \in BOOLEAN /\ version' \in missed'
  BY <1>1, Zenon
<1>6. \A s \in {status'} \cup WorkStatuses' \cup Queued' :
         Told(s, version', active', conn', labeling')
  BY <1>2, <1>3
<1> QED
  BY <1>1, <1>2, <1>4, <1>5, <1>6 DEF KnowInv

\* A page at rest that was told of the newest status, and of no older one after
\* it, shows the session as it is, for any buffers and however the statuses
\* published and answered outside the lock overtake each other, and whatever
\* questions fail or daemons start again.
THEOREM PageShowsSession == ProbeSpec => []PageKnowsProbe
<1> DEFINE Inv == PortsInv /\ RecordInv /\ KnowInv
<1>1. ProbeInit => Inv
  <2> SUFFICES ASSUME ProbeInit PROVE Inv
    OBVIOUS
  <2>1. PortsInv /\ RecordInv
    BY ProbeStarts
  <2>2. /\ version = 0 /\ newest = 0 /\ active = FALSE /\ hub = <<>> /\ status = NoStatus
        /\ handlers = {} /\ live = "closed"
    BY DEF ProbeInit
  <2>3. Queued = {} /\ WorkStatuses = {} /\ IsSeq(hub)
    BY <2>2, NoneQueued DEF Queued, Elems, WorkStatuses, Works
  <2>4. Told(status, version, active, conn, labeling)
    <3>1. status.version = 0 /\ status.active = FALSE
      BY <2>2 DEF NoStatus, StatusOf
    <3>2. status.version \in Nat /\ status.version <= version
      BY <2>2, <3>1
    <3>3. status.active = active /\ ~active
      BY <2>2, <3>1
    <3> QED
      BY <3>2, <3>3 DEF Told
  <2>5. version \in Nat /\ newest \in Nat /\ newest <= version /\ active \in BOOLEAN
    <3>1. active \in BOOLEAN
      BY <2>2, Zenon
    <3>2. version \in Nat /\ newest \in Nat /\ newest <= version
      BY <2>2
    <3> QED
      BY <3>1, <3>2
  <2>6. \A s \in {status} \cup WorkStatuses \cup Queued :
           Told(s, version, active, conn, labeling)
    BY <2>3, <2>4
  <2>7. KnowInv
    BY <2>2, <2>3, <2>5, <2>6 DEF KnowInv
  <2> QED
    BY <2>1, <2>7
<1>2. Inv /\ [ProbeNext]_probeVars => Inv'
  BY PortsKept, RecordStep, ComersKnow, StartKnows, GoersKnow, IngestsKnow, StreamKnows,
     LoadKnows, RestartKnows DEF ProbeNext
<1>3. Inv => PageKnowsProbe
  <2> SUFFICES ASSUME KnowInv, handlers = {}, hub = <<>>, live = "up",
                      \A v \in missed : v <= newest, status.version = newest
               PROVE  /\ status.active = active
                      /\ active => status.inPort = conn
                      /\ labeling # NoLabel /\ active => status.label = labeling
    BY DEF PageKnowsProbe
  <2>1. Queued = {} /\ Carried = {}
    BY DEF Queued, Elems, Carried
  <2>2. newest = version
    BY <2>1 DEF KnowInv
  <2> QED
    BY <2>2 DEF KnowInv, Told
<1> QED
  BY <1>1, <1>2, <1>3, PTL DEF ProbeSpec

----------------------------------------------------------------------------
(* The synth card (SynthForm): the block shown.                            *)

AnyBlock == Blocks[CHOOSE q \in DOMAIN Blocks : TRUE]
Leaves == PathsOf(AnyBlock)

\* No text rides along in the daemon's own rows.
NoPatchLeaf ==
    \A a \in DOMAIN AnyBlock \cap Arrays : \A i \in DOMAIN AnyBlock[a] :
        "patch" \notin DOMAIN AnyBlock[a][i]

\* A block but for its values.
Shaped(b) ==
    /\ b = [f \in DOMAIN AnyBlock |-> b[f]]
    /\ \A g \in DOMAIN AnyBlock \cap Groups :
          b[g] = [leaf \in DOMAIN AnyBlock[g] |-> b[g][leaf]]
    /\ \A a \in DOMAIN AnyBlock \cap Arrays :
          /\ b[a] = [i \in DOMAIN AnyBlock[a] |-> b[a][i]]
          /\ \A i \in DOMAIN AnyBlock[a] :
                b[a][i] = [leaf \in DOMAIN AnyBlock[a][i] |-> b[a][i][leaf]]

Within(p, v) == v \in Limits(Key(p))[1] .. Limits(Key(p))[2]

LEMMA BlockIs ==
    ASSUME NEW b
    PROVE  IsBlock(b) <=> /\ Shaped(b)
                          /\ \A p \in Leaves : IsSlider(p) => Within(p, At(b, p))
BY DEF IsBlock, Shaped, Within, Leaves, AnyBlock

IsField(p, f) == p = <<f>> /\ f \in DOMAIN AnyBlock \ (Groups \cup Arrays)
IsLeaf(p, g, l) ==
    p = <<g, l>> /\ g \in DOMAIN AnyBlock \cap Groups /\ l \in DOMAIN AnyBlock[g]
IsCell(p, a, i, l) ==
    /\ p = <<a, i, l>> /\ a \in DOMAIN AnyBlock \cap Arrays
    /\ i \in DOMAIN AnyBlock[a] /\ l \in DOMAIN AnyBlock[a][i] /\ l # "patch"

\* What a block of the daemon's shape has where.
LEMMA Domains ==
    ASSUME NEW b, Shaped(b)
    PROVE  /\ DOMAIN b = DOMAIN AnyBlock
           /\ \A g \in DOMAIN AnyBlock \cap Groups : DOMAIN b[g] = DOMAIN AnyBlock[g]
           /\ \A a \in DOMAIN AnyBlock \cap Arrays :
                 /\ DOMAIN b[a] = DOMAIN AnyBlock[a]
                 /\ \A i \in DOMAIN AnyBlock[a] : DOMAIN b[a][i] = DOMAIN AnyBlock[a][i]
<1>1. DOMAIN b = DOMAIN AnyBlock
  <2>1. b = [f \in DOMAIN AnyBlock |-> b[f]]
    BY DEF Shaped
  <2> QED
    BY <2>1, Zenon
<1>2. ASSUME NEW g \in DOMAIN AnyBlock \cap Groups PROVE DOMAIN b[g] = DOMAIN AnyBlock[g]
  <2>1. b[g] = [leaf \in DOMAIN AnyBlock[g] |-> b[g][leaf]]
    BY DEF Shaped
  <2> QED
    BY <2>1, Zenon
<1>3. ASSUME NEW a \in DOMAIN AnyBlock \cap Arrays
      PROVE  /\ DOMAIN b[a] = DOMAIN AnyBlock[a]
             /\ \A i \in DOMAIN AnyBlock[a] : DOMAIN b[a][i] = DOMAIN AnyBlock[a][i]
  <2>1. b[a] = [i \in DOMAIN AnyBlock[a] |-> b[a][i]]
    BY DEF Shaped
  <2>2. ASSUME NEW i \in DOMAIN AnyBlock[a]
        PROVE  DOMAIN b[a][i] = DOMAIN AnyBlock[a][i]
    <3>1. b[a][i] = [leaf \in DOMAIN AnyBlock[a][i] |-> b[a][i][leaf]]
      BY DEF Shaped
    <3> QED
      BY <3>1, Zenon
  <2>3. DOMAIN b[a] = DOMAIN AnyBlock[a]
    BY <2>1, Zenon
  <2> QED
    BY <2>2, <2>3
<1> QED
  BY <1>1, <1>2, <1>3

\* A path leads to a field, to a leaf of a group or to one of a row.
LEMMA PathIs ==
    ASSUME NEW b, NEW p
    PROVE  p \in PathsOf(b) <=>
             \/ \E f \in DOMAIN b \ (Groups \cup Arrays) : p = <<f>>
             \/ \E g \in DOMAIN b \cap Groups : \E l \in DOMAIN b[g] : p = <<g, l>>
             \/ \E a \in DOMAIN b \cap Arrays : \E i \in DOMAIN b[a] :
                   \E l \in DOMAIN b[a][i] \ {"patch"} : p = <<a, i, l>>
<1> DEFINE A == {<<f>> : f \in DOMAIN b \ (Groups \cup Arrays)}
           B == UNION {{<<g, l>> : l \in DOMAIN b[g]} : g \in DOMAIN b \cap Groups}
           Cells(a) == UNION {{<<a, i, l>> : l \in DOMAIN b[a][i] \ {"patch"}} :
                                 i \in DOMAIN b[a]}
           C == UNION {Cells(a) : a \in DOMAIN b \cap Arrays}
<1>1. PathsOf(b) = A \cup B \cup C
  BY DEF PathsOf
<1>2. p \in A <=> \E f \in DOMAIN b \ (Groups \cup Arrays) : p = <<f>>
  OBVIOUS
<1>3. p \in B <=> \E g \in DOMAIN b \cap Groups : \E l \in DOMAIN b[g] : p = <<g, l>>
  OBVIOUS
<1>4. ASSUME NEW a
      PROVE  p \in Cells(a) <=> \E i \in DOMAIN b[a] :
                                   \E l \in DOMAIN b[a][i] \ {"patch"} : p = <<a, i, l>>
  OBVIOUS
<1> HIDE DEF A, B, Cells
<1>5. p \in C <=> \E a \in DOMAIN b \cap Arrays : p \in Cells(a)
  OBVIOUS
<1> HIDE DEF C
<1> QED
  BY <1>1, <1>2, <1>3, <1>4, <1>5

LEMMA PathForms ==
    ASSUME NEW b, Shaped(b), NEW p
    PROVE  p \in PathsOf(b) <=> \/ \E f : IsField(p, f)
                                \/ \E g, l : IsLeaf(p, g, l)
                                \/ \E a, i, l : IsCell(p, a, i, l)
<1>1. /\ DOMAIN b = DOMAIN AnyBlock
      /\ \A g \in DOMAIN b \cap Groups : DOMAIN b[g] = DOMAIN AnyBlock[g]
      /\ \A a \in DOMAIN b \cap Arrays :
            /\ DOMAIN b[a] = DOMAIN AnyBlock[a]
            /\ \A i \in DOMAIN b[a] : DOMAIN b[a][i] = DOMAIN AnyBlock[a][i]
  BY Domains
<1> QED
  BY <1>1, PathIs DEF IsField, IsLeaf, IsCell

\* What an event tells of a block, whatever rides along.
Telling(block, p) ==
    CASE Len(p) = 1 -> [field |-> p[1], value |-> block[p[1]]]
      [] Len(p) = 2 -> [field |-> p[1], value |-> block[p[1]]]
      [] Len(p) = 3 -> [field |-> p[1], index |-> p[2], value |-> block[p[1]][p[2]]]

\* Where a path leads, what is there after an edit, and what the event tells.
LEMMA FieldPath ==
    ASSUME NEW p, NEW f, IsField(p, f)
    PROVE  /\ p[1] = f
           /\ \A b : At(b, p) = b[f]
           /\ \A b, v : Set(b, p, v) = [b EXCEPT ![f] = v]
           /\ \A b : Telling(b, p) = [field |-> f, value |-> b[f]]
BY DEF IsField, At, Set, Telling

LEMMA LeafPath ==
    ASSUME NEW p, NEW g, NEW l, IsLeaf(p, g, l)
    PROVE  /\ p[1] = g
           /\ \A b : At(b, p) = b[g][l]
           /\ \A b, v : Set(b, p, v) = [b EXCEPT ![g][l] = v]
           /\ \A b : Telling(b, p) = [field |-> g, value |-> b[g]]
BY DEF IsLeaf, At, Set, Telling

LEMMA CellPath ==
    ASSUME NEW p, NEW a, NEW i, NEW l, IsCell(p, a, i, l)
    PROVE  /\ p[1] = a
           /\ \A b : At(b, p) = b[a][i][l]
           /\ \A b, v : Set(b, p, v) = [b EXCEPT ![a][i][l] = v]
           /\ \A b : Telling(b, p) = [field |-> a, index |-> i, value |-> b[a][i]]
BY DEF IsCell, At, Set, Telling

\* What a path of a block is.
LEMMA LeafForms ==
    ASSUME NEW b, Shaped(b), NEW p \in PathsOf(b)
    PROVE  \/ \E f : IsField(p, f)
           \/ \E g, l : IsLeaf(p, g, l)
           \/ \E a, i, l : IsCell(p, a, i, l)
BY PathForms

LEMMA SamePaths ==
    ASSUME NEW b, Shaped(b), NEW c, Shaped(c)
    PROVE  PathsOf(b) = PathsOf(c)
<1>1. \A p : p \in PathsOf(b) <=> p \in PathsOf(c)
  BY PathForms
<1> QED
  BY <1>1

\* Blocks that differ only in what is under one field.
OnlyUnder(k, r, b) == \A f \in DOMAIN AnyBlock \ {k} : r[f] = b[f]

LEMMA Elsewhere ==
    ASSUME NEW b, NEW r, NEW k, Shaped(b), OnlyUnder(k, r, b)
    PROVE  \A x \in PathsOf(b) : x[1] # k => At(r, x) = At(b, x)
<1> SUFFICES ASSUME NEW x \in PathsOf(b), x[1] # k PROVE At(r, x) = At(b, x)
  OBVIOUS
<1>1. CASE \E f : IsField(x, f)
  <2>1. PICK f : IsField(x, f)
    BY <1>1
  <2>2. At(r, x) = r[f] /\ At(b, x) = b[f] /\ x[1] = f /\ f \in DOMAIN AnyBlock
    BY <2>1, FieldPath DEF IsField
  <2> QED
    BY <2>2 DEF OnlyUnder
<1>2. CASE \E g, l : IsLeaf(x, g, l)
  <2>1. PICK g, l : IsLeaf(x, g, l)
    BY <1>2
  <2>2. At(r, x) = r[g][l] /\ At(b, x) = b[g][l] /\ x[1] = g /\ g \in DOMAIN AnyBlock
    BY <2>1, LeafPath DEF IsLeaf
  <2> QED
    BY <2>2 DEF OnlyUnder
<1>3. CASE \E a, i, l : IsCell(x, a, i, l)
  <2>1. PICK a, i, l : IsCell(x, a, i, l)
    BY <1>3
  <2>2. At(r, x) = r[a][i][l] /\ At(b, x) = b[a][i][l] /\ x[1] = a
        /\ a \in DOMAIN AnyBlock
    BY <2>1, CellPath DEF IsCell
  <2> QED
    BY <2>2 DEF OnlyUnder
<1> QED
  BY <1>1, <1>2, <1>3, LeafForms

\* An event with what is under a field or a row puts it in the place of what was.
LEMMA SpreadOver ==
    ASSUME NEW old, NEW new, NEW S, old = [k \in S |-> old[k]], new = [k \in S |-> new[k]]
    PROVE  Spread(old, new) = new
<1>1. DOMAIN old = S /\ DOMAIN new = S
  BY Zenon
<1>2. Spread(old, new) = [k \in S |-> new[k]]
  BY <1>1, Zenon DEF Spread
<1> QED
  BY <1>2, Zenon

LEMMA Merges ==
    ASSUME NEW b, NEW c, Shaped(b), Shaped(c), NEW p
    PROVE  /\ \A f : IsField(p, f) =>
                 applySynthEvent(c, Telling(b, p)) = [c EXCEPT ![f] = b[f]]
           /\ \A g, l : IsLeaf(p, g, l) =>
                 applySynthEvent(c, Telling(b, p)) = [c EXCEPT ![g] = b[g]]
           /\ \A a, i, l : IsCell(p, a, i, l) =>
                 applySynthEvent(c, Telling(b, p)) = [c EXCEPT ![a][i] = b[a][i]]
<1> DEFINE e == Telling(b, p)
<1>1. ASSUME NEW f, IsField(p, f)
      PROVE  applySynthEvent(c, e) = [c EXCEPT ![f] = b[f]]
  <2>1. e = [field |-> f, value |-> b[f]] /\ f \notin Groups
    BY <1>1, FieldPath DEF IsField
  <2> HIDE DEF e
  <2>2. e.field = f /\ e.value = b[f] /\ "index" \notin DOMAIN e
    BY <2>1
  <2> QED
    BY <2>1, <2>2 DEF applySynthEvent
<1>2. ASSUME NEW g, NEW l, IsLeaf(p, g, l)
      PROVE  applySynthEvent(c, e) = [c EXCEPT ![g] = b[g]]
  <2>1. e = [field |-> g, value |-> b[g]] /\ g \in Groups
    BY <1>2, LeafPath DEF IsLeaf
  <2> HIDE DEF e
  <2>2. e.field = g /\ e.value = b[g] /\ "index" \notin DOMAIN e
    BY <2>1
  <2>3. applySynthEvent(c, e) = [c EXCEPT ![g] = Spread(c[g], b[g])]
    BY <2>1, <2>2 DEF applySynthEvent
  <2>4. /\ c[g] = [k \in DOMAIN AnyBlock[g] |-> c[g][k]]
        /\ b[g] = [k \in DOMAIN AnyBlock[g] |-> b[g][k]]
    BY <1>2 DEF Shaped, IsLeaf
  <2>5. Spread(c[g], b[g]) = b[g]
    BY <2>4, SpreadOver
  <2> QED
    BY <2>3, <2>5
<1>3. ASSUME NEW a, NEW i, NEW l, IsCell(p, a, i, l)
      PROVE  applySynthEvent(c, e) = [c EXCEPT ![a][i] = b[a][i]]
  <2>1. e = [field |-> a, index |-> i, value |-> b[a][i]]
    BY <1>3, CellPath
  <2> HIDE DEF e
  <2>2. e.field = a /\ e.index = i /\ e.value = b[a][i] /\ "index" \in DOMAIN e
    BY <2>1
  <2>3. /\ c[a] = [k \in DOMAIN AnyBlock[a] |-> c[a][k]]
        /\ c[a][i] = [k \in DOMAIN AnyBlock[a][i] |-> c[a][i][k]]
        /\ b[a][i] = [k \in DOMAIN AnyBlock[a][i] |-> b[a][i][k]]
    BY <1>3 DEF Shaped, IsCell
  <2>4. i \in DOMAIN c[a]
    <3>1. i \in DOMAIN AnyBlock[a]
      BY <1>3 DEF IsCell
    <3> QED
      BY <2>3, <3>1, Zenon
  <2>5. Spread(c[a][i], b[a][i]) = b[a][i]
    BY <2>3, SpreadOver
  <2>6. applySynthEvent(c, e) = [c EXCEPT ![a][i] = Spread(c[a][i], b[a][i])]
    BY <2>2, <2>4 DEF applySynthEvent
  <2> QED
    BY <2>5, <2>6
<1> QED
  BY <1>1, <1>2, <1>3

\* Fields, groups and rows of fields are different fields.
LEMMA FormsApart ==
    ASSUME NEW p, NEW x, x[1] = p[1]
    PROVE  /\ \A f : IsField(p, f) =>
                 /\ \A h : IsField(x, h) => x = p
                 /\ \A g, l : ~IsLeaf(x, g, l)
                 /\ \A a, i, l : ~IsCell(x, a, i, l)
           /\ \A g, l : IsLeaf(p, g, l) =>
                 /\ \A f : ~IsField(x, f)
                 /\ \A h, m : IsLeaf(x, h, m) => h = g
                 /\ \A a, i, m : ~IsCell(x, a, i, m)
           /\ \A a, i, l : IsCell(p, a, i, l) =>
                 /\ \A f : ~IsField(x, f)
                 /\ \A g, m : ~IsLeaf(x, g, m)
                 /\ \A h, j, m : IsCell(x, h, j, m) => h = a
<1>1. "osc" \notin Groups
  BY DEF Groups
<1>2. ASSUME NEW y, NEW f, IsField(y, f)
      PROVE  y = <<f>> /\ y[1] = f /\ f \notin Groups /\ f \notin Arrays
  BY <1>2 DEF IsField
<1>3. ASSUME NEW y, NEW g, NEW l, IsLeaf(y, g, l)
      PROVE  y[1] = g /\ g \in Groups
  BY <1>3 DEF IsLeaf
<1>4. ASSUME NEW y, NEW a, NEW i, NEW l, IsCell(y, a, i, l)
      PROVE  y[1] = a /\ a \in Arrays
  BY <1>4 DEF IsCell
<1>5. \A a \in Arrays : a \notin Groups
  BY <1>1 DEF Arrays
<1>6. ASSUME NEW f, IsField(p, f)
      PROVE  /\ \A h : IsField(x, h) => x = p
             /\ \A g, l : ~IsLeaf(x, g, l)
             /\ \A a, i, l : ~IsCell(x, a, i, l)
  <2>1. p = <<f>> /\ x[1] = f /\ f \notin Groups /\ f \notin Arrays
    BY <1>2, <1>6
  <2>2. ASSUME NEW h, IsField(x, h) PROVE x = p
    BY <1>2, <2>1, <2>2
  <2>3. ASSUME NEW g, NEW l, IsLeaf(x, g, l) PROVE FALSE
    BY <1>3, <2>1, <2>3
  <2>4. ASSUME NEW a, NEW i, NEW l, IsCell(x, a, i, l) PROVE FALSE
    BY <1>4, <2>1, <2>4
  <2> QED
    BY <2>2, <2>3, <2>4
<1>7. ASSUME NEW g, NEW l, IsLeaf(p, g, l)
      PROVE  /\ \A f : ~IsField(x, f)
             /\ \A h, m : IsLeaf(x, h, m) => h = g
             /\ \A a, i, m : ~IsCell(x, a, i, m)
  <2>1. x[1] = g /\ g \in Groups
    BY <1>3, <1>7
  <2>2. ASSUME NEW f, IsField(x, f) PROVE FALSE
    BY <1>2, <2>1, <2>2
  <2>3. ASSUME NEW h, NEW m, IsLeaf(x, h, m) PROVE h = g
    BY <1>3, <2>1, <2>3
  <2>4. ASSUME NEW a, NEW i, NEW m, IsCell(x, a, i, m) PROVE FALSE
    BY <1>4, <1>5, <2>1, <2>4
  <2> QED
    BY <2>2, <2>3, <2>4
<1>8. ASSUME NEW a, NEW i, NEW l, IsCell(p, a, i, l)
      PROVE  /\ \A f : ~IsField(x, f)
             /\ \A g, m : ~IsLeaf(x, g, m)
             /\ \A h, j, m : IsCell(x, h, j, m) => h = a
  <2>1. x[1] = a /\ a \in Arrays
    BY <1>4, <1>8
  <2>2. ASSUME NEW f, IsField(x, f) PROVE FALSE
    BY <1>2, <2>1, <2>2
  <2>3. ASSUME NEW g, NEW m, IsLeaf(x, g, m) PROVE FALSE
    BY <1>3, <1>5, <2>1, <2>3
  <2>4. ASSUME NEW h, NEW j, NEW m, IsCell(x, h, j, m) PROVE h = a
    BY <1>4, <2>1, <2>4
  <2> QED
    BY <2>2, <2>3, <2>4
<1> QED
  BY <1>6, <1>7, <1>8

\* An edit changes its leaf and nothing else of a block.
LEMMA EditStored ==
    ASSUME NEW b, Shaped(b), NEW p \in PathsOf(b), NEW v
    PROVE  /\ Shaped(Set(b, p, v)) /\ At(Set(b, p, v), p) = v
           /\ \A x \in PathsOf(b) : x # p => At(Set(b, p, v), x) = At(b, x)
           /\ applySynthEvent(b, Telling(Set(b, p, v), p)) = Set(b, p, v)
<1> DEFINE r == Set(b, p, v)
           T == AnyBlock
<1>0. b = [k \in DOMAIN T |-> b[k]]
  BY DEF Shaped
<1>1. CASE \E f : IsField(p, f)
  <2>1. PICK f : IsField(p, f)
    BY <1>1
  <2>2. r = [b EXCEPT ![f] = v] /\ p[1] = f /\ At(r, p) = r[f]
    BY <2>1, FieldPath
  <2>3. f \in DOMAIN T /\ f \notin Groups /\ f \notin Arrays
    BY <2>1 DEF IsField
  <2> HIDE DEF r
  <2>4. /\ r = [k \in DOMAIN T |-> r[k]]
        /\ \A k \in DOMAIN T \ {f} : r[k] = b[k]
        /\ r[f] = v
    BY <1>0, <2>2, <2>3
  <2>5. Shaped(r)
    BY <2>3, <2>4 DEF Shaped
  <2>6. ASSUME NEW x \in PathsOf(b), x # p PROVE At(r, x) = At(b, x)
    <3>1. x[1] # f
      BY <2>1, <2>2, <2>6, FormsApart, LeafForms
    <3>2. OnlyUnder(f, r, b)
      BY <2>4 DEF OnlyUnder
    <3> QED
      BY <3>1, <3>2, Elsewhere
  <2>7. applySynthEvent(b, Telling(r, p)) = r
    <3>1. applySynthEvent(b, Telling(r, p)) = [b EXCEPT ![f] = r[f]]
      BY <2>1, <2>5, Merges
    <3> QED
      BY <2>2, <2>4, <3>1
  <2> QED
    BY <2>2, <2>4, <2>5, <2>6, <2>7 DEF r
<1>2. CASE \E g, l : IsLeaf(p, g, l)
  <2>1. PICK g, l : IsLeaf(p, g, l)
    BY <1>2
  <2>2. r = [b EXCEPT ![g][l] = v] /\ p[1] = g /\ At(r, p) = r[g][l]
    BY <2>1, LeafPath
  <2>3. g \in DOMAIN T /\ g \in Groups /\ g \notin Arrays /\ l \in DOMAIN T[g] /\ p = <<g, l>>
    BY <2>1 DEF IsLeaf, Groups, Arrays
  <2>4. b[g] = [k \in DOMAIN T[g] |-> b[g][k]]
    BY <2>3 DEF Shaped
  <2> HIDE DEF r
  <2>5. /\ r = [k \in DOMAIN T |-> r[k]]
        /\ \A k \in DOMAIN T \ {g} : r[k] = b[k]
        /\ r[g] = [b[g] EXCEPT ![l] = v]
        /\ r = [b EXCEPT ![g] = r[g]]
    BY <1>0, <2>2, <2>3
  <2>6. /\ r[g] = [k \in DOMAIN T[g] |-> r[g][k]]
        /\ \A k \in DOMAIN T[g] \ {l} : r[g][k] = b[g][k]
        /\ r[g][l] = v
    BY <2>3, <2>4, <2>5
  <2>7. Shaped(r)
    BY <2>3, <2>5, <2>6 DEF Shaped
  <2>8. ASSUME NEW x \in PathsOf(b), x # p PROVE At(r, x) = At(b, x)
    <3>1. CASE x[1] # g
      <4>1. OnlyUnder(g, r, b)
        BY <2>5 DEF OnlyUnder
      <4> QED
        BY <3>1, <4>1, Elsewhere
    <3>2. CASE x[1] = g
      <4>1. PICK m : IsLeaf(x, g, m)
        BY <2>1, <2>2, <3>2, FormsApart, LeafForms
      <4>2. x = <<g, m>> /\ m \in DOMAIN T[g] /\ m # l
        BY <2>3, <2>8, <4>1 DEF IsLeaf
      <4>3. At(r, x) = r[g][m] /\ At(b, x) = b[g][m]
        BY <4>1, LeafPath
      <4> QED
        BY <2>6, <4>2, <4>3
    <3> QED
      BY <3>1, <3>2
  <2>9. applySynthEvent(b, Telling(r, p)) = r
    <3>1. applySynthEvent(b, Telling(r, p)) = [b EXCEPT ![g] = r[g]]
      BY <2>1, <2>7, Merges
    <3> QED
      BY <2>5, <3>1
  <2> QED
    BY <2>2, <2>6, <2>7, <2>8, <2>9 DEF r
<1>3. CASE \E a, i, l : IsCell(p, a, i, l)
  <2>1. PICK a, i, l : IsCell(p, a, i, l)
    BY <1>3
  <2>2. r = [b EXCEPT ![a][i][l] = v] /\ p[1] = a /\ At(r, p) = r[a][i][l]
    BY <2>1, CellPath
  <2>3. /\ a \in DOMAIN T /\ a \in Arrays /\ a \notin Groups /\ i \in DOMAIN T[a]
        /\ l \in DOMAIN T[a][i] /\ p = <<a, i, l>>
    BY <2>1 DEF IsCell, Groups, Arrays
  <2>4. /\ b[a] = [k \in DOMAIN T[a] |-> b[a][k]]
        /\ \A j \in DOMAIN T[a] : b[a][j] = [k \in DOMAIN T[a][j] |-> b[a][j][k]]
    BY <2>3 DEF Shaped
  <2> HIDE DEF r
  <2>5. /\ r = [k \in DOMAIN T |-> r[k]]
        /\ \A k \in DOMAIN T \ {a} : r[k] = b[k]
        /\ r[a] = [b[a] EXCEPT ![i][l] = v]
    BY <1>0, <2>2, <2>3
  <2>6. /\ r[a] = [k \in DOMAIN T[a] |-> r[a][k]]
        /\ \A k \in DOMAIN T[a] \ {i} : r[a][k] = b[a][k]
        /\ r[a][i] = [b[a][i] EXCEPT ![l] = v]
        /\ r[a] = [b[a] EXCEPT ![i] = r[a][i]]
    BY <2>3, <2>4, <2>5
  <2>7. /\ r[a][i] = [k \in DOMAIN T[a][i] |-> r[a][i][k]]
        /\ \A k \in DOMAIN T[a][i] \ {l} : r[a][i][k] = b[a][i][k]
        /\ r[a][i][l] = v
    BY <2>3, <2>4, <2>6
  <2>8. \A j \in DOMAIN T[a] : r[a][j] = [k \in DOMAIN T[a][j] |-> r[a][j][k]]
    BY <2>4, <2>6, <2>7
  <2>9. Shaped(r)
    BY <2>3, <2>5, <2>6, <2>8 DEF Shaped, Arrays
  <2>10. ASSUME NEW x \in PathsOf(b), x # p PROVE At(r, x) = At(b, x)
    <3>1. CASE x[1] # a
      <4>1. OnlyUnder(a, r, b)
        BY <2>5 DEF OnlyUnder
      <4> QED
        BY <3>1, <4>1, Elsewhere
    <3>2. CASE x[1] = a
      <4>1. PICK j, m : IsCell(x, a, j, m)
        BY <2>1, <2>2, <3>2, FormsApart, LeafForms
      <4>2. x = <<a, j, m>> /\ j \in DOMAIN T[a] /\ m \in DOMAIN T[a][j]
        BY <4>1 DEF IsCell
      <4>3. j # i \/ m # l
        BY <2>3, <2>10, <4>2
      <4>4. At(r, x) = r[a][j][m] /\ At(b, x) = b[a][j][m]
        BY <4>1, CellPath
      <4> QED
        BY <2>6, <2>7, <4>2, <4>3, <4>4
    <3> QED
      BY <3>1, <3>2
  <2>11. applySynthEvent(b, Telling(r, p)) = r
    <3>1. applySynthEvent(b, Telling(r, p)) = [b EXCEPT ![a][i] = r[a][i]]
      BY <2>1, <2>9, Merges
    <3>2. [b EXCEPT ![a][i] = r[a][i]] = [b EXCEPT ![a] = r[a]]
      BY <2>6
    <3>3. [b EXCEPT ![a] = r[a]] = r
      BY <1>0, <2>3, <2>5
    <3> QED
      BY <3>1, <3>2, <3>3
  <2> QED
    BY <2>2, <2>7, <2>9, <2>10, <2>11 DEF r
<1> QED
  BY <1>1, <1>2, <1>3, LeafForms

\* An event takes into a block what it tells of another.
LEMMA Applied ==
    ASSUME NEW b, Shaped(b), NEW c, Shaped(c), NEW p \in PathsOf(b)
    PROVE  /\ Shaped(applySynthEvent(c, Telling(b, p)))
           /\ \A x \in PathsOf(b) :
                 At(applySynthEvent(c, Telling(b, p)), x) \in {At(b, x), At(c, x)}
<1> DEFINE r == applySynthEvent(c, Telling(b, p))
           T == AnyBlock
<1>0. c = [k \in DOMAIN T |-> c[k]] /\ PathsOf(b) = PathsOf(c)
  <2>1. PathsOf(b) = PathsOf(c)
    BY SamePaths
  <2>2. c = [k \in DOMAIN T |-> c[k]]
    BY DEF Shaped
  <2> QED
    BY <2>1, <2>2
<1>1. ASSUME NEW f \in DOMAIN T, r = [c EXCEPT ![f] = r[f]],
             \A x \in PathsOf(b) : x[1] = f => At(r, x) \in {At(b, x), At(c, x)}
      PROVE  \A x \in PathsOf(b) : At(r, x) \in {At(b, x), At(c, x)}
  <2>1. OnlyUnder(f, r, c)
    BY <1>0, <1>1 DEF OnlyUnder
  <2>2. \A x \in PathsOf(b) : x[1] # f => At(r, x) = At(c, x)
    <3> HIDE DEF r
    <3>1. \A x \in PathsOf(c) : x[1] # f => At(r, x) = At(c, x)
      BY <2>1, Elsewhere
    <3> QED
      BY <1>0, <3>1
  <2> QED
    BY <1>1, <2>2
<1>2. CASE \E f : IsField(p, f)
  <2>1. PICK f : IsField(p, f)
    BY <1>2
  <2>2. r = [c EXCEPT ![f] = b[f]] /\ p[1] = f
    BY <2>1, Merges, FieldPath
  <2>3. f \in DOMAIN T /\ f \notin Groups /\ f \notin Arrays
    BY <2>1 DEF IsField
  <2> HIDE DEF r
  <2>4. /\ r = [k \in DOMAIN T |-> r[k]] /\ r = [c EXCEPT ![f] = r[f]]
        /\ \A k \in DOMAIN T \ {f} : r[k] = c[k]
        /\ r[f] = b[f]
    BY <1>0, <2>2, <2>3
  <2>5. Shaped(r)
    BY <2>3, <2>4 DEF Shaped
  <2>6. ASSUME NEW x \in PathsOf(b), x[1] = f PROVE At(r, x) = At(b, x)
    <3>1. x = p
      BY <2>1, <2>2, <2>6, FormsApart, LeafForms
    <3> QED
      BY <2>1, <2>4, <3>1, FieldPath
  <2>7. \A x \in PathsOf(b) : At(r, x) \in {At(b, x), At(c, x)}
    BY <1>1, <2>3, <2>4, <2>6 DEF r
  <2> QED
    BY <2>5, <2>7 DEF r
<1>3. CASE \E g, l : IsLeaf(p, g, l)
  <2>1. PICK g, l : IsLeaf(p, g, l)
    BY <1>3
  <2>2. r = [c EXCEPT ![g] = b[g]] /\ p[1] = g
    BY <2>1, Merges, LeafPath
  <2>3. g \in DOMAIN T /\ g \in Groups /\ g \notin Arrays
    BY <2>1 DEF IsLeaf, Groups, Arrays
  <2> HIDE DEF r
  <2>4. /\ r = [k \in DOMAIN T |-> r[k]] /\ r = [c EXCEPT ![g] = r[g]]
        /\ \A k \in DOMAIN T \ {g} : r[k] = c[k]
        /\ r[g] = b[g]
    BY <1>0, <2>2, <2>3
  <2>5. Shaped(r)
    BY <2>3, <2>4 DEF Shaped
  <2>6. ASSUME NEW x \in PathsOf(b), x[1] = g PROVE At(r, x) = At(b, x)
    <3>1. PICK m : IsLeaf(x, g, m)
      BY <2>1, <2>2, <2>6, FormsApart, LeafForms
    <3>2. At(r, x) = r[g][m] /\ At(b, x) = b[g][m]
      BY <3>1, LeafPath
    <3> QED
      BY <2>4, <3>2
  <2>7. \A x \in PathsOf(b) : At(r, x) \in {At(b, x), At(c, x)}
    BY <1>1, <2>3, <2>4, <2>6 DEF r
  <2> QED
    BY <2>5, <2>7 DEF r
<1>4. CASE \E a, i, l : IsCell(p, a, i, l)
  <2>1. PICK a, i, l : IsCell(p, a, i, l)
    BY <1>4
  <2>2. r = [c EXCEPT ![a][i] = b[a][i]] /\ p[1] = a
    BY <2>1, Merges, CellPath
  <2>3. a \in DOMAIN T /\ a \in Arrays /\ a \notin Groups /\ i \in DOMAIN T[a]
    BY <2>1 DEF IsCell, Groups, Arrays
  <2>4. /\ c[a] = [k \in DOMAIN T[a] |-> c[a][k]]
        /\ \A j \in DOMAIN T[a] :
              /\ c[a][j] = [k \in DOMAIN T[a][j] |-> c[a][j][k]]
              /\ b[a][j] = [k \in DOMAIN T[a][j] |-> b[a][j][k]]
    BY <2>3 DEF Shaped
  <2> HIDE DEF r
  <2>5. /\ r = [k \in DOMAIN T |-> r[k]] /\ r = [c EXCEPT ![a] = r[a]]
        /\ \A k \in DOMAIN T \ {a} : r[k] = c[k]
        /\ r[a] = [c[a] EXCEPT ![i] = b[a][i]]
    BY <1>0, <2>2, <2>3
  <2>6. /\ r[a] = [k \in DOMAIN T[a] |-> r[a][k]]
        /\ \A k \in DOMAIN T[a] \ {i} : r[a][k] = c[a][k]
        /\ r[a][i] = b[a][i]
    BY <2>3, <2>4, <2>5
  <2>7. \A j \in DOMAIN T[a] : r[a][j] = [k \in DOMAIN T[a][j] |-> r[a][j][k]]
    BY <2>4, <2>6
  <2>8. Shaped(r)
    BY <2>3, <2>5, <2>6, <2>7 DEF Shaped, Arrays
  <2>9. ASSUME NEW x \in PathsOf(b), x[1] = a PROVE At(r, x) \in {At(b, x), At(c, x)}
    <3>1. PICK j, m : IsCell(x, a, j, m)
      BY <2>1, <2>2, <2>9, FormsApart, LeafForms
    <3>2. At(r, x) = r[a][j][m] /\ At(b, x) = b[a][j][m] /\ At(c, x) = c[a][j][m]
      BY <3>1, CellPath
    <3>3. j \in DOMAIN T[a]
      BY <3>1 DEF IsCell
    <3> QED
      BY <2>6, <3>2, <3>3
  <2>10. \A x \in PathsOf(b) : At(r, x) \in {At(b, x), At(c, x)}
    BY <1>1, <2>3, <2>5, <2>9 DEF r
  <2> QED
    BY <2>8, <2>10 DEF r
<1> QED
  BY <1>2, <1>3, <1>4, LeafForms

LEMMA AppliedAt ==
    ASSUME NEW b, Shaped(b), NEW c, Shaped(c), NEW p \in PathsOf(b)
    PROVE  At(applySynthEvent(c, Telling(b, p)), p) = At(b, p)
<1> DEFINE r == applySynthEvent(c, Telling(b, p))
<1>0. c = [k \in DOMAIN AnyBlock |-> c[k]]
  BY DEF Shaped
<1>1. ASSUME NEW f, IsField(p, f) PROVE At(r, p) = At(b, p)
  <2>1. r = [c EXCEPT ![f] = b[f]] /\ f \in DOMAIN AnyBlock
    BY <1>1, Merges DEF IsField
  <2> HIDE DEF r
  <2>2. r[f] = b[f]
    BY <1>0, <2>1
  <2> QED
    BY <1>1, <2>2, FieldPath
<1>2. ASSUME NEW g, NEW l, IsLeaf(p, g, l) PROVE At(r, p) = At(b, p)
  <2>1. r = [c EXCEPT ![g] = b[g]] /\ g \in DOMAIN AnyBlock
    BY <1>2, Merges DEF IsLeaf
  <2> HIDE DEF r
  <2>2. r[g] = b[g]
    BY <1>0, <2>1
  <2> QED
    BY <1>2, <2>2, LeafPath
<1>3. ASSUME NEW a, NEW i, NEW l, IsCell(p, a, i, l) PROVE At(r, p) = At(b, p)
  <2>1. r = [c EXCEPT ![a][i] = b[a][i]]
    BY <1>3, Merges
  <2>2. a \in DOMAIN AnyBlock \cap Arrays /\ i \in DOMAIN AnyBlock[a]
    BY <1>3 DEF IsCell
  <2>3. c[a] = [k \in DOMAIN AnyBlock[a] |-> c[a][k]]
    BY <2>2 DEF Shaped
  <2> HIDE DEF r
  <2>4. r[a] = [c[a] EXCEPT ![i] = b[a][i]]
    BY <1>0, <2>1, <2>2
  <2>5. r[a][i] = b[a][i]
    BY <2>2, <2>3, <2>4
  <2> QED
    BY <1>3, <2>5, CellPath
<1> QED
  BY <1>1, <1>2, <1>3, LeafForms

\* Blocks with the same at every leaf are the same.
LEMMA SameLeaves ==
    ASSUME NEW b, Shaped(b), NEW c, Shaped(c), NoPatchLeaf,
           \A p \in Leaves : At(b, p) = At(c, p)
    PROVE  b = c
<1>0. Shaped(AnyBlock) => Leaves = PathsOf(b)
  BY SamePaths DEF Leaves
<1>1. ASSUME NEW f \in DOMAIN AnyBlock PROVE b[f] = c[f]
  <2>1. CASE f \notin Groups \cup Arrays
    <3>1. IsField(<<f>>, f)
      BY <2>1 DEF IsField
    <3>2. <<f>> \in Leaves
      BY <2>1, PathIs DEF Leaves
    <3> QED
      BY <3>1, <3>2, FieldPath
  <2>2. CASE f \in Groups
    <3>1. ASSUME NEW l \in DOMAIN AnyBlock[f] PROVE b[f][l] = c[f][l]
      <4>1. IsLeaf(<<f, l>>, f, l)
        BY <2>2, <3>1 DEF IsLeaf
      <4>2. <<f, l>> \in Leaves
        BY <2>2, PathIs DEF Leaves
      <4>3. At(b, <<f, l>>) = b[f][l] /\ At(c, <<f, l>>) = c[f][l]
        BY <4>1, LeafPath
      <4> QED
        BY <4>2, <4>3
    <3>2. /\ b[f] = [l \in DOMAIN AnyBlock[f] |-> b[f][l]]
          /\ c[f] = [l \in DOMAIN AnyBlock[f] |-> c[f][l]]
      BY <2>2 DEF Shaped
    <3>3. [l \in DOMAIN AnyBlock[f] |-> b[f][l]] = [l \in DOMAIN AnyBlock[f] |-> c[f][l]]
      BY <3>1
    <3> QED
      BY <3>2, <3>3, Zenon
  <2>3. CASE f \in Arrays
    <3>1. ASSUME NEW i \in DOMAIN AnyBlock[f] PROVE b[f][i] = c[f][i]
      <4>1. ASSUME NEW l \in DOMAIN AnyBlock[f][i] PROVE b[f][i][l] = c[f][i][l]
        <5>1. l # "patch"
          BY <2>3 DEF NoPatchLeaf
        <5>2. IsCell(<<f, i, l>>, f, i, l)
          BY <2>3, <5>1 DEF IsCell
        <5>3. <<f, i, l>> \in Leaves
          BY <2>3, <5>1, PathIs DEF Leaves
        <5>4. At(b, <<f, i, l>>) = b[f][i][l] /\ At(c, <<f, i, l>>) = c[f][i][l]
          BY <5>2, CellPath
        <5> QED
          BY <5>3, <5>4
      <4>2. /\ b[f][i] = [l \in DOMAIN AnyBlock[f][i] |-> b[f][i][l]]
            /\ c[f][i] = [l \in DOMAIN AnyBlock[f][i] |-> c[f][i][l]]
        BY <2>3 DEF Shaped
      <4>3. [l \in DOMAIN AnyBlock[f][i] |-> b[f][i][l]]
              = [l \in DOMAIN AnyBlock[f][i] |-> c[f][i][l]]
        BY <4>1
      <4> QED
        BY <4>2, <4>3, Zenon
    <3>2. /\ b[f] = [i \in DOMAIN AnyBlock[f] |-> b[f][i]]
          /\ c[f] = [i \in DOMAIN AnyBlock[f] |-> c[f][i]]
      BY <2>3 DEF Shaped
    <3>3. [i \in DOMAIN AnyBlock[f] |-> b[f][i]] = [i \in DOMAIN AnyBlock[f] |-> c[f][i]]
      BY <3>1
    <3> QED
      BY <3>2, <3>3, Zenon
  <2> QED
    BY <2>1, <2>2, <2>3
<1>2. b = [f \in DOMAIN AnyBlock |-> b[f]] /\ c = [f \in DOMAIN AnyBlock |-> c[f]]
  BY DEF Shaped
<1>3. [f \in DOMAIN AnyBlock |-> b[f]] = [f \in DOMAIN AnyBlock |-> c[f]]
  BY <1>1
<1> QED
  BY <1>2, <1>3, Zenon

\* The page's block c is b but for the texts `patch` that its rows took in.
SameRow(a, i, u, v) ==
    /\ DOMAIN u \ {"patch"} = DOMAIN AnyBlock[a][i]
    /\ \A l \in DOMAIN AnyBlock[a][i] : u[l] = v[l]
Same(c, b) ==
    /\ DOMAIN c = DOMAIN AnyBlock
    /\ \A f \in DOMAIN AnyBlock \ Arrays : c[f] = b[f]
    /\ \A a \in DOMAIN AnyBlock \cap Arrays :
          /\ DOMAIN c[a] = DOMAIN AnyBlock[a]
          /\ \A i \in DOMAIN AnyBlock[a] : SameRow(a, i, c[a][i], b[a][i])

LEMMA SameAsItself ==
    ASSUME NEW b, Shaped(b), NoPatchLeaf
    PROVE  Same(b, b)
<1>1. ASSUME NEW a \in DOMAIN AnyBlock \cap Arrays, NEW i \in DOMAIN AnyBlock[a]
      PROVE  SameRow(a, i, b[a][i], b[a][i])
  <2>1. DOMAIN b[a][i] = DOMAIN AnyBlock[a][i]
    BY Domains
  <2>2. "patch" \notin DOMAIN AnyBlock[a][i]
    BY DEF NoPatchLeaf
  <2> QED
    BY <2>1, <2>2 DEF SameRow
<1>2. /\ DOMAIN b = DOMAIN AnyBlock
      /\ \A a \in DOMAIN AnyBlock \cap Arrays : DOMAIN b[a] = DOMAIN AnyBlock[a]
  BY Domains
<1> QED
  BY <1>1, <1>2 DEF Same

\* It has the same widgets, and they show the same.
LEMMA SameReads ==
    ASSUME NEW c, NEW b, Shaped(b), Same(c, b)
    PROVE  PathsOf(c) = PathsOf(b) /\ \A p \in PathsOf(b) : At(c, p) = At(b, p)
<1>1. /\ DOMAIN c = DOMAIN b /\ DOMAIN b = DOMAIN AnyBlock
      /\ \A g \in DOMAIN b \cap Groups : c[g] = b[g] /\ g \notin Arrays
      /\ \A a \in DOMAIN b \cap Arrays :
            /\ DOMAIN c[a] = DOMAIN b[a] /\ DOMAIN b[a] = DOMAIN AnyBlock[a]
            /\ \A i \in DOMAIN b[a] :
                  DOMAIN c[a][i] \ {"patch"} = DOMAIN b[a][i] \ {"patch"}
  <2>2. DOMAIN c = DOMAIN AnyBlock
    BY DEF Same
  <2>3. ASSUME NEW a \in DOMAIN AnyBlock \cap Arrays PROVE DOMAIN c[a] = DOMAIN AnyBlock[a]
    BY DEF Same
  <2>4. ASSUME NEW a \in DOMAIN AnyBlock \cap Arrays, NEW i \in DOMAIN AnyBlock[a]
        PROVE  DOMAIN c[a][i] \ {"patch"} = DOMAIN b[a][i] \ {"patch"}
    <3>1. DOMAIN c[a][i] \ {"patch"} = DOMAIN AnyBlock[a][i]
      BY DEF Same, SameRow
    <3>2. DOMAIN b[a][i] = DOMAIN AnyBlock[a][i]
      BY Domains
    <3> QED
      BY <3>1, <3>2
  <2>5. \A g \in Groups : g \notin Arrays
    BY DEF Groups, Arrays
  <2>6. \A g \in DOMAIN AnyBlock \cap Groups : c[g] = b[g]
    BY <2>5 DEF Same
  <2> QED
    BY <2>2, <2>3, <2>4, <2>5, <2>6, Domains
<1>2. \A p : p \in PathsOf(c) <=> p \in PathsOf(b)
  BY <1>1, PathIs
<1>3. ASSUME NEW p \in PathsOf(b) PROVE At(c, p) = At(b, p)
  <2>1. ASSUME NEW f, IsField(p, f) PROVE At(c, p) = At(b, p)
    BY <2>1, FieldPath DEF IsField, Same
  <2>2. ASSUME NEW g, NEW l, IsLeaf(p, g, l) PROVE At(c, p) = At(b, p)
    <3>1. c[g] = b[g]
      BY <1>1, <2>2 DEF IsLeaf
    <3> QED
      BY <2>2, <3>1, LeafPath
  <2>3. ASSUME NEW a, NEW i, NEW l, IsCell(p, a, i, l) PROVE At(c, p) = At(b, p)
    <3>1. /\ a \in DOMAIN AnyBlock \cap Arrays /\ i \in DOMAIN AnyBlock[a]
          /\ l \in DOMAIN AnyBlock[a][i]
      BY <2>3 DEF IsCell
    <3>2. c[a][i][l] = b[a][i][l]
      BY <3>1 DEF Same, SameRow
    <3> QED
      BY <2>3, <3>2, CellPath
  <2> QED
    BY <2>1, <2>2, <2>3, LeafForms
<1> QED
  BY <1>2, <1>3

\* An edit's event says of a row what the daemon has there, and the patch.
SaysOf(e, d, p) ==
    /\ e.field = p[1] /\ ("index" \in DOMAIN e <=> Len(p) = 3)
    /\ "patch" \notin DOMAIN e /\ e # Gap
    /\ \A a, i, l : IsCell(p, a, i, l) =>
          /\ e.index = i /\ DOMAIN e.value = DOMAIN AnyBlock[a][i] \cup {"patch"}
          /\ \A k \in DOMAIN AnyBlock[a][i] : e.value[k] = d[a][i][k]

LEMMA Says ==
    ASSUME NEW q, NEW d, Shaped(d), NoPatchLeaf, NEW p \in PathsOf(d)
    PROVE  SaysOf(SynthEventOf(q, d, p), d, p)
<1> DEFINE e == SynthEventOf(q, d, p)
<1>1. ASSUME NEW f, IsField(p, f)
      PROVE  e = [field |-> f, value |-> d[f]] /\ p[1] = f /\ Len(p) = 1
  BY <1>1 DEF IsField, SynthEventOf
<1>2. ASSUME NEW g, NEW l, IsLeaf(p, g, l)
      PROVE  e = [field |-> g, value |-> d[g]] /\ p[1] = g /\ Len(p) = 2
  BY <1>2 DEF IsLeaf, SynthEventOf
<1>3. ASSUME NEW a, NEW i, NEW l, IsCell(p, a, i, l)
      PROVE  /\ p[1] = a /\ Len(p) = 3
             /\ e = [field |-> a, index |-> i, value |-> Spread(d[a][i], [patch |-> q])]
  BY <1>3 DEF IsCell, SynthEventOf
<1>4. \/ (\E f : IsField(p, f)) \/ (\E g, l : IsLeaf(p, g, l)) \/ (\E a, i, l : IsCell(p, a, i, l))
  BY LeafForms
<1>5. /\ e.field = p[1] /\ ("index" \in DOMAIN e <=> Len(p) = 3)
      /\ "patch" \notin DOMAIN e /\ "gap" \notin DOMAIN e
  <2> HIDE DEF e
  <2>1. CASE \E f : IsField(p, f)
    <3>1. PICK f : e = [field |-> f, value |-> d[f]] /\ p[1] = f /\ Len(p) = 1
      BY <1>1, <2>1
    <3> QED
      BY <3>1
  <2>2. CASE \E g, l : IsLeaf(p, g, l)
    <3>1. PICK g : e = [field |-> g, value |-> d[g]] /\ p[1] = g /\ Len(p) = 2
      BY <1>2, <2>2
    <3> QED
      BY <3>1
  <2>3. CASE \E a, i, l : IsCell(p, a, i, l)
    <3>1. PICK a, i : /\ p[1] = a /\ Len(p) = 3
                      /\ e = [field |-> a, index |-> i, value |-> Spread(d[a][i], [patch |-> q])]
      BY <1>3, <2>3
    <3> QED
      BY <3>1
  <2> QED
    BY <1>4, <2>1, <2>2, <2>3
<1>7. ASSUME NEW a, NEW i, NEW l, IsCell(p, a, i, l)
      PROVE  /\ e.index = i /\ DOMAIN e.value = DOMAIN AnyBlock[a][i] \cup {"patch"}
             /\ \A k \in DOMAIN AnyBlock[a][i] : e.value[k] = d[a][i][k]
  <2>1. e.index = i /\ e.value = Spread(d[a][i], [patch |-> q])
    BY <1>3, <1>7
  <2>2. DOMAIN d[a][i] = DOMAIN AnyBlock[a][i] /\ "patch" \notin DOMAIN AnyBlock[a][i]
    BY <1>7, Domains DEF IsCell, NoPatchLeaf
  <2>3. /\ DOMAIN Spread(d[a][i], [patch |-> q]) = DOMAIN d[a][i] \cup {"patch"}
        /\ \A k \in DOMAIN d[a][i] \ {"patch"} : Spread(d[a][i], [patch |-> q])[k] = d[a][i][k]
    BY DEF Spread
  <2> QED
    BY <2>1, <2>2, <2>3
<1>8. e # Gap
  BY <1>5 DEF Gap
<1> HIDE DEF e
<1>9. SaysOf(e, d, p)
  BY <1>5, <1>7, <1>8 DEF SaysOf
<1> QED
  BY <1>9 DEF e

\* So it makes the same of the page's block as of the one it stands for.
LEMMA SameHears ==
    ASSUME NEW c, NEW b, Shaped(b), Same(c, b), NoPatchLeaf,
           NEW q, NEW d, Shaped(d), NEW p \in PathsOf(d)
    PROVE  Same(applySynthEvent(c, SynthEventOf(q, d, p)), applySynthEvent(b, Telling(d, p)))
<1> DEFINE e == SynthEventOf(q, d, p)
           c2 == applySynthEvent(c, e)
           b2 == applySynthEvent(b, Telling(d, p))
           T == AnyBlock
<1>0. DOMAIN c = DOMAIN T /\ DOMAIN b = DOMAIN T
  BY Domains DEF Same
<1>1. ASSUME NEW f \in DOMAIN T \ Arrays, c2 = [c EXCEPT ![f] = d[f]], b2 = [b EXCEPT ![f] = d[f]]
      PROVE  Same(c2, b2)
  <2> HIDE DEF c2, b2
  <2>1. /\ DOMAIN c2 = DOMAIN T /\ c2[f] = b2[f]
        /\ \A k \in DOMAIN T \ {f} : c2[k] = c[k] /\ b2[k] = b[k]
    BY <1>0, <1>1
  <2>2. \A k \in DOMAIN T \ Arrays : c2[k] = b2[k]
    BY <2>1 DEF Same
  <2>3. \A a \in DOMAIN T \cap Arrays : c2[a] = c[a] /\ b2[a] = b[a]
    BY <1>1, <2>1
  <2> QED
    BY <2>1, <2>2, <2>3 DEF Same
<1>2. ASSUME NEW f, IsField(p, f) PROVE Same(c2, b2)
  <2>1. f \in DOMAIN T \ Arrays /\ f \notin Groups /\ b2 = [b EXCEPT ![f] = d[f]]
    BY <1>2, Merges DEF IsField
  <2>2. e = [field |-> f, value |-> d[f]]
    BY <1>2 DEF IsField, SynthEventOf
  <2>3. c2 = [c EXCEPT ![f] = d[f]]
    <3>1. "index" \notin DOMAIN e /\ e.field = f /\ e.value = d[f]
      BY <2>2
    <3> HIDE DEF e
    <3> QED
      BY <2>1, <3>1 DEF applySynthEvent
  <2> QED
    BY <1>1, <2>1, <2>3
<1>3. ASSUME NEW g, NEW l, IsLeaf(p, g, l) PROVE Same(c2, b2)
  <2>1. g \in DOMAIN T \ Arrays /\ g \in Groups /\ b2 = [b EXCEPT ![g] = d[g]]
    BY <1>3, Merges DEF IsLeaf, Groups, Arrays
  <2>2. e = [field |-> g, value |-> d[g]]
    BY <1>3 DEF IsLeaf, SynthEventOf
  <2>3. c2 = [c EXCEPT ![g] = Spread(c[g], d[g])]
    <3>1. "index" \notin DOMAIN e /\ e.field = g /\ e.value = d[g]
      BY <2>2
    <3> HIDE DEF e
    <3> QED
      BY <2>1, <3>1 DEF applySynthEvent
  <2>4. c[g] = b[g] /\ b[g] = [k \in DOMAIN T[g] |-> b[g][k]] /\ d[g] = [k \in DOMAIN T[g] |-> d[g][k]]
    BY <2>1 DEF Same, Shaped
  <2>5. Spread(b[g], d[g]) = d[g]
    BY <2>4, SpreadOver
  <2>6. c2 = [c EXCEPT ![g] = d[g]]
    BY <2>3, <2>4, <2>5
  <2> QED
    BY <1>1, <2>1, <2>6
<1>4. ASSUME NEW a, NEW i, NEW l, IsCell(p, a, i, l) PROVE Same(c2, b2)
  <2>1. /\ a \in DOMAIN T \cap Arrays /\ i \in DOMAIN T[a] /\ p[1] = a /\ Len(p) = 3
        /\ b2 = [b EXCEPT ![a][i] = d[a][i]]
    BY <1>4, Merges DEF IsCell
  <2> DEFINE w == e.value
             row == Spread(c[a][i], w)
  <2>2. /\ e.field = a /\ e.index = i /\ "index" \in DOMAIN e
        /\ DOMAIN w = DOMAIN T[a][i] \cup {"patch"}
        /\ \A k \in DOMAIN T[a][i] : w[k] = d[a][i][k]
    <3>1. SaysOf(e, d, p)
      BY Says
    <3> HIDE DEF e
    <3> QED
      BY <1>4, <2>1, <3>1 DEF SaysOf
  <2>3. DOMAIN c[a] = DOMAIN T[a] /\ DOMAIN b[a] = DOMAIN T[a]
    BY <2>1, Domains DEF Same
  <2>4. i \in DOMAIN c[a]
    BY <2>1, <2>3
  <2>5. c2 = [c EXCEPT ![a][i] = row]
    <3> HIDE DEF e
    <3> QED
      BY <2>2, <2>4 DEF applySynthEvent
  <2>6. "patch" \notin DOMAIN T[a][i] /\ DOMAIN c[a][i] \ {"patch"} = DOMAIN T[a][i]
    BY <2>1 DEF NoPatchLeaf, Same, SameRow
  <2>7. /\ DOMAIN row \ {"patch"} = DOMAIN T[a][i]
        /\ \A k \in DOMAIN T[a][i] : row[k] = d[a][i][k]
    <3> HIDE DEF w
    <3>1. /\ DOMAIN row = DOMAIN c[a][i] \cup DOMAIN w
          /\ \A k \in DOMAIN w : row[k] = w[k]
      BY DEF Spread
    <3> QED
      BY <2>2, <2>6, <3>1
  <2> HIDE DEF c2, b2, row, e
  <2>8. /\ DOMAIN c2 = DOMAIN T
        /\ \A k \in DOMAIN T \ {a} : c2[k] = c[k] /\ b2[k] = b[k]
        /\ c2[a] = [c[a] EXCEPT ![i] = row] /\ b2[a] = [b[a] EXCEPT ![i] = d[a][i]]
    BY <1>0, <2>1, <2>5
  <2>9. /\ DOMAIN c2[a] = DOMAIN T[a]
        /\ c2[a][i] = row /\ b2[a][i] = d[a][i]
        /\ \A j \in DOMAIN T[a] \ {i} : c2[a][j] = c[a][j] /\ b2[a][j] = b[a][j]
    BY <2>1, <2>3, <2>8
  <2>10. \A k \in DOMAIN T \ Arrays : c2[k] = b2[k]
    BY <2>1, <2>8 DEF Same
  <2>11. ASSUME NEW j \in DOMAIN T[a]
         PROVE  SameRow(a, j, c2[a][j], b2[a][j])
    <3>1. CASE j = i
      BY <2>7, <2>9, <3>1 DEF SameRow
    <3>2. CASE j # i
      <4>1. c2[a][j] = c[a][j] /\ b2[a][j] = b[a][j]
        BY <2>9, <3>2
      <4> QED
        BY <2>1, <4>1 DEF Same
    <3> QED
      BY <3>1, <3>2
  <2>12. ASSUME NEW h \in DOMAIN T \cap Arrays, h # a
         PROVE  /\ DOMAIN c2[h] = DOMAIN T[h]
                /\ \A j \in DOMAIN T[h] : SameRow(h, j, c2[h][j], b2[h][j])
    <3>1. c2[h] = c[h] /\ b2[h] = b[h]
      BY <2>8, <2>12
    <3> QED
      BY <3>1 DEF Same
  <2>13. ASSUME NEW h \in DOMAIN T \cap Arrays
         PROVE  /\ DOMAIN c2[h] = DOMAIN T[h]
                /\ \A j \in DOMAIN T[h] : SameRow(h, j, c2[h][j], b2[h][j])
    <3>1. CASE h = a
      BY <2>9, <2>11, <3>1
    <3>2. CASE h # a
      BY <2>12, <3>2
    <3> QED
      BY <3>1, <3>2
  <2> HIDE DEF T
  <2> QED
    BY <2>8, <2>10, <2>13 DEF Same, T
<1> QED
  BY <1>2, <1>3, <1>4, LeafForms

\* What the daemon clamps is within its limits, and those within the sliders'.
LEMMA ClampWithin ==
    ASSUME NEW p, NEW v \in Int
    PROVE  Within(p, clampRange(p, v))
<1> DEFINE key == Key(p)
<1>1. Limits(key)[1] \in Int /\ Limits(key)[2] \in Int /\ Limits(key)[1] <= Limits(key)[2]
  BY DEF Limits
<1> QED
  BY <1>1 DEF Within, clampRange

LEMMA LimitsWithin ==
    ASSUME NEW b, Shaped(b), NEW p \in PathsOf(b), IsSlider(p), NEW v, Within(p, v)
    PROVE  v \in SpecOf(p).min .. SpecOf(p).max
<1>1. Key(p) # <<"osc", "octave">>
  <2> SUFFICES ASSUME Key(p) = <<"osc", "octave">> PROVE FALSE
    OBVIOUS
  <2>1. Len(p) # 3
    BY DEF IsSlider, IsSelect, INT_SELECTS
  <2>2. p = <<"osc", "octave">>
    BY <2>1 DEF Key
  <2>3. ASSUME NEW f, IsField(p, f) PROVE FALSE
    BY <2>2, <2>3 DEF IsField
  <2>4. ASSUME NEW g, NEW l, IsLeaf(p, g, l) PROVE FALSE
    BY <2>2, <2>4 DEF IsLeaf, Groups
  <2>5. ASSUME NEW a, NEW i, NEW l, IsCell(p, a, i, l) PROVE FALSE
    BY <2>1, <2>5 DEF IsCell
  <2> QED
    BY <2>3, <2>4, <2>5, LeafForms
<1>2. ASSUME NEW key, key # <<"osc", "octave">>
      PROVE  /\ RANGES(key).min \in Int /\ RANGES(key).max \in Int
             /\ Limits(key)[1] \in Int /\ Limits(key)[2] \in Int
             /\ RANGES(key).min <= Limits(key)[1] /\ Limits(key)[2] <= RANGES(key).max
  <2>1. CASE key = <<"resonance">>
    <3>1. RANGES(key) = NumSpec(0, 9500, 50) /\ Limits(key) = <<0, 9500>>
      BY <2>1 DEF RANGES, Limits, Times
    <3> QED
      BY <3>1 DEF NumSpec
  <2>2. CASE key = <<"glide">>
    <3>1. RANGES(key) = NumSpec(0, 50000, 100) /\ Limits(key) = <<0, 50000>>
      BY <2>2 DEF RANGES, Limits, Times
    <3> QED
      BY <3>1 DEF NumSpec
  <2>3. CASE key = <<"pulse_width">>
    <3>1. RANGES(key) = NumSpec(500, 9500, 50) /\ Limits(key) = <<500, 9500>>
      BY <2>3 DEF RANGES, Limits, Times
    <3> QED
      BY <3>1 DEF NumSpec
  <2>4. CASE key = <<"bend_range">>
    <3>1. RANGES(key) = NumSpec(0, 120000, 5000) /\ Limits(key) = <<0, 120000>>
      BY <2>4 DEF RANGES, Limits, Times
    <3> QED
      BY <3>1 DEF NumSpec
  <2>5. CASE key \in Times
    <3>1. RANGES(key) = NumSpec(0, 100000, 10) /\ Limits(key) = <<1, 100000>>
      BY <2>5 DEF RANGES, Limits, Times
    <3> QED
      BY <3>1 DEF NumSpec
  <2>6. CASE key = <<"lfo", "rate_hz">>
    <3>1. RANGES(key) = NumSpec(500, 200000, 500) /\ Limits(key) = <<500, 200000>>
      BY <2>6 DEF RANGES, Limits, Times
    <3> QED
      BY <3>1 DEF NumSpec
  <2>7. CASE key = <<"lfo", "to_pitch_cents">>
    <3>1. RANGES(key) = NumSpec(0, 1000000, 10000) /\ Limits(key) = <<0, 1000000>>
      BY <2>7 DEF RANGES, Limits, Times
    <3> QED
      BY <3>1 DEF NumSpec
  <2>8. CASE key = <<"lfo", "to_cutoff_oct">>
    <3>1. RANGES(key) = NumSpec(0, 20000, 100) /\ Limits(key) = <<0, 20000>>
      BY <2>8 DEF RANGES, Limits, Times
    <3> QED
      BY <3>1 DEF NumSpec
  <2>9. CASE key = <<"osc", "detune_cents">>
    <3>1. RANGES(key) = NumSpec(-1000000, 1000000, 10000) /\ Limits(key) = <<-1000000, 1000000>>
      BY <2>9 DEF RANGES, Limits, Times
    <3> QED
      BY <3>1 DEF NumSpec
  <2>10. CASE /\ key \notin Times
              /\ key # <<"resonance">>
              /\ key # <<"glide">>
              /\ key # <<"pulse_width">>
              /\ key # <<"bend_range">>
              /\ key # <<"lfo", "rate_hz">>
              /\ key # <<"lfo", "to_pitch_cents">>
              /\ key # <<"lfo", "to_cutoff_oct">>
              /\ key # <<"osc", "detune_cents">>
    <3>1. RANGES(key) = NumSpec(0, 10000, 100) /\ Limits(key) = <<0, 10000>>
      BY <1>2, <2>10 DEF RANGES, Limits, GENERIC
    <3> QED
      BY <3>1 DEF NumSpec
  <2> QED
    BY <2>1, <2>2, <2>3, <2>4, <2>5, <2>6, <2>7, <2>8, <2>9, <2>10
<1> QED
  BY <1>1, <1>2 DEF Within, SpecOf

----------------------------------------------------------------------------
(* The synth card: what the events on their way will make of the page.     *)

Names(e) == "patch" \in DOMAIN e

\* An event makes block d of block b: the one it carries, or an edit of b. In
\* the place of one that was dropped there could have been any.
Leads(b, e, d) ==
    \/ e = Gap
    \/ Names(e) /\ IF e.synth = NoBlock THEN d = b ELSE IsBlock(e.synth) /\ d = e.synth
    \/ \E q, c : \E p \in Leaves :
          /\ IsBlock(c) /\ e = SynthEventOf(q, c, p)
          /\ d = applySynthEvent(b, Telling(c, p))

\* The events of s, one after the other, make c of b. A function that lists what
\* there is after each stands for the recursion.
EndsIn(s, b, c) ==
    \E ahead :
        /\ ahead = [i \in 0 .. Len(s) |-> ahead[i]]
        /\ ahead[0] = b /\ ahead[Len(s)] = c
        /\ \A i \in DOMAIN s : Leads(ahead[i - 1], s[i], ahead[i])

LEMMA EndsAtOnce ==
    ASSUME NEW b, NEW c
    PROVE  EndsIn(<<>>, b, c) <=> b = c
<1>0. Len(<<>>) = 0 /\ DOMAIN <<>> = {}
  OBVIOUS
<1>1. ASSUME EndsIn(<<>>, b, c) PROVE b = c
  BY <1>0, <1>1 DEF EndsIn
<1>2. ASSUME b = c PROVE EndsIn(<<>>, b, c)
  <2> DEFINE ahead == [i \in 0 .. Len(<<>>) |-> b]
  <2>1. /\ ahead = [i \in 0 .. Len(<<>>) |-> ahead[i]]
        /\ ahead[0] = b /\ ahead[Len(<<>>)] = c
        /\ \A i \in DOMAIN <<>> : Leads(ahead[i - 1], <<>>[i], ahead[i])
    BY <1>0, <1>2
  <2> HIDE DEF ahead
  <2> QED
    BY <2>1 DEF EndsIn
<1> QED
  BY <1>1, <1>2

LEMMA EndsAfterLast ==
    ASSUME NEW s, IsSeq(s), NEW b, NEW c, NEW e, NEW d, EndsIn(s, b, c), Leads(c, e, d)
    PROVE  EndsIn(Append(s, e), b, d)
<1>1. PICK ahead : /\ ahead = [i \in 0 .. Len(s) |-> ahead[i]]
                   /\ ahead[0] = b /\ ahead[Len(s)] = c
                   /\ \A i \in DOMAIN s : Leads(ahead[i - 1], s[i], ahead[i])
  BY DEF EndsIn
<1> DEFINE t == Append(s, e)
           n == Len(s)
<1>2. /\ n \in Nat /\ DOMAIN s = 1 .. n /\ Len(t) = n + 1 /\ DOMAIN t = 1 .. n + 1
      /\ t[n + 1] = e /\ \A k \in 1 .. n : t[k] = s[k]
  BY SeqAndLast, LenProperties DEF IsSeq
<1> DEFINE after == [i \in 0 .. n + 1 |-> IF i = n + 1 THEN d ELSE ahead[i]]
<1>4. after = [i \in 0 .. n + 1 |-> after[i]]
  OBVIOUS
<1>0. ahead[0] = b /\ ahead[n] = c
  BY <1>1
<1> HIDE DEF t, n
<1>3. /\ after[0] = b /\ after[n + 1] = d /\ after[n] = c
      /\ \A i \in 0 .. n : after[i] = ahead[i]
  <2>1. \A i \in 0 .. n : i \in 0 .. n + 1 /\ i # n + 1
    BY <1>2
  <2>2. n + 1 \in 0 .. n + 1 /\ 0 \in 0 .. n /\ n \in 0 .. n
    BY <1>2
  <2>3. \A i \in 0 .. n : after[i] = ahead[i]
    BY <2>1
  <2> QED
    BY <1>0, <2>2, <2>3
<1> HIDE DEF after
<1>5. ASSUME NEW i \in DOMAIN t PROVE Leads(after[i - 1], t[i], after[i])
  <2>1. CASE i = n + 1
    <3>1. i - 1 = n
      BY <1>2, <2>1
    <3> QED
      BY <1>2, <1>3, <2>1, <3>1
  <2>2. CASE i # n + 1
    <3>1. i \in 1 .. n /\ i \in 0 .. n /\ i - 1 \in 0 .. n
      BY <1>2, <2>2
    <3>2. Leads(ahead[i - 1], s[i], ahead[i])
      BY <1>1, <1>2, <3>1
    <3>3. after[i] = ahead[i] /\ after[i - 1] = ahead[i - 1] /\ t[i] = s[i]
      BY <1>2, <1>3, <3>1
    <3> QED
      BY <3>2, <3>3
  <2> QED
    BY <2>1, <2>2
<1>6. EndsIn(t, b, d)
  BY <1>2, <1>3, <1>4, <1>5 DEF EndsIn
<1> QED
  BY <1>6 DEF t

LEMMA EndsAfterFirst ==
    ASSUME NEW s, IsSeq(s), s # <<>>, NEW b, NEW c, EndsIn(s, b, c)
    PROVE  \E d : Leads(b, Head(s), d) /\ EndsIn(Tail(s), d, c)
<1>1. PICK ahead : /\ ahead = [i \in 0 .. Len(s) |-> ahead[i]]
                   /\ ahead[0] = b /\ ahead[Len(s)] = c
                   /\ \A i \in DOMAIN s : Leads(ahead[i - 1], s[i], ahead[i])
  BY DEF EndsIn
<1> DEFINE t == Tail(s)
           n == Len(s)
<1>2. /\ n \in Nat /\ DOMAIN s = 1 .. n /\ 1 \in DOMAIN s /\ Head(s) = s[1]
      /\ Len(t) = n - 1 /\ DOMAIN t = 1 .. n - 1
      /\ \A k \in 1 .. n - 1 : t[k] = s[k + 1]
  BY RestOfSeq, LenProperties DEF IsSeq
<1> DEFINE after == [i \in 0 .. n - 1 |-> ahead[i + 1]]
<1>3. /\ after[0] = ahead[1] /\ after[n - 1] = ahead[n]
      /\ \A i \in 0 .. n - 1 : after[i] = ahead[i + 1]
  BY <1>2
<1>4. after = [i \in 0 .. n - 1 |-> after[i]]
  OBVIOUS
<1> HIDE DEF t, after, n
<1>5. ASSUME NEW i \in DOMAIN t PROVE Leads(after[i - 1], t[i], after[i])
  <2>1. /\ i \in 0 .. n - 1 /\ i - 1 \in 0 .. n - 1 /\ i + 1 \in DOMAIN s
        /\ (i - 1) + 1 = i /\ (i + 1) - 1 = i
    BY <1>2
  <2>2. Leads(ahead[i], s[i + 1], ahead[i + 1])
    BY <1>1, <2>1
  <2>3. after[i] = ahead[i + 1] /\ after[i - 1] = ahead[i] /\ t[i] = s[i + 1]
    BY <1>2, <1>3, <2>1
  <2> QED
    BY <2>2, <2>3
<1>6. Leads(b, Head(s), ahead[1])
  <2>1. 1 - 1 = 0
    OBVIOUS
  <2> QED
    BY <1>1, <1>2, <2>1
<1>7. ahead[n] = c
  BY <1>1 DEF n
<1>8. EndsIn(t, ahead[1], c)
  <2>1. after[0] = ahead[1] /\ after[Len(t)] = c
    BY <1>2, <1>3, <1>7
  <2>2. after = [i \in 0 .. Len(t) |-> after[i]]
    BY <1>2, <1>4
  <2> QED
    BY <1>5, <2>1, <2>2 DEF EndsIn
<1> QED
  BY <1>6, <1>8 DEF t

\* The snapshot is put before the rest.
LEMMA SeqAndFirst ==
    ASSUME NEW s, IsSeq(s), NEW e
    PROVE  /\ IsSeq(<<e>> \o s) /\ Len(<<e>> \o s) = Len(s) + 1 /\ <<e>> \o s # <<>>
           /\ Head(<<e>> \o s) = e /\ Tail(<<e>> \o s) = s
<1> DEFINE S == {s[k] : k \in DOMAIN s} \cup {e}
           t == <<e>> \o s
<1>1. s \in Seq(S)
  BY SeqMonotonic DEF IsSeq
<1> HIDE DEF S
<1>2. e \in S
  BY DEF S
<1>3. <<e>> \in Seq(S) /\ Len(<<e>>) = 1 /\ <<e>>[1] = e
  BY <1>2
<1>4. t \in Seq(S) /\ Len(t) = Len(s) + 1 /\ Len(s) \in Nat
      /\ \A i \in 1 .. Len(s) + 1 : t[i] = IF i <= 1 THEN <<e>>[i] ELSE s[i - 1]
  BY <1>1, <1>3, ConcatProperties, LenProperties
<1>5. t # <<>>
  BY <1>4, EmptySeq
<1> HIDE DEF t
<1>6. t[1] = e /\ \A k \in 1 .. Len(s) : t[k + 1] = s[k]
  BY <1>3, <1>4
<1>7. /\ Tail(t) \in Seq(S) /\ Head(t) = t[1] /\ Len(Tail(t)) = Len(s)
      /\ \A k \in 1 .. Len(s) : Tail(t)[k] = t[k + 1]
  BY <1>4, <1>5, HeadTailProperties
<1>8. Tail(t) = s
  BY <1>1, <1>6, <1>7, SeqEqual
<1>9. IsSeq(t)
  BY <1>4, OwnElements
<1> QED
  BY <1>4, <1>5, <1>6, <1>7, <1>8, <1>9 DEF t

LEMMA EndsBefore ==
    ASSUME NEW s, IsSeq(s), NEW b, NEW d, NEW e, NEW c, Leads(b, e, d), EndsIn(s, d, c)
    PROVE  EndsIn(<<e>> \o s, b, c)
<1>1. PICK ahead : /\ ahead = [i \in 0 .. Len(s) |-> ahead[i]]
                   /\ ahead[0] = d /\ ahead[Len(s)] = c
                   /\ \A i \in DOMAIN s : Leads(ahead[i - 1], s[i], ahead[i])
  BY DEF EndsIn
<1> DEFINE t == <<e>> \o s
           n == Len(s)
<1>2. /\ IsSeq(t) /\ Len(t) = n + 1 /\ t # <<>> /\ Head(t) = e /\ Tail(t) = s
  BY SeqAndFirst
<1> HIDE DEF t
<1>3. /\ n \in Nat /\ DOMAIN s = 1 .. n /\ DOMAIN t = 1 .. n + 1 /\ t[1] = e
      /\ \A k \in 1 .. n : s[k] = t[k + 1]
  <2>1. n \in Nat /\ DOMAIN s = 1 .. n /\ DOMAIN t = 1 .. n + 1
    BY <1>2, LenProperties DEF IsSeq
  <2> QED
    BY <1>2, <2>1, RestOfSeq
<1>4. ahead[0] = d /\ ahead[n] = c
  BY <1>1
<1> HIDE DEF n
<1> DEFINE before == [i \in 0 .. n + 1 |-> IF i = 0 THEN b ELSE ahead[i - 1]]
<1>5. /\ before = [i \in 0 .. n + 1 |-> before[i]] /\ before[0] = b
      /\ \A i \in 1 .. n + 1 : before[i] = ahead[i - 1]
  BY <1>3
<1> HIDE DEF before
<1>6. before[1] = d /\ before[n + 1] = c
  <2>1. 1 \in 1 .. n + 1 /\ n + 1 \in 1 .. n + 1 /\ 1 - 1 = 0 /\ (n + 1) - 1 = n
    BY <1>3
  <2> QED
    BY <1>4, <1>5, <2>1
<1>7. ASSUME NEW i \in DOMAIN t PROVE Leads(before[i - 1], t[i], before[i])
  <2>1. CASE i = 1
    <3>1. i - 1 = 0
      BY <2>1
    <3> QED
      BY <1>3, <1>5, <1>6, <2>1, <3>1
  <2>2. CASE i # 1
    <3>1. /\ i - 1 \in DOMAIN s /\ i \in 1 .. n + 1 /\ i - 1 \in 1 .. n + 1
          /\ (i - 1) + 1 = i
      BY <1>3, <2>2
    <3>2. Leads(ahead[(i - 1) - 1], s[i - 1], ahead[i - 1])
      BY <1>1, <3>1
    <3>3. before[i] = ahead[i - 1] /\ before[i - 1] = ahead[(i - 1) - 1] /\ s[i - 1] = t[i]
      BY <1>3, <1>5, <3>1
    <3> QED
      BY <3>2, <3>3
  <2> QED
    BY <2>1, <2>2
<1>8. EndsIn(t, b, c)
  BY <1>2, <1>5, <1>6, <1>7 DEF EndsIn
<1> QED
  BY <1>8 DEF t

\* One of the events is dropped.
LEMMA SeqWithGap ==
    ASSUME NEW s, IsSeq(s), NEW k \in DOMAIN s
    PROVE  LET t == [s EXCEPT ![k] = Gap]
           IN  /\ IsSeq(t) /\ DOMAIN t = DOMAIN s /\ Len(t) = Len(s) /\ t[k] = Gap
               /\ \A i \in DOMAIN s \ {k} : t[i] = s[i]
<1> DEFINE S == {s[i] : i \in DOMAIN s} \cup {Gap}
           t == [s EXCEPT ![k] = Gap]
<1>1. s \in Seq(S)
  BY SeqMonotonic DEF IsSeq
<1>2. Gap \in S
  OBVIOUS
<1> HIDE DEF S
<1>3. s \in [1 .. Len(s) -> S] /\ Len(s) \in Nat
  BY <1>1, LenProperties
<1>4. /\ t \in [1 .. Len(s) -> S] /\ DOMAIN t = DOMAIN s /\ t[k] = Gap
      /\ \A i \in DOMAIN s \ {k} : t[i] = s[i]
  BY <1>2, <1>3
<1> HIDE DEF t
<1>5. t \in Seq(S)
  BY <1>3, <1>4, SeqDef, Zenon
<1>6. Len(t) = Len(s)
  <2>1. Len(t) \in Nat /\ DOMAIN t = 1 .. Len(t) /\ DOMAIN t = 1 .. Len(s)
    BY <1>3, <1>4, <1>5, LenProperties
  <2>2. \A m, n \in Nat : 1 .. m = 1 .. n => m = n
    BY SMT
  <2> QED
    BY <1>3, <2>1, <2>2, Zenon
<1>7. IsSeq(t)
  BY <1>5, OwnElements
<1> QED
  BY <1>4, <1>6, <1>7 DEF t

LEMMA EndsWithGap ==
    ASSUME NEW s, IsSeq(s), NEW k \in DOMAIN s, NEW b, NEW c, EndsIn(s, b, c)
    PROVE  EndsIn([s EXCEPT ![k] = Gap], b, c)
<1> DEFINE t == [s EXCEPT ![k] = Gap]
<1>1. PICK ahead : /\ ahead = [i \in 0 .. Len(s) |-> ahead[i]]
                   /\ ahead[0] = b /\ ahead[Len(s)] = c
                   /\ \A i \in DOMAIN s : Leads(ahead[i - 1], s[i], ahead[i])
  BY DEF EndsIn
<1>2. /\ DOMAIN t = DOMAIN s /\ Len(t) = Len(s) /\ t[k] = Gap
      /\ \A i \in DOMAIN s \ {k} : t[i] = s[i]
  BY SeqWithGap
<1> HIDE DEF t
<1>3. \A x, y : Leads(x, Gap, y)
  BY DEF Leads
<1>4. ASSUME NEW i \in DOMAIN t PROVE Leads(ahead[i - 1], t[i], ahead[i])
  <2>1. CASE i = k
    BY <1>2, <1>3, <2>1
  <2>2. CASE i # k
    BY <1>1, <1>2, <2>2
  <2> QED
    BY <2>1, <2>2
<1>5. EndsIn(t, b, c)
  BY <1>1, <1>2, <1>4 DEF EndsIn
<1> QED
  BY <1>5 DEF t

\* The last patch that events name, if nothing was dropped behind it.
Marks(e) == Names(e) \/ e = Gap
NoneMarked(s) == \A k \in DOMAIN s : ~Marks(s[k])
Agrees(e, q) == e = Gap \/ e.patch = q
NamedLast(s, q) ==
    \A k \in DOMAIN s :
        Marks(s[k]) /\ (\A j \in DOMAIN s : j > k => ~Marks(s[j])) => Agrees(s[k], q)

LEMMA NamesBehind ==
    ASSUME NEW s, IsSeq(s), NEW e
    PROVE  /\ NoneMarked(Append(s, e)) => NoneMarked(s) /\ ~Marks(e)
           /\ \A q : ~Marks(e) /\ NamedLast(s, q) => NamedLast(Append(s, e), q)
           /\ \A q : Marks(e) /\ Agrees(e, q) => NamedLast(Append(s, e), q)
<1> DEFINE t == Append(s, e)
           n == Len(s)
<1>1. /\ n \in Nat /\ DOMAIN s = 1 .. n /\ DOMAIN t = 1 .. n + 1
      /\ t[n + 1] = e /\ \A k \in DOMAIN s : t[k] = s[k]
  BY SeqAndLast, LenProperties DEF IsSeq
<1> HIDE DEF t, n
<1>2. NoneMarked(t) => NoneMarked(s) /\ ~Marks(e)
  <2>1. DOMAIN s \subseteq DOMAIN t /\ n + 1 \in DOMAIN t
    BY <1>1
  <2> QED
    BY <1>1, <2>1 DEF NoneMarked
<1>3. ASSUME NEW q, ~Marks(e), NamedLast(s, q) PROVE NamedLast(t, q)
  <2> SUFFICES ASSUME NEW k \in DOMAIN t, Marks(t[k]),
                      \A j \in DOMAIN t : j > k => ~Marks(t[j])
               PROVE  Agrees(t[k], q)
    BY DEF NamedLast
  <2>1. k \in DOMAIN s /\ t[k] = s[k] /\ DOMAIN s \subseteq DOMAIN t
    BY <1>1, <1>3
  <2>2. \A j \in DOMAIN s : j > k => ~Marks(s[j])
    BY <1>1, <2>1
  <2> QED
    BY <1>3, <2>1, <2>2 DEF NamedLast
<1>4. ASSUME NEW q, Marks(e), Agrees(e, q) PROVE NamedLast(t, q)
  <2> SUFFICES ASSUME NEW k \in DOMAIN t, \A j \in DOMAIN t : j > k => ~Marks(t[j])
               PROVE  Agrees(t[k], q)
    BY DEF NamedLast
  <2>1. k = n + 1
    BY <1>1, <1>4
  <2> QED
    BY <1>1, <1>4, <2>1
<1> QED
  BY <1>2, <1>3, <1>4 DEF t

LEMMA NamesBefore ==
    ASSUME NEW s, IsSeq(s), s # <<>>, NEW q
    PROVE  /\ NamedLast(s, q) => /\ NamedLast(Tail(s), q)
                                 /\ NoneMarked(Tail(s)) /\ Marks(Head(s)) => Agrees(Head(s), q)
           /\ NoneMarked(Tail(s)) /\ ~Marks(Head(s)) => NoneMarked(s)
           /\ NamedLast(Tail(s), q) /\ Agrees(Head(s), q) => NamedLast(s, q)
           /\ NoneMarked(s) => ~Marks(Head(s))
<1> DEFINE t == Tail(s)
           n == Len(s)
<1>1. /\ n \in Nat /\ DOMAIN s = 1 .. n /\ 1 \in DOMAIN s /\ Head(s) = s[1]
      /\ DOMAIN t = 1 .. n - 1 /\ \A k \in DOMAIN t : t[k] = s[k + 1]
  BY RestOfSeq, LenProperties DEF IsSeq
<1> HIDE DEF t, n
<1>2. ASSUME NEW j \in DOMAIN s, j # 1
      PROVE  j - 1 \in DOMAIN t /\ t[j - 1] = s[j] /\ j \in Nat
  <2>1. j - 1 \in DOMAIN t /\ (j - 1) + 1 = j
    BY <1>1, <1>2
  <2> QED
    BY <1>1, <2>1
<1>3. ASSUME NamedLast(s, q) PROVE NamedLast(t, q)
  <2> SUFFICES ASSUME NEW k \in DOMAIN t, Marks(t[k]),
                      \A j \in DOMAIN t : j > k => ~Marks(t[j])
               PROVE  Agrees(t[k], q)
    BY DEF NamedLast
  <2>1. k + 1 \in DOMAIN s /\ t[k] = s[k + 1]
    BY <1>1
  <2>2. ASSUME NEW j \in DOMAIN s, j > k + 1 PROVE ~Marks(s[j])
    <3>1. j # 1 /\ j - 1 > k
      BY <1>1, <2>2
    <3> QED
      BY <1>2, <3>1
  <2> QED
    BY <1>3, <2>1, <2>2 DEF NamedLast
<1>4. ASSUME NoneMarked(t) PROVE \A j \in DOMAIN s : j # 1 => ~Marks(s[j])
  BY <1>2, <1>4 DEF NoneMarked
<1>5. ASSUME NoneMarked(t), ~Marks(s[1]) PROVE NoneMarked(s)
  BY <1>4, <1>5 DEF NoneMarked
<1>6. ASSUME NamedLast(s, q), NoneMarked(t), Marks(s[1]) PROVE Agrees(s[1], q)
  <2>1. \A j \in DOMAIN s : j > 1 => ~Marks(s[j])
    BY <1>1, <1>4, <1>6
  <2> QED
    BY <1>1, <1>6, <2>1 DEF NamedLast
<1>7. ASSUME NamedLast(t, q), Agrees(s[1], q) PROVE NamedLast(s, q)
  <2> SUFFICES ASSUME NEW k \in DOMAIN s, Marks(s[k]),
                      \A j \in DOMAIN s : j > k => ~Marks(s[j])
               PROVE  Agrees(s[k], q)
    BY DEF NamedLast
  <2>1. CASE k = 1
    BY <1>7, <2>1
  <2>2. CASE k # 1
    <3>1. k - 1 \in DOMAIN t /\ t[k - 1] = s[k]
      BY <1>2, <2>2
    <3>2. ASSUME NEW j \in DOMAIN t, j > k - 1 PROVE ~Marks(t[j])
      <4>1. j + 1 \in DOMAIN s /\ j + 1 > k /\ t[j] = s[j + 1]
        BY <1>1, <3>2
      <4> QED
        BY <4>1
    <3> QED
      BY <1>7, <3>1, <3>2 DEF NamedLast
  <2> QED
    BY <2>1, <2>2
<1>8. NoneMarked(s) => ~Marks(s[1])
  BY <1>1 DEF NoneMarked
<1> QED
  BY <1>1, <1>3, <1>5, <1>6, <1>7, <1>8 DEF t

LEMMA NamesWithGap ==
    ASSUME NEW s, IsSeq(s), NEW k \in DOMAIN s, NEW q, NamedLast(s, q)
    PROVE  /\ NamedLast([s EXCEPT ![k] = Gap], q)
           /\ ~NoneMarked([s EXCEPT ![k] = Gap])
<1> DEFINE t == [s EXCEPT ![k] = Gap]
<1>1. /\ DOMAIN t = DOMAIN s /\ t[k] = Gap /\ \A i \in DOMAIN s \ {k} : t[i] = s[i]
  BY SeqWithGap
<1> HIDE DEF t
<1>2. Marks(t[k]) /\ Agrees(t[k], q)
  BY <1>1 DEF Marks, Agrees
<1>3. ASSUME NEW i \in DOMAIN t, Marks(t[i]), \A j \in DOMAIN t : j > i => ~Marks(t[j])
      PROVE  Agrees(t[i], q)
  <2>1. CASE i = k
    BY <1>2, <2>1
  <2>2. CASE i # k
    <3>1. t[i] = s[i] /\ i \in DOMAIN s
      BY <1>1, <2>2
    <3>2. ASSUME NEW j \in DOMAIN s, j > i PROVE ~Marks(s[j])
      BY <1>1, <1>2, <1>3, <3>2
    <3> QED
      BY <1>3, <3>1, <3>2 DEF NamedLast
  <2> QED
    BY <2>1, <2>2
<1>4. NamedLast(t, q) /\ ~NoneMarked(t)
  BY <1>1, <1>2, <1>3 DEF NamedLast, NoneMarked
<1> QED
  BY <1>4 DEF t

----------------------------------------------------------------------------
\* The daemon's blocks, the page's, what the page sends, what the daemon tells,
\* and what of it is still to come.
DaemonBlocks ==
    /\ DOMAIN blocks = DOMAIN Blocks /\ \A q \in DOMAIN Blocks : IsBlock(blocks[q])
    /\ IsBlock(cached)
    /\ voice \in DOMAIN Blocks \cup Sampled /\ sounding \in DOMAIN Blocks \cup Sampled
PageBlock == synth = NoBlock \/ \E b : IsBlock(b) /\ Same(synth, b)

SlidersTo(p, v) == p \in Leaves /\ (IsSlider(p) => v \in Int)
EditsFit ==
    /\ \A m \in synthNet : SlidersTo(m[1], m[2])
    /\ \A p \in DOMAIN sendTimer : SlidersTo(p, sendTimer[p])
    /\ clicks \subseteq DOMAIN Blocks \cup Sampled

StreamFits == IsSeq(synthEvents) /\ (synthConn = "down" => synthEvents = <<>>)

PatchComes ==
    /\ NamedLast(synthEvents, voice)
    /\ clicks = {} /\ NoneMarked(synthEvents) /\ ~astray => synthPatch = voice
BlockComes ==
    \E b : EndsIn(synthEvents, b, cached) /\ (~astray => IsBlock(b) /\ Same(synth, b))

\* What was announced since the page subscribed, and what the snapshot says of
\* the same edits: each leaf ends as it is now, or is not touched.
MixOf(c, k, b) == IsBlock(c) /\ \A x \in Leaves : At(c, x) \in {At(k, x), At(b, x)}
Settled == \A b : IsBlock(b) => \E c : EndsIn(synthEvents, b, c) /\ MixOf(c, cached, b)
Awaited == synthConn = "subscribed" => Settled

Coming == StreamFits /\ PatchComes /\ BlockComes /\ Awaited
SynthInv == DaemonBlocks /\ PageBlock /\ EditsFit /\ Coming

LEMMA BlocksAre ==
    /\ NoPatchLeaf /\ IsBlock(AnyBlock) /\ "none" \notin DOMAIN AnyBlock
    /\ \A b : IsBlock(b) => b # NoBlock /\ Shaped(b) /\ PathsOf(b) = Leaves
<1>1. (CHOOSE q \in DOMAIN Blocks : TRUE) \in DOMAIN Blocks
  BY BlocksAssumption
<1>2. IsBlock(AnyBlock) /\ "none" \notin DOMAIN AnyBlock /\ NoPatchLeaf
  BY <1>1, BlockAssumption DEF AnyBlock, NoPatchLeaf
<1>3. ASSUME NEW b, IsBlock(b) PROVE b # NoBlock /\ Shaped(b) /\ PathsOf(b) = Leaves
  <2>1. Shaped(b) /\ Shaped(AnyBlock)
    BY <1>2, <1>3, BlockIs
  <2>2. PathsOf(b) = Leaves
    BY <2>1, SamePaths DEF Leaves
  <2>3. DOMAIN b = DOMAIN AnyBlock
    BY <2>1, Domains
  <2>4. "none" \in DOMAIN NoBlock
    BY DEF NoBlock
  <2> QED
    BY <1>2, <2>1, <2>2, <2>3, <2>4
<1> QED
  BY <1>2, <1>3

\* What the page has is no block before it was told one.
LEMMA SameIsBlock ==
    ASSUME NEW c, NEW b, IsBlock(b), Same(c, b)
    PROVE  c # NoBlock /\ PathsOf(c) = Leaves
<1>1. PathsOf(c) = Leaves
  BY BlocksAre, SameReads
<1>2. DOMAIN c = DOMAIN AnyBlock
  BY DEF Same
<1>3. "none" \in DOMAIN NoBlock
  BY DEF NoBlock
<1> QED
  BY <1>1, <1>2, <1>3, BlocksAre

LEMMA EventNames ==
    ASSUME NEW q, NEW c, IsBlock(c), NEW p \in Leaves
    PROVE  ~Marks(SynthEventOf(q, c, p))
<1>1. Shaped(c) /\ p \in PathsOf(c) /\ NoPatchLeaf
  BY BlocksAre
<1> QED
  BY <1>1, Says DEF SaysOf, Marks, Names

\* An edit of a block is a block, as its event makes of the block before it.
LEMMA EditIsBlock ==
    ASSUME NEW b, IsBlock(b), NEW p \in Leaves, NEW v, IsSlider(p) => Within(p, v)
    PROVE  /\ IsBlock(Set(b, p, v))
           /\ \A x \in Leaves : x # p => At(Set(b, p, v), x) = At(b, x)
           /\ applySynthEvent(b, Telling(Set(b, p, v), p)) = Set(b, p, v)
<1>1. Shaped(b) /\ PathsOf(b) = Leaves
  BY BlocksAre
<1> DEFINE r == Set(b, p, v)
<1>2. /\ Shaped(r) /\ At(r, p) = v
      /\ \A x \in Leaves : x # p => At(r, x) = At(b, x)
      /\ applySynthEvent(b, Telling(r, p)) = r
  BY <1>1, EditStored
<1> HIDE DEF r
<1>3. \A x \in Leaves : IsSlider(x) => Within(x, At(b, x))
  BY BlockIs
<1>4. ASSUME NEW x \in Leaves, IsSlider(x) PROVE Within(x, At(r, x))
  <2>1. CASE x = p
    BY <1>2, <1>4, <2>1
  <2>2. CASE x # p
    BY <1>2, <1>3, <1>4, <2>2
  <2> QED
    BY <2>1, <2>2
<1>5. IsBlock(r)
  BY <1>2, <1>4, BlockIs
<1> QED
  BY <1>2, <1>5 DEF r

LEMMA ToldOnBlock ==
    ASSUME NEW b, IsBlock(b), NEW c, IsBlock(c), NEW p \in Leaves
    PROVE  /\ IsBlock(applySynthEvent(b, Telling(c, p)))
           /\ At(applySynthEvent(b, Telling(c, p)), p) = At(c, p)
           /\ \A x \in Leaves :
                 At(applySynthEvent(b, Telling(c, p)), x) \in {At(c, x), At(b, x)}
<1>1. Shaped(c) /\ Shaped(b) /\ PathsOf(c) = Leaves
  BY BlocksAre
<1> DEFINE r == applySynthEvent(b, Telling(c, p))
<1>2. Shaped(r) /\ \A x \in Leaves : At(r, x) \in {At(c, x), At(b, x)}
  BY <1>1, Applied
<1>3. At(r, p) = At(c, p)
  BY <1>1, AppliedAt
<1> HIDE DEF r
<1>4. \A x \in Leaves : IsSlider(x) => Within(x, At(b, x)) /\ Within(x, At(c, x))
  BY BlockIs
<1>5. \A x \in Leaves : IsSlider(x) => Within(x, At(r, x))
  BY <1>2, <1>4
<1>6. IsBlock(r)
  BY <1>2, <1>5, BlockIs
<1> QED
  BY <1>2, <1>3, <1>6 DEF r

\* What sliders are dragged to are numbers.
LEMMA SliderNumbers ==
    ASSUME NEW p
    PROVE  SpecOf(p).min \in Int /\ SpecOf(p).max \in Int
<1>1. RANGES(Key(p)).min \in Int /\ RANGES(Key(p)).max \in Int
  BY DEF RANGES, NumSpec, GENERIC
<1> QED
  BY <1>1 DEF SpecOf

\* The daemon tells of a change from one block to another, in the same words to
\* a page that has the old one and to a page whose snapshot is still to come.
Carries(e, k, l) ==
    \A b, c : IsBlock(b) /\ MixOf(c, k, b) => \E d : Leads(c, e, d) /\ MixOf(d, l, b)

LEMMA TellKeeps ==
    ASSUME NEW e, Coming, TellPage(e), UNCHANGED <<synth, synthPatch, synthConn>>,
           Leads(cached, e, cached'), Carries(e, cached, cached'),
           Marks(e) => Agrees(e, voice'), ~Marks(e) => voice' = voice /\ clicks' = clicks
    PROVE  Coming'
<1>0. StreamFits /\ PatchComes /\ BlockComes /\ Awaited
  BY DEF Coming
<1>1. CASE synthConn = "down"
  <2>1. synthEvents' = <<>> /\ astray' /\ synthConn' = "down"
    BY <1>0, <1>1 DEF TellPage, StreamFits
  <2>2. DOMAIN synthEvents' = {} /\ IsSeq(synthEvents')
    BY <2>1, NoneQueued
  <2>3. StreamFits'
    BY <2>1, <2>2 DEF StreamFits
  <2>4. PatchComes'
    BY <2>1, <2>2 DEF PatchComes, NamedLast
  <2>5. BlockComes'
    <3>1. EndsIn(synthEvents', cached', cached')
      BY <2>1, EndsAtOnce
    <3> QED
      BY <2>1, <3>1 DEF BlockComes
  <2>6. Awaited'
    BY <2>1 DEF Awaited
  <2> QED
    BY <2>3, <2>4, <2>5, <2>6 DEF Coming
<1>2. CASE synthConn # "down"
  <2>1. synthEvents' = Append(synthEvents, e) /\ (astray' <=> astray) /\ IsSeq(synthEvents)
    BY <1>0, <1>2 DEF TellPage, StreamFits
  <2>2. StreamFits'
    BY <1>2, <2>1, SeqAndLast DEF StreamFits
  <2>3. PatchComes'
    <3>1. NamedLast(synthEvents', voice')
      BY <1>0, <2>1, NamesBehind DEF PatchComes
    <3>2. NoneMarked(synthEvents') => NoneMarked(synthEvents) /\ ~Marks(e)
      BY <2>1, NamesBehind
    <3> QED
      BY <1>0, <2>1, <3>1, <3>2 DEF PatchComes
  <2>4. BlockComes'
    <3>1. PICK b : EndsIn(synthEvents, b, cached) /\ (~astray => IsBlock(b) /\ Same(synth, b))
      BY <1>0 DEF BlockComes
    <3>2. EndsIn(synthEvents', b, cached')
      BY <2>1, <3>1, EndsAfterLast
    <3> QED
      BY <2>1, <3>1, <3>2 DEF BlockComes
  <2>5. Awaited'
    <3> SUFFICES ASSUME synthConn = "subscribed", NEW b, IsBlock(b)
                 PROVE  \E c : EndsIn(synthEvents', b, c) /\ MixOf(c, cached', b)
      BY DEF Awaited, Settled
    <3>1. PICK c : EndsIn(synthEvents, b, c) /\ MixOf(c, cached, b)
      BY <1>0 DEF Awaited, Settled
    <3>2. PICK d : Leads(c, e, d) /\ MixOf(d, cached', b)
      BY <3>1 DEF Carries
    <3>3. EndsIn(synthEvents', b, d)
      BY <2>1, <3>1, <3>2, EndsAfterLast
    <3> QED
      BY <3>2, <3>3
  <2> QED
    BY <2>2, <2>3, <2>4, <2>5 DEF Coming
<1> QED
  BY <1>1, <1>2

\* The daemon takes an edit: what it announces makes of the page's block its own.
LEMMA StoreKeeps ==
    ASSUME SynthInv, voice \in DOMAIN Blocks, NEW p, NEW v, SlidersTo(p, v), Store(p, v),
           UNCHANGED <<synth, synthPatch, clicks, synthConn, voice, sounding>>
    PROVE  DaemonBlocks' /\ Coming'
<1> DEFINE kept == IF IsNumber(p) THEN clampRange(p, v) ELSE v
           block == Set(cached, p, kept)
           e == SynthEventOf(voice, block, p)
<1>1. /\ cached' = block /\ blocks' = [blocks EXCEPT ![voice] = block] /\ TellPage(e)
  BY DEF Store
<1>2. IsSlider(p) => Within(p, kept)
  <2>1. IsSlider(p) => IsNumber(p) /\ v \in Int
    BY DEF IsSlider, IsSelect, IsNumber, SlidersTo
  <2> QED
    BY <2>1, ClampWithin
<1> HIDE DEF kept
<1>3. p \in Leaves /\ IsBlock(cached)
  BY DEF SynthInv, DaemonBlocks, SlidersTo
<1>4. /\ IsBlock(block) /\ applySynthEvent(cached, Telling(block, p)) = block
      /\ \A x \in Leaves : x # p => At(block, x) = At(cached, x)
  BY <1>2, <1>3, EditIsBlock
<1> HIDE DEF block
<1>5. ~Marks(e)
  BY <1>3, <1>4, EventNames
<1>6. \A b : Leads(b, e, applySynthEvent(b, Telling(block, p)))
  BY <1>3, <1>4 DEF Leads
<1>7. Carries(e, cached, cached')
  <2> SUFFICES ASSUME NEW b, NEW c, IsBlock(b), MixOf(c, cached, b)
               PROVE  \E d : Leads(c, e, d) /\ MixOf(d, block, b)
    BY <1>1 DEF Carries
  <2> DEFINE d == applySynthEvent(c, Telling(block, p))
  <2>1. IsBlock(c) /\ \A x \in Leaves : At(c, x) \in {At(cached, x), At(b, x)}
    BY DEF MixOf
  <2>2. /\ IsBlock(d) /\ At(d, p) = At(block, p)
        /\ \A x \in Leaves : At(d, x) \in {At(block, x), At(c, x)}
    BY <1>3, <1>4, <2>1, ToldOnBlock
  <2>3. Leads(c, e, d)
    BY <1>6
  <2> HIDE DEF d
  <2>4. ASSUME NEW x \in Leaves PROVE At(d, x) \in {At(block, x), At(b, x)}
    <3>1. CASE x = p
      BY <2>2, <3>1
    <3>2. CASE x # p
      BY <1>4, <2>1, <2>2, <3>2
    <3> QED
      BY <3>1, <3>2
  <2> QED
    BY <2>2, <2>3, <2>4 DEF MixOf
<1>8. Leads(cached, e, cached')
  BY <1>1, <1>4, <1>6
<1> HIDE DEF e
<1>9. DaemonBlocks'
  BY <1>1, <1>4 DEF SynthInv, DaemonBlocks
<1>10. Coming'
  BY <1>1, <1>5, <1>7, <1>8, TellKeeps DEF SynthInv
<1> QED
  BY <1>9, <1>10

\* A patch is selected: the event that names it carries its block.
LEMMA PlayKeeps ==
    ASSUME SynthInv, NEW q \in DOMAIN Blocks \cup Sampled, Play(q)
    PROVE  DaemonBlocks' /\ PageBlock' /\ Coming'
<1> DEFINE b == IF q \in DOMAIN Blocks THEN blocks[q] ELSE NoBlock
           e == PatchEvent(q, b)
<1>1. /\ voice' = q /\ blocks' = blocks /\ sounding' = sounding
      /\ cached' = (IF q \in DOMAIN Blocks THEN blocks[q] ELSE cached)
      /\ UNCHANGED <<synth, synthPatch, synthConn>> /\ TellPage(e)
  BY DEF Play, form
<1>2. Names(e) /\ e.patch = q /\ e.synth = b
  BY DEF PatchEvent, Names
<1>3. q \in DOMAIN Blocks => b = blocks[q] /\ IsBlock(b) /\ b # NoBlock
  BY BlocksAre DEF SynthInv, DaemonBlocks
<1>4. q \notin DOMAIN Blocks => b = NoBlock
  OBVIOUS
<1> HIDE DEF b, e
<1>5. DaemonBlocks' /\ PageBlock'
  BY <1>1 DEF SynthInv, DaemonBlocks, PageBlock
<1>6. q \in DOMAIN Blocks => \A c : Leads(c, e, b)
  BY <1>2, <1>3 DEF Leads
<1>7. q \notin DOMAIN Blocks => \A c : Leads(c, e, c)
  BY <1>2, <1>4 DEF Leads
<1>8. Leads(cached, e, cached')
  BY <1>1, <1>3, <1>6, <1>7
<1>9. Carries(e, cached, cached')
  <2> SUFFICES ASSUME NEW x, NEW c, IsBlock(x), MixOf(c, cached, x)
               PROVE  \E d : Leads(c, e, d) /\ MixOf(d, cached', x)
    BY DEF Carries
  <2>1. CASE q \in DOMAIN Blocks
    <3>1. cached' = b /\ Leads(c, e, b) /\ MixOf(b, b, x)
      BY <1>1, <1>3, <1>6, <2>1 DEF MixOf
    <3> QED
      BY <3>1
  <2>2. CASE q \notin DOMAIN Blocks
    BY <1>1, <1>7, <2>2
  <2> QED
    BY <2>1, <2>2
<1>10. Marks(e) /\ Agrees(e, voice')
  BY <1>1, <1>2 DEF Marks, Agrees
<1>11. Coming'
  BY <1>1, <1>8, <1>9, <1>10, TellKeeps DEF SynthInv
<1> QED
  BY <1>5, <1>11

\* A load fails: what should say so says nothing.
LEMMA FailKeeps ==
    ASSUME SynthInv, PatchFails
    PROVE  DaemonBlocks' /\ PageBlock' /\ Coming'
<1>1. /\ voice' = sounding /\ TellPage(Gap)
      /\ UNCHANGED <<synth, synthPatch, synthConn, sounding, cached, blocks>>
  BY DEF PatchFails, form
<1>2. DaemonBlocks' /\ PageBlock'
  BY <1>1 DEF SynthInv, DaemonBlocks, PageBlock
<1>3. \A b, c : Leads(b, Gap, c)
  BY DEF Leads
<1>4. Carries(Gap, cached, cached')
  BY <1>1, <1>3 DEF Carries
<1>5. Marks(Gap) /\ Agrees(Gap, voice')
  BY DEF Marks, Agrees
<1>6. Coming'
  BY <1>1, <1>3, <1>4, <1>5, TellKeeps DEF SynthInv
<1> QED
  BY <1>2, <1>6

\* The daemon subscribes the page: nothing was announced since.
LEMMA ConnectKeeps ==
    ASSUME SynthInv, SynthConnect
    PROVE  Coming'
<1>1. /\ synthEvents = <<>> /\ synthConn' = "subscribed"
      /\ UNCHANGED <<synth, synthPatch, clicks, synthEvents, voice, cached, astray>>
  BY DEF SynthConnect, SynthInv, Coming, StreamFits, form, synthDaemon
<1>2. StreamFits' /\ PatchComes' /\ BlockComes'
  BY <1>1 DEF SynthInv, Coming, StreamFits, PatchComes, BlockComes
<1>3. ASSUME NEW b, IsBlock(b)
      PROVE  \E c : EndsIn(synthEvents', b, c) /\ MixOf(c, cached', b)
  <2>1. EndsIn(synthEvents', b, b)
    BY <1>1, EndsAtOnce
  <2>2. MixOf(b, cached', b)
    BY <1>3 DEF MixOf
  <2> QED
    BY <2>1, <2>2
<1>4. Awaited'
  BY <1>3 DEF Awaited, Settled
<1> QED
  BY <1>2, <1>4 DEF Coming

\* The snapshot comes before it, and has already what it tells of.
LEMMA SnapshotKeeps ==
    ASSUME SynthInv, SynthSnapshot
    PROVE  Coming'
<1> DEFINE e == SnapshotEvent
<1>1. /\ synthConn = "subscribed" /\ synthConn' = "live"
      /\ synthEvents' = <<e>> \o synthEvents
      /\ UNCHANGED <<synth, synthPatch, clicks, voice, cached, astray>>
  BY DEF SynthSnapshot, form, synthDaemon
<1>2. Names(e) /\ e.patch = voice /\ e.synth = cached
  BY DEF SnapshotEvent, Names
<1> HIDE DEF e
<1>3. IsBlock(cached) /\ cached # NoBlock /\ IsSeq(synthEvents) /\ NoPatchLeaf
  BY BlocksAre DEF SynthInv, DaemonBlocks, Coming, StreamFits
<1>4. EndsIn(synthEvents, cached, cached)
  <2>1. PICK c : EndsIn(synthEvents, cached, c) /\ MixOf(c, cached, cached)
    BY <1>1, <1>3 DEF SynthInv, Coming, Awaited, Settled
  <2>2. Shaped(c) /\ Shaped(cached) /\ \A x \in Leaves : At(c, x) = At(cached, x)
    BY <1>3, <2>1, BlocksAre DEF MixOf
  <2>3. c = cached
    BY <1>3, <2>2, SameLeaves
  <2> QED
    BY <2>1, <2>3
<1>5. /\ IsSeq(synthEvents') /\ synthEvents' # <<>>
      /\ Head(synthEvents') = e /\ Tail(synthEvents') = synthEvents
  BY <1>1, <1>3, SeqAndFirst
<1>6. PatchComes'
  <2>1. Agrees(e, voice) /\ Marks(e)
    BY <1>2 DEF Agrees, Marks
  <2>2. NamedLast(synthEvents, voice)
    BY DEF SynthInv, Coming, PatchComes
  <2>3. NamedLast(synthEvents', voice) /\ ~NoneMarked(synthEvents')
    BY <1>5, <2>1, <2>2, NamesBefore
  <2> QED
    BY <1>1, <2>3 DEF PatchComes
<1>7. BlockComes'
  <2>1. PICK b : EndsIn(synthEvents, b, cached) /\ (~astray => IsBlock(b) /\ Same(synth, b))
    BY DEF SynthInv, Coming, BlockComes
  <2>2. Leads(b, e, cached)
    BY <1>2, <1>3 DEF Leads
  <2>3. EndsIn(synthEvents', b, cached)
    BY <1>1, <1>3, <1>4, <2>2, EndsBefore
  <2> QED
    BY <1>1, <2>1, <2>3 DEF BlockComes
<1>8. StreamFits' /\ Awaited'
  BY <1>1, <1>5 DEF StreamFits, Awaited
<1> QED
  BY <1>6, <1>7, <1>8 DEF Coming

\* The stream is lost, or an event.
LEMMA LossKeeps ==
    ASSUME SynthInv, SynthStreamLost
    PROVE  Coming'
<1>1. /\ synthConn' = "down" /\ synthEvents' = <<>>
      /\ astray' <=> astray \/ synthEvents # <<>>
      /\ UNCHANGED <<synth, synthPatch, clicks, voice, cached>>
  BY DEF SynthStreamLost, form, synthDaemon
<1>2. DOMAIN synthEvents' = {} /\ IsSeq(synthEvents')
  BY <1>1, NoneQueued
<1>3. StreamFits' /\ Awaited'
  BY <1>1, <1>2 DEF StreamFits, Awaited
<1>4. PatchComes'
  <2>1. NamedLast(synthEvents', voice')
    BY <1>2 DEF NamedLast
  <2>2. ~astray' => synthEvents' = synthEvents
    BY <1>1
  <2> QED
    BY <1>1, <2>1, <2>2 DEF SynthInv, Coming, PatchComes
<1>5. BlockComes'
  <2>1. CASE ~astray'
    BY <1>1, <2>1 DEF SynthInv, Coming, BlockComes
  <2>2. CASE astray'
    <3>1. EndsIn(synthEvents', cached', cached')
      BY <1>1, EndsAtOnce
    <3> QED
      BY <2>2, <3>1 DEF BlockComes
  <2> QED
    BY <2>1, <2>2
<1> QED
  BY <1>3, <1>4, <1>5 DEF Coming

LEMMA DropKeeps ==
    ASSUME SynthInv, NEW k \in DOMAIN synthEvents, SynthDropped(k)
    PROVE  Coming'
<1>1. /\ synthEvents' = [synthEvents EXCEPT ![k] = Gap]
      /\ UNCHANGED <<synth, synthPatch, clicks, synthConn, voice, cached, astray>>
  BY DEF SynthDropped, form, synthDaemon
<1>2. IsSeq(synthEvents)
  BY DEF SynthInv, Coming, StreamFits
<1>3. IsSeq(synthEvents') /\ DOMAIN synthEvents' = DOMAIN synthEvents
  BY <1>1, <1>2, SeqWithGap
<1>4. StreamFits'
  <2>1. DOMAIN synthEvents # {} /\ DOMAIN <<>> = {}
    OBVIOUS
  <2> QED
    BY <1>1, <1>3, <2>1 DEF SynthInv, Coming, StreamFits
<1>5. PatchComes'
  <2>1. NamedLast(synthEvents, voice)
    BY DEF SynthInv, Coming, PatchComes
  <2>2. NamedLast(synthEvents', voice) /\ ~NoneMarked(synthEvents')
    BY <1>1, <1>2, <2>1, NamesWithGap
  <2> QED
    BY <1>1, <2>2 DEF PatchComes
<1>6. \A b, c : EndsIn(synthEvents, b, c) => EndsIn(synthEvents', b, c)
  BY <1>1, <1>2, EndsWithGap
<1>7. BlockComes' /\ Awaited'
  BY <1>1, <1>6 DEF SynthInv, Coming, BlockComes, Awaited, Settled
<1> QED
  BY <1>4, <1>5, <1>7 DEF Coming

\* The page hears an event.
LEMMA HearKeeps ==
    ASSUME SynthInv, HearSynth
    PROVE  PageBlock' /\ Coming'
<1> DEFINE e == Head(synthEvents)
<1>1. /\ synthEvents # <<>> /\ synthEvents' = Tail(synthEvents)
      /\ synthConn = "live" /\ UNCHANGED <<clicks, synthConn, voice, cached>>
  BY DEF HearSynth, synthDaemon
<1>2. /\ e = Gap => astray' /\ UNCHANGED <<synth, synthPatch>>
      /\ e # Gap /\ Names(e) => /\ synthPatch' = e.patch
                                /\ synth' = IF e.synth = NoBlock THEN synth ELSE e.synth
                                /\ astray' <=> astray /\ e.synth = NoBlock
      /\ e # Gap /\ ~Names(e) =>
            /\ UNCHANGED <<synthPatch, astray>>
            /\ synth' = IF synth = NoBlock THEN synth ELSE applySynthEvent(synth, e)
  <2>1. /\ e = Gap => astray' = TRUE /\ UNCHANGED form
        /\ e # Gap /\ Names(e) => HearPatch(e)
        /\ e # Gap /\ ~Names(e) => HearEdit(e)
    <3>1. ~Names(Gap)
      BY DEF Names, Gap
    <3> QED
      BY <3>1, Zenon DEF HearSynth, Names
  <2> HIDE DEF e
  <2>2. HearPatch(e) => /\ synthPatch' = e.patch
                        /\ synth' = IF e.synth = NoBlock THEN synth ELSE e.synth
                        /\ astray' <=> astray /\ e.synth = NoBlock
    BY DEF HearPatch, Show
  <2>3. HearEdit(e) =>
          /\ UNCHANGED <<synthPatch, astray>>
          /\ synth' = IF synth = NoBlock THEN synth ELSE applySynthEvent(synth, e)
    BY DEF HearEdit
  <2>4. UNCHANGED form => UNCHANGED <<synth, synthPatch>>
    BY DEF form
  <2> QED
    BY <2>1, <2>2, <2>3, <2>4
<1>3. IsSeq(synthEvents)
  BY DEF SynthInv, Coming, StreamFits
<1>4. IsSeq(synthEvents')
  BY <1>1, <1>3, RestOfSeq
<1>5. PICK b : EndsIn(synthEvents, b, cached) /\ (~astray => IsBlock(b) /\ Same(synth, b))
  BY DEF SynthInv, Coming, BlockComes
<1>6. PICK d : Leads(b, e, d) /\ EndsIn(synthEvents', d, cached)
  BY <1>1, <1>3, <1>5, EndsAfterFirst
<1>7. NamedLast(synthEvents, voice)
      /\ (clicks = {} /\ NoneMarked(synthEvents) /\ ~astray => synthPatch = voice)
  BY DEF SynthInv, Coming, PatchComes
<1>8. /\ NamedLast(synthEvents', voice)
      /\ NoneMarked(synthEvents') /\ ~Marks(e) => NoneMarked(synthEvents)
      /\ NoneMarked(synthEvents') /\ Marks(e) => Agrees(e, voice)
  BY <1>1, <1>3, <1>7, NamesBefore
<1> HIDE DEF e
<1>9. PatchComes'
  <2>1. ASSUME clicks = {}, NoneMarked(synthEvents'), ~astray' PROVE synthPatch' = voice
    <3>1. e # Gap
      BY <1>2, <2>1
    <3>2. CASE Names(e)
      BY <1>2, <1>8, <2>1, <3>1, <3>2 DEF Marks, Agrees
    <3>3. CASE ~Names(e)
      BY <1>2, <1>7, <1>8, <2>1, <3>1, <3>3 DEF Marks
    <3> QED
      BY <3>2, <3>3
  <2> QED
    BY <1>1, <1>8, <2>1 DEF PatchComes
<1>10. PageBlock' /\ (~astray' => IsBlock(d) /\ Same(synth', d))
  <2>1. CASE e = Gap
    BY <1>2, <2>1 DEF SynthInv, PageBlock
  <2>2. ASSUME e # Gap, Names(e),
               IF e.synth = NoBlock THEN d = b ELSE IsBlock(e.synth) /\ d = e.synth
        PROVE  PageBlock' /\ (~astray' => IsBlock(d) /\ Same(synth', d))
    <3>1. CASE e.synth = NoBlock
      BY <1>2, <1>5, <2>2, <3>1 DEF SynthInv, PageBlock
    <3>2. CASE e.synth # NoBlock
      <4>1. synth' = d /\ IsBlock(d)
        BY <1>2, <2>2, <3>2
      <4>2. Same(d, d)
        BY <4>1, BlocksAre, SameAsItself
      <4> QED
        BY <4>1, <4>2 DEF PageBlock
    <3> QED
      BY <3>1, <3>2
  <2>3. ASSUME NEW q, NEW c, NEW p \in Leaves, IsBlock(c), e = SynthEventOf(q, c, p),
               d = applySynthEvent(b, Telling(c, p))
        PROVE  PageBlock' /\ (~astray' => IsBlock(d) /\ Same(synth', d))
    <3>1. Shaped(c) /\ p \in PathsOf(c) /\ NoPatchLeaf
      BY <2>3, BlocksAre
    <3>2. e # Gap /\ ~Names(e)
      BY <2>3, EventNames DEF Marks
    <3>3. ASSUME NEW x, IsBlock(x), Same(synth, x)
          PROVE  /\ IsBlock(applySynthEvent(x, Telling(c, p)))
                 /\ Same(synth', applySynthEvent(x, Telling(c, p)))
      <4>1. synth' = applySynthEvent(synth, e)
        BY <1>2, <3>2, <3>3, SameIsBlock
      <4>2. Shaped(x)
        BY <3>3, BlocksAre
      <4>3. Same(applySynthEvent(synth, SynthEventOf(q, c, p)), applySynthEvent(x, Telling(c, p)))
        BY <3>1, <3>3, <4>2, SameHears
      <4>4. IsBlock(applySynthEvent(x, Telling(c, p)))
        BY <2>3, <3>3, ToldOnBlock
      <4> QED
        BY <2>3, <4>1, <4>3, <4>4
    <3>4. PageBlock'
      <4>1. CASE synth = NoBlock
        BY <1>2, <3>2, <4>1 DEF PageBlock
      <4>2. CASE synth # NoBlock
        <5>1. PICK x : IsBlock(x) /\ Same(synth, x)
          BY <4>2 DEF SynthInv, PageBlock
        <5> QED
          BY <3>3, <5>1 DEF PageBlock
      <4> QED
        BY <4>1, <4>2
    <3>5. ASSUME ~astray' PROVE IsBlock(d) /\ Same(synth', d)
      <4>1. IsBlock(b) /\ Same(synth, b)
        BY <1>2, <1>5, <3>2, <3>5
      <4> QED
        BY <2>3, <3>3, <4>1
    <3> QED
      BY <3>4, <3>5
  <2> QED
    BY <1>6, <2>1, <2>2, <2>3 DEF Leads
<1>11. BlockComes'
  BY <1>1, <1>6, <1>10 DEF BlockComes
<1>12. StreamFits' /\ Awaited'
  BY <1>1, <1>4 DEF StreamFits, Awaited
<1> QED
  BY <1>9, <1>10, <1>11, <1>12 DEF Coming

\* The page sends, or waits to.
LEMMA SendKeeps ==
    ASSUME SynthInv, EditsFit',
           UNCHANGED <<synth, synthPatch, clicks, synthEvents, synthConn, synthDaemon, astray>>
    PROVE  SynthInv'
BY DEF SynthInv, DaemonBlocks, PageBlock, Coming, StreamFits, PatchComes, BlockComes,
       Awaited, Settled, synthDaemon

LEMMA SynthInvInitially == SynthInit => SynthInv
<1> SUFFICES ASSUME SynthInit PROVE SynthInv
  OBVIOUS
<1>1. DaemonBlocks /\ PageBlock
  BY BlockAssumption DEF SynthInit, DaemonBlocks, PageBlock
<1>2. EditsFit
  BY DEF SynthInit, EditsFit, NoValues
<1>3. synthEvents = <<>> /\ DOMAIN synthEvents = {} /\ synthConn = "down" /\ astray
  BY DEF SynthInit
<1>4. StreamFits /\ Awaited
  BY <1>3, NoneQueued DEF StreamFits, Awaited
<1>5. PatchComes
  BY <1>3 DEF PatchComes, NamedLast
<1>6. BlockComes
  <2>1. EndsIn(synthEvents, cached, cached)
    BY <1>3, EndsAtOnce
  <2> QED
    BY <1>3, <2>1 DEF BlockComes
<1> QED
  BY <1>1, <1>2, <1>4, <1>5, <1>6 DEF SynthInv, Coming

LEMMA SynthInvKept == SynthInv /\ [SynthNext]_synthVars => SynthInv'
<1> SUFFICES ASSUME SynthInv, [SynthNext]_synthVars PROVE SynthInv'
  OBVIOUS
<1>0. /\ \A m \in synthNet : SlidersTo(m[1], m[2])
      /\ \A p \in DOMAIN sendTimer : SlidersTo(p, sendTimer[p])
      /\ clicks \subseteq DOMAIN Blocks \cup Sampled
  BY DEF SynthInv, EditsFit
<1>1. CardShown => PathsOf(synth) = Leaves
  <2> SUFFICES ASSUME CardShown PROVE PathsOf(synth) = Leaves
    OBVIOUS
  <2>1. PICK b : IsBlock(b) /\ Same(synth, b)
    BY DEF CardShown, SynthInv, PageBlock
  <2> QED
    BY <2>1, SameIsBlock
<1>2. ASSUME NEW p \in PathsOf(synth), NEW v \in {SpecOf(p).min, SpecOf(p).max}, Slide(p, v)
      PROVE  SynthInv'
  <2>1. SlidersTo(p, v)
    <3>1. p \in Leaves
      BY <1>1, <1>2 DEF Slide
    <3>2. v \in Int
      BY SliderNumbers
    <3> QED
      BY <3>1, <3>2 DEF SlidersTo
  <2>2. /\ sendTimer' = Put(sendTimer, p, v) /\ synthNet' = synthNet
        /\ UNCHANGED <<synth, synthPatch, clicks, synthEvents, synthConn, synthDaemon, astray>>
    BY <1>2 DEF Slide
  <2>3. \A x \in DOMAIN sendTimer' : SlidersTo(x, sendTimer'[x])
    <3>1. /\ DOMAIN sendTimer' = DOMAIN sendTimer \cup {p} /\ sendTimer'[p] = v
          /\ \A x \in DOMAIN sendTimer \ {p} : sendTimer'[x] = sendTimer[x]
      <4>1. /\ DOMAIN Put(sendTimer, p, v) = DOMAIN sendTimer \cup {p}
            /\ Put(sendTimer, p, v)[p] = v
            /\ \A x \in DOMAIN sendTimer \ {p} : Put(sendTimer, p, v)[x] = sendTimer[x]
        BY DEF Put, Spread
      <4> QED
        BY <2>2, <4>1
    <3>2. ASSUME NEW x \in DOMAIN sendTimer' PROVE SlidersTo(x, sendTimer'[x])
      <4>1. CASE x = p
        BY <2>1, <3>1, <4>1
      <4>2. CASE x # p
        BY <1>0, <3>1, <4>2
      <4> QED
        BY <4>1, <4>2
    <3> QED
      BY <3>2
  <2>4. EditsFit'
    BY <1>0, <2>2, <2>3 DEF EditsFit
  <2> QED
    BY <2>2, <2>4, SendKeeps
<1>3. ASSUME NEW p \in PathsOf(synth), ~IsSlider(p), NEW v \in Choices(p), Choose(p, v)
      PROVE  SynthInv'
  <2>1. SlidersTo(p, v)
    BY <1>1, <1>3 DEF Choose, SlidersTo
  <2>2. /\ sendTimer' = sendTimer /\ synthNet' = synthNet \cup {<<p, v>>}
        /\ UNCHANGED <<synth, synthPatch, clicks, synthEvents, synthConn, synthDaemon, astray>>
    BY <1>3 DEF Choose
  <2>3. EditsFit'
    BY <1>0, <2>1, <2>2 DEF EditsFit
  <2> QED
    BY <2>2, <2>3, SendKeeps
<1>4. ASSUME NEW p \in DOMAIN sendTimer, SendFires(p) PROVE SynthInv'
  <2>1. SlidersTo(p, sendTimer[p])
    BY <1>0
  <2>2. /\ sendTimer' = Forget(sendTimer, p)
        /\ synthNet' = synthNet \cup {<<p, sendTimer[p]>>}
        /\ UNCHANGED <<synth, synthPatch, clicks, synthEvents, synthConn, synthDaemon, astray>>
    BY <1>4 DEF SendFires
  <2>3. /\ DOMAIN sendTimer' = DOMAIN sendTimer \ {p}
        /\ \A x \in DOMAIN sendTimer \ {p} : sendTimer'[x] = sendTimer[x]
    <3>1. /\ DOMAIN Forget(sendTimer, p) = DOMAIN sendTimer \ {p}
          /\ \A x \in DOMAIN sendTimer \ {p} : Forget(sendTimer, p)[x] = sendTimer[x]
      BY DEF Forget
    <3> QED
      BY <2>2, <3>1
  <2>4. ASSUME NEW m \in synthNet' PROVE SlidersTo(m[1], m[2])
    <3>1. CASE m \in synthNet
      BY <1>0, <3>1
    <3>2. CASE m = <<p, sendTimer[p]>>
      BY <2>1, <3>2
    <3> QED
      BY <2>2, <3>1, <3>2
  <2>5. EditsFit'
    BY <1>0, <2>2, <2>3, <2>4 DEF EditsFit
  <2> QED
    BY <2>2, <2>5, SendKeeps
<1>5. ASSUME NEW p \in DOMAIN localValue, HoldEnds(p) PROVE SynthInv'
  <2>1. /\ sendTimer' = sendTimer /\ synthNet' = synthNet
        /\ UNCHANGED <<synth, synthPatch, clicks, synthEvents, synthConn, synthDaemon, astray>>
    BY <1>5 DEF HoldEnds
  <2>2. EditsFit'
    BY <1>0, <2>1 DEF EditsFit
  <2> QED
    BY <2>1, <2>2, SendKeeps
<1>6. ASSUME NEW m \in synthNet, TakeEdit(m) PROVE SynthInv'
  <2>1. /\ sendTimer' = sendTimer /\ synthNet' = synthNet \ {m}
        /\ UNCHANGED <<synth, synthPatch, clicks, synthConn, voice, sounding>>
    BY <1>6 DEF TakeEdit, form, widgets
  <2>2. EditsFit'
    BY <1>0, <2>1 DEF EditsFit
  <2>3. CASE voice \in DOMAIN Blocks
    <3>1. Store(m[1], m[2])
      BY <1>6, <2>3 DEF TakeEdit
    <3>2. DaemonBlocks' /\ Coming'
      BY <1>0, <2>1, <2>3, <3>1, StoreKeeps
    <3> QED
      BY <2>1, <2>2, <3>2 DEF SynthInv, PageBlock
  <2>4. CASE voice \notin DOMAIN Blocks
    <3>1. UNCHANGED <<synthDaemon, synthEvents, astray>>
      BY <1>6, <2>1, <2>4 DEF TakeEdit, synthDaemon
    <3> QED
      BY <2>1, <2>2, <3>1, SendKeeps
  <2> QED
    BY <2>3, <2>4
<1>7. ASSUME NEW m \in synthNet, EditLost(m) PROVE SynthInv'
  <2>1. /\ sendTimer' = sendTimer /\ synthNet' = synthNet \ {m}
        /\ UNCHANGED <<synth, synthPatch, clicks, synthEvents, synthConn, synthDaemon, astray>>
    BY <1>7 DEF EditLost, form, widgets
  <2>2. EditsFit'
    BY <1>0, <2>1 DEF EditsFit
  <2> QED
    BY <2>1, <2>2, SendKeeps
<1>8. ASSUME voice \in DOMAIN Blocks, NEW p \in PathsOf(cached),
             NEW v \in {-2000000, 2000000}, KnobEdit(p, v)
      PROVE  SynthInv'
  <2>1. /\ Store(p, v)
        /\ UNCHANGED <<synth, synthPatch, sendTimer, synthNet, clicks, synthConn, voice,
                       sounding>>
    BY <1>8 DEF KnobEdit, form, widgets
  <2>2. SlidersTo(p, v)
    <3>1. p \in Leaves
      BY <1>8, BlocksAre DEF SynthInv, DaemonBlocks
    <3> QED
      BY <3>1 DEF SlidersTo
  <2>3. DaemonBlocks' /\ Coming'
    BY <1>8, <2>1, <2>2, StoreKeeps
  <2> QED
    BY <1>0, <2>1, <2>3 DEF SynthInv, PageBlock, EditsFit
<1>9. ASSUME NEW q \in DOMAIN Blocks \cup Sampled, Play(q), clicks' \subseteq clicks
      PROVE  SynthInv'
  <2>1. DaemonBlocks' /\ PageBlock' /\ Coming'
    BY <1>9, PlayKeeps
  <2>2. UNCHANGED <<sendTimer, synthNet>>
    BY <1>9 DEF Play, form, widgets
  <2> QED
    BY <1>0, <1>9, <2>1, <2>2 DEF SynthInv, EditsFit
<1>10. ASSUME NEW q \in clicks, TakeClick(q) PROVE SynthInv'
  BY <1>0, <1>9, <1>10 DEF TakeClick
<1>11. ASSUME NEW q \in DOMAIN Blocks \cup Sampled, PedalSelect(q) PROVE SynthInv'
  BY <1>9, <1>11 DEF PedalSelect
<1>12. ASSUME NEW q \in DOMAIN Blocks \cup Sampled, ClickPatch(q) PROVE SynthInv'
  <2>1. /\ UNCHANGED <<synth, synthNet, synthEvents, synthConn, synthDaemon, astray>>
        /\ clicks' = clicks \cup {q}
        /\ sendTimer' = sendTimer \/ sendTimer' = NoValues
    BY <1>12 DEF ClickPatch, Show, widgets
  <2>2. EditsFit'
    BY <1>0, <2>1 DEF EditsFit, NoValues
  <2>3. clicks' # {}
    BY <2>1
  <2> QED
    BY <2>1, <2>2, <2>3
       DEF SynthInv, DaemonBlocks, PageBlock, Coming, StreamFits, PatchComes, BlockComes,
           Awaited, Settled, synthDaemon
<1>13. ASSUME NEW q \in clicks, ClickLost(q) PROVE SynthInv'
  <2>1. /\ UNCHANGED <<synth, sendTimer, synthNet, synthEvents, synthConn, synthDaemon>>
        /\ clicks' \subseteq clicks /\ astray'
    BY <1>13 DEF ClickLost, form, widgets
  <2>2. EditsFit'
    BY <1>0, <2>1 DEF EditsFit
  <2> QED
    BY <2>1, <2>2
       DEF SynthInv, DaemonBlocks, PageBlock, Coming, StreamFits, PatchComes, BlockComes,
           Awaited, Settled, synthDaemon
<1>14. CASE PatchLoads
  <2>1. /\ UNCHANGED <<synth, synthPatch, sendTimer, synthNet, clicks, synthEvents, synthConn,
                       voice, cached, blocks, astray>>
        /\ sounding' = voice
    BY <1>14 DEF PatchLoads, form, widgets
  <2>2. EditsFit'
    BY <1>0, <2>1 DEF EditsFit
  <2> QED
    BY <2>1, <2>2
       DEF SynthInv, DaemonBlocks, PageBlock, Coming, StreamFits, PatchComes, BlockComes,
           Awaited, Settled
<1>15. CASE PatchFails
  <2>1. DaemonBlocks' /\ PageBlock' /\ Coming'
    BY <1>15, FailKeeps
  <2>2. UNCHANGED <<sendTimer, synthNet, clicks>>
    BY <1>15 DEF PatchFails, form, widgets
  <2> QED
    BY <1>0, <2>1, <2>2 DEF SynthInv, EditsFit
<1>16. ASSUME Coming',
              UNCHANGED <<synth, sendTimer, synthNet, clicks, synthDaemon>>
       PROVE  SynthInv'
  BY <1>0, <1>16 DEF SynthInv, DaemonBlocks, PageBlock, EditsFit, synthDaemon
<1>17. CASE SynthConnect
  BY <1>16, <1>17, ConnectKeeps DEF SynthConnect, form, widgets
<1>18. CASE SynthSnapshot
  BY <1>16, <1>18, SnapshotKeeps DEF SynthSnapshot, form, widgets
<1>19. CASE SynthStreamLost
  BY <1>16, <1>19, LossKeeps DEF SynthStreamLost, form, widgets
<1>20. ASSUME NEW k \in DOMAIN synthEvents, SynthDropped(k) PROVE SynthInv'
  BY <1>16, <1>20, DropKeeps DEF SynthDropped, form, widgets
<1>21. CASE HearSynth
  <2>1. PageBlock' /\ Coming'
    BY <1>21, HearKeeps
  <2>2. /\ UNCHANGED <<synthNet, clicks, synthDaemon>>
        /\ sendTimer' = sendTimer \/ sendTimer' = NoValues
    BY <1>21 DEF HearSynth, HearPatch, HearEdit, Show, form, widgets
  <2>3. EditsFit'
    BY <1>0, <2>2 DEF EditsFit, NoValues
  <2> QED
    BY <2>1, <2>2, <2>3 DEF SynthInv, DaemonBlocks, synthDaemon
<1>22. CASE UNCHANGED synthVars
  <2>1. UNCHANGED <<synth, synthPatch, sendTimer, synthNet, clicks, synthEvents, synthConn,
                    synthDaemon, astray>>
    BY <1>22 DEF synthVars, form, widgets
  <2>2. EditsFit'
    BY <1>0, <2>1 DEF EditsFit
  <2> QED
    BY <2>1, <2>2, SendKeeps
<1> QED
  BY <1>2, <1>3, <1>4, <1>5, <1>6, <1>7, <1>8, <1>10, <1>11, <1>12, <1>13, <1>14, <1>15,
     <1>17, <1>18, <1>19, <1>20, <1>21, <1>22 DEF SynthNext

\* When nothing is under way and nothing was kept from the page since it had a
\* whole block, the card shows the block the daemon plays, every widget of it,
\* each within its slider (SynthCard.tsx, usePolyclav.ts, controls.go): also
\* after selects that were lost, failed loads, dropped events and reconnects.
THEOREM CardAgrees == SynthSpec => []SynthAgrees
<1>1. SynthInv => SynthAgrees
  <2> SUFFICES ASSUME SynthInv, synthNet = {}, clicks = {}, synthEvents = <<>>,
                      localValue = NoValues, voice \in DOMAIN Blocks, ~astray
               PROVE  /\ synthPatch = voice /\ PathsOf(synth) = PathsOf(cached)
                      /\ \A p \in PathsOf(synth) :
                            /\ Shown(p) = At(cached, p)
                            /\ IsSlider(p) => Shown(p) \in SpecOf(p).min .. SpecOf(p).max
    BY DEF SynthAgrees
  <2>1. synthPatch = voice
    BY DEF SynthInv, Coming, PatchComes, NoneMarked
  <2>2. IsBlock(cached) /\ Same(synth, cached)
    BY EndsAtOnce DEF SynthInv, Coming, BlockComes
  <2>3. Shaped(cached) /\ PathsOf(cached) = Leaves
    BY <2>2, BlocksAre
  <2>4. PathsOf(synth) = PathsOf(cached) /\ \A p \in PathsOf(cached) : At(synth, p) = At(cached, p)
    BY <2>2, <2>3, SameReads
  <2>5. \A p : Shown(p) = At(synth, p)
    BY DEF Shown, NoValues
  <2>6. ASSUME NEW p \in PathsOf(cached), IsSlider(p)
        PROVE  At(cached, p) \in SpecOf(p).min .. SpecOf(p).max
    <3>1. Within(p, At(cached, p))
      BY <2>2, <2>3, <2>6, BlockIs
    <3> QED
      BY <2>3, <2>6, <3>1, LimitsWithin
  <2> QED
    BY <2>1, <2>4, <2>5, <2>6
<1> QED
  BY <1>1, SynthInvInitially, SynthInvKept, PTL DEF SynthSpec

-----------------------------------------------------------------------------
(***************************************************************************)
(* The pedalboard's knobs.                                                 *)
(***************************************************************************)

InRange(k, v) == v \in Int /\ SPECS[k].min <= v /\ v <= SPECS[k].max

\* A held knob shows what it showed at the press whenever the pointer is back
\* there and nothing else turned it since; what is held is one of the knobs.
HeldInv ==
    \/ held = NotHeld
    \/ /\ held \in [knob : BoardKnobs, start : Int, y : Heights, nudged : BOOLEAN]
       /\ InRange(held.knob, held.start)
       /\ (held.y = 0 /\ ~held.nudged) => knobValue[held.knob] = held.start

KnobInv ==
    /\ knobValue \in [BoardKnobs -> Int]
    /\ \A k \in BoardKnobs : InRange(k, knobValue[k])
    /\ HeldInv

\* The bounds and the default of a knob are integers in order.
LEMMA KnobRange ==
    ASSUME NEW k \in BoardKnobs
    PROVE  /\ SPECS[k].min \in Int /\ SPECS[k].max \in Int
           /\ InRange(k, SPECS[k].default)
BY BoardKnobsAssumption, SpecsAssumption DEF InRange

\* Whatever integer a gesture asks of a knob, it stays in its range, and a
\* value in its range stays what it is.
LEMMA InSpecInRange ==
    ASSUME NEW k \in BoardKnobs, NEW v \in Int
    PROVE  InRange(k, InSpec(k, v)) /\ (InRange(k, v) => InSpec(k, v) = v)
<1> DEFINE lo == SPECS[k].min
           hi == SPECS[k].max
<1>1. lo \in Int /\ hi \in Int /\ lo <= hi
  BY KnobRange DEF InRange
<1>2. /\ InRange(k, InSpec(k, v)) <=>
           (Clamp(v, lo, hi) \in Int /\ lo <= Clamp(v, lo, hi) /\ Clamp(v, lo, hi) <= hi)
      /\ InRange(k, v) <=> (lo <= v /\ v <= hi)
      /\ InSpec(k, v) = Clamp(v, lo, hi)
  BY DEF InRange, InSpec
<1> HIDE DEF lo, hi
<1> QED
  BY <1>1, <1>2 DEF Clamp

\* A drag ends in the range, and without a distance where it began.
LEMMA DragInRange ==
    ASSUME NEW k \in BoardKnobs, NEW v \in Int, NEW dy \in Int, NEW fine \in BOOLEAN
    PROVE  /\ InRange(k, DragValue(k, v, dy, fine))
           /\ InRange(k, v) => DragValue(k, v, 0, fine) = v
<1> DEFINE far(d) == v + (d * Span(k)) \div (IF fine THEN 1000 ELSE 200)
<1>1. Span(k) \in Int
  BY KnobRange DEF Span
<1>2. far(dy) \in Int /\ far(0) = v
  <2>1. dy * Span(k) \in Int /\ 0 * Span(k) = 0
    BY <1>1
  <2>2. \A x \in Int : x \div 1000 \in Int /\ x \div 200 \in Int
    OBVIOUS
  <2>3. 0 \div 1000 = 0 /\ 0 \div 200 = 0
    OBVIOUS
  <2> QED
    BY <2>1, <2>2, <2>3
<1>3. \A d : DragValue(k, v, d, fine) = InSpec(k, far(d))
  BY DEF DragValue
<1> HIDE DEF far
<1> QED
  BY <1>2, <1>3, InSpecInRange

\* A step of the wheel or of a key ends in the range.
LEMMA StepInRange ==
    ASSUME NEW k \in BoardKnobs, knobValue[k] \in Int, NEW up \in BOOLEAN,
           NEW dir \in {1, -1}, NEW fine \in BOOLEAN
    PROVE  InRange(k, WheelStep(k, up, fine)) /\ InRange(k, KeyStep(k, dir, fine))
<1> DEFINE step == Span(k) \div (IF fine THEN 500 ELSE 100)
<1>1. Span(k) \in Int
  BY KnobRange DEF Span
<1>2. step \in Int
  BY <1>1
<1>3. WheelStep(k, up, fine) = InSpec(k, knobValue[k] + (IF up THEN step ELSE -step))
  BY DEF WheelStep
<1>4. KeyStep(k, dir, fine) = InSpec(k, knobValue[k] + dir * step)
  BY DEF KeyStep
<1> HIDE DEF step
<1>5. /\ knobValue[k] + (IF up THEN step ELSE -step) \in Int
      /\ knobValue[k] + dir * step \in Int
  BY <1>2
<1> QED
  BY <1>3, <1>4, <1>5, InSpecInRange

LEMMA KnobInit == BoardInit => KnobInv
<1> SUFFICES ASSUME BoardInit PROVE KnobInv
  OBVIOUS
<1>1. \A k \in BoardKnobs : knobValue[k] = SPECS[k].default
  BY DEF BoardInit
<1>2. \A k \in BoardKnobs : InRange(k, knobValue[k])
  BY <1>1, KnobRange
<1> QED
  BY <1>2 DEF BoardInit, KnobInv, HeldInv, InRange

\* Turning a knob by other means than the pointer that holds it marks the
\* hold as nudged, which is all the invariant asks of the turn.
LEMMA KnobTurned ==
    ASSUME KnobInv, NEW K \in SUBSET BoardKnobs,
           knobValue' \in [BoardKnobs -> Int],
           \A k \in BoardKnobs : InRange(k, knobValue'[k]),
           \A k \in BoardKnobs \ K : knobValue'[k] = knobValue[k],
           \/ held' = held /\ (held = NotHeld \/ held.knob \notin K)
           \/ held' = [held EXCEPT !.nudged = TRUE] /\ held # NotHeld
    PROVE  KnobInv'
<1>1. CASE held = NotHeld
  BY <1>1 DEF KnobInv, HeldInv, InRange
<1>2. CASE held # NotHeld
  <2>1. /\ held \in [knob : BoardKnobs, start : Int, y : Heights, nudged : BOOLEAN]
        /\ InRange(held.knob, held.start)
        /\ (held.y = 0 /\ ~held.nudged) => knobValue[held.knob] = held.start
    BY <1>2 DEF KnobInv, HeldInv
  <2>2. CASE held' = held /\ held.knob \notin K
    BY <2>1, <2>2 DEF KnobInv, HeldInv, InRange
  <2>3. CASE held' = [held EXCEPT !.nudged = TRUE]
    <3>1. /\ held' \in [knob : BoardKnobs, start : Int, y : Heights, nudged : BOOLEAN]
          /\ held'.knob = held.knob /\ held'.start = held.start /\ held'.nudged
      BY <2>1, <2>3
    <3> QED
      BY <2>1, <3>1 DEF KnobInv, HeldInv, InRange
  <2> QED
    BY <1>2, <2>2, <2>3
<1> QED
  BY <1>1, <1>2

LEMMA KnobStep == KnobInv /\ [BoardNext]_boardVars => KnobInv'
<1> SUFFICES ASSUME KnobInv, [BoardNext]_boardVars PROVE KnobInv'
  OBVIOUS
<1>1. ASSUME UNCHANGED knobs PROVE KnobInv'
  BY <1>1 DEF knobs, KnobInv, HeldInv, InRange
<1>2. ASSUME held' = NotHeld, knobValue' = knobValue PROVE KnobInv'
  BY <1>2 DEF KnobInv, HeldInv, InRange
<1>3. ASSUME NEW p \in Known, DragStart(p) \/ Activate(p) \/ ToggleCollapse(p)
      PROVE  KnobInv'
  <2>1. CASE UNCHANGED knobs
    BY <2>1, <1>1
  <2>2. CASE held' = NotHeld /\ knobValue' = knobValue
    BY <2>2, <1>2
  <2> QED
    BY <1>3, <2>1, <2>2 DEF DragStart, Activate, ToggleCollapse, knobs
<1>4. ASSUME NEW p \in Known, NEW right \in BOOLEAN, DragOver(p, right) PROVE KnobInv'
  BY <1>4, <1>1 DEF DragOver
<1>5. ASSUME NEW p \in Known, NEW dir \in {1, -1}, Nudge(p, dir) PROVE KnobInv'
  BY <1>5, <1>1 DEF Nudge
<1>6. CASE DragLeave \/ Drop \/ DragEnd \/ HearOrder \/ OrderDropped \/ BoardStreamLost
           \/ BoardStreamBack \/ ReadChain \/ HearChain \/ ChainFails
  BY <1>6, <1>1 DEF DragLeave, Drop, DragEnd, HearOrder, OrderDropped, BoardStreamLost,
     BoardStreamBack, ReadChain, HearChain, ChainFails
<1>7. ASSUME NEW ss, TakeOrder(ss) \/ OrderLost(ss) \/ OtherReorder(ss) PROVE KnobInv'
  BY <1>7, <1>1 DEF TakeOrder, OrderLost, OtherReorder
<1>8. CASE GoBoard \/ PointerUp
  BY <1>8, <1>2 DEF GoBoard, PointerUp
<1>9. CASE ResetPedal
  <2>1. \A k \in BoardKnobs : knobValue'[k] =
            IF k \in DOMAIN CHAIN[editId] THEN SPECS[k].default ELSE knobValue[k]
    BY <1>9 DEF ResetPedal
  <2>2. \A k \in BoardKnobs : InRange(k, knobValue'[k])
    BY <2>1, KnobRange DEF KnobInv
  <2>3. knobValue' \in [BoardKnobs -> Int]
    BY <1>9, <2>2 DEF ResetPedal, InRange
  <2>4. held' = IF held # NotHeld THEN [held EXCEPT !.nudged = TRUE] ELSE held
    BY <1>9 DEF ResetPedal
  <2> QED
    BY <2>2, <2>3, <2>4, KnobTurned
<1>10. ASSUME NEW k \in BoardKnobs, PointerDown(k) PROVE KnobInv'
  <2>1. /\ held' = [knob |-> k, start |-> knobValue[k], y |-> 0, nudged |-> FALSE]
        /\ knobValue' = knobValue
    BY <1>10 DEF PointerDown
  <2>2. InRange(k, knobValue[k]) /\ knobValue[k] \in Int
    BY DEF KnobInv, InRange
  <2>3. /\ held' \in [knob : BoardKnobs, start : Int, y : Heights, nudged : BOOLEAN]
        /\ held'.knob = k /\ held'.start = knobValue[k]
    BY <2>1, <2>2, HeightsAssumption
  <2> QED
    BY <2>1, <2>2, <2>3 DEF KnobInv, HeldInv, InRange
<1>11. ASSUME NEW k \in BoardKnobs, Turn(k) PROVE KnobInv'
  <2>1. PICK v \in Turns(k) : knobValue' = [knobValue EXCEPT ![k] = v]
    BY <1>11 DEF Turn
  <2>2. knobValue \in [BoardKnobs -> Int]
    BY DEF KnobInv
  <2>3. InRange(k, v)
    <3>1. InRange(k, SPECS[k].default) /\ knobValue[k] \in Int
      BY <2>2, KnobRange
    <3>2. \A up \in BOOLEAN, fine \in BOOLEAN : InRange(k, WheelStep(k, up, fine))
      BY <3>1, StepInRange
    <3>3. \A dir \in {1, -1}, fine \in BOOLEAN : InRange(k, KeyStep(k, dir, fine))
      BY <3>1, StepInRange
    <3> QED
      BY <3>1, <3>2, <3>3, SMTT(30) DEF Turns
  <2>4. knobValue' \in [BoardKnobs -> Int]
    BY <2>1, <2>2, <2>3 DEF InRange
  <2>5. \A j \in BoardKnobs : knobValue'[j] = IF j = k THEN v ELSE knobValue[j]
    BY <2>1, <2>2
  <2>6. \A j \in BoardKnobs : InRange(j, knobValue'[j])
    BY <2>3, <2>5 DEF KnobInv
  <2>7. held' = IF held.knob = k THEN [held EXCEPT !.nudged = TRUE] ELSE held
    BY <1>11 DEF Turn
  <2>8. CASE held = NotHeld
    <3>1. held' = held
      BY <2>7, <2>8 DEF NotHeld
    <3> QED
      BY <2>4, <2>5, <2>6, <2>8, <3>1, KnobTurned
  <2>9. CASE held # NotHeld
    <3>1. {k} \in SUBSET BoardKnobs /\ \A j \in BoardKnobs \ {k} : knobValue'[j] = knobValue[j]
      BY <2>5
    <3>2. CASE held.knob = k
      <4>1. held' = [held EXCEPT !.nudged = TRUE]
        BY <2>7, <3>2
      <4> QED
        BY <2>4, <2>6, <2>9, <3>1, <4>1, KnobTurned
    <3>3. CASE held.knob # k
      <4>1. held' = held /\ held.knob \notin {k}
        BY <2>7, <3>3
      <4> QED
        BY <2>4, <2>6, <2>9, <3>1, <4>1, KnobTurned
    <3> QED
      BY <3>2, <3>3
  <2> QED
    BY <2>8, <2>9
<1>12. ASSUME NEW h \in Heights, NEW fine \in BOOLEAN, PointerMove(h, fine)
       PROVE  KnobInv'
  <2>1. /\ held # NotHeld
        /\ held' = [held EXCEPT !.y = h, !.nudged = FALSE]
        /\ knobValue' = [knobValue EXCEPT ![held.knob] =
                            DragValue(held.knob, held.start, h, fine)]
    BY <1>12 DEF PointerMove
  <2>2. /\ held \in [knob : BoardKnobs, start : Int, y : Heights, nudged : BOOLEAN]
        /\ InRange(held.knob, held.start)
    BY <2>1 DEF KnobInv, HeldInv
  <2>3. /\ held' \in [knob : BoardKnobs, start : Int, y : Heights, nudged : BOOLEAN]
        /\ held'.knob = held.knob /\ held'.start = held.start /\ held'.y = h
    BY <2>1, <2>2
  <2> DEFINE v == DragValue(held.knob, held.start, h, fine)
  <2>4. h \in Int /\ 0 \in Int
    BY HeightsAssumption
  <2>5. InRange(held.knob, v) /\ (h = 0 => v = held.start)
    BY <2>2, <2>4, DragInRange
  <2>6. knobValue' = [knobValue EXCEPT ![held.knob] = v] /\ held.knob \in BoardKnobs
    BY <2>1, <2>2
  <2> HIDE DEF v
  <2>7. /\ knobValue' \in [BoardKnobs -> Int]
        /\ \A j \in BoardKnobs : knobValue'[j] = IF j = held.knob THEN v ELSE knobValue[j]
    BY <2>5, <2>6 DEF KnobInv, InRange
  <2>8. \A j \in BoardKnobs : InRange(j, knobValue'[j])
    BY <2>5, <2>7 DEF KnobInv
  <2>9. knobValue'[held'.knob] = v
    BY <2>3, <2>6, <2>7
  <2> QED
    BY <2>2, <2>3, <2>5, <2>7, <2>8, <2>9 DEF KnobInv, HeldInv, InRange
<1>13. CASE UNCHANGED boardVars
  BY <1>13, <1>1 DEF boardVars
<1> QED
  BY <1>3, <1>4, <1>5, <1>6, <1>7, <1>8, <1>9, <1>10, <1>11, <1>12, <1>13
  DEF BoardNext

\* A knob never leaves its range, and a held one follows the pointer: for any
\* knobs of the table, heights and gestures (knobMath.ts, knobCore.tsx).
THEOREM KnobsAreHeld == BoardSpec => []KnobFollowsPointer
<1>1. KnobInv => KnobFollowsPointer
  <2> SUFFICES ASSUME KnobInv PROVE KnobFollowsPointer
    OBVIOUS
  <2>1. \A k \in BoardKnobs : knobValue[k] = InSpec(k, knobValue[k])
    BY InSpecInRange DEF KnobInv
  <2> QED
    BY <2>1 DEF KnobInv, HeldInv, KnobFollowsPointer
<1> QED
  BY KnobInit, KnobStep, <1>1, PTL DEF BoardSpec

-----------------------------------------------------------------------------
(***************************************************************************)
(* What a filter keeps: the k-th element kept is the one with k - 1 kept   *)
(* before it.                                                              *)
(***************************************************************************)

Below(I, i) == {j \in I : j < i}

\* A one-to-one listing of a set has its size.
LEMMA ListingSize ==
    ASSUME NEW S, IsFiniteSet(S), NEW T, NEW f \in [S -> T],
           \A a, b \in S : f[a] = f[b] => a = b, \A t \in T : \E s \in S : f[s] = t
    PROVE  IsFiniteSet(T) /\ Cardinality(T) = Cardinality(S)
<1>1. f \in Bijection(S, T)
  BY DEF Bijection, Injection, Surjection, IsInjective
<1>2. ExistsBijection(S, T)
  BY <1>1 DEF ExistsBijection
<1> QED
  BY <1>2, FS_Bijection

LEMMA PlacesFinite ==
    ASSUME NEW n \in Nat, NEW I \in SUBSET (1..n)
    PROVE  IsFiniteSet(I) /\ Cardinality(I) \in Nat
<1>1. IsFiniteSet(1..n)
  BY FS_Interval
<1> QED
  BY <1>1, FS_Subset, FS_CardinalityType

LEMMA BelowOrder ==
    ASSUME NEW n \in Nat, NEW I \in SUBSET (1..n)
    PROVE  /\ \A i \in I : /\ Cardinality(Below(I, i)) \in Nat
                           /\ Cardinality(Below(I, i)) < Cardinality(I)
           /\ \A i, j \in I : i < j => Cardinality(Below(I, i)) < Cardinality(Below(I, j))
<1>1. IsFiniteSet(I) /\ Cardinality(I) \in Nat
  BY PlacesFinite
<1>2. ASSUME NEW i \in I
      PROVE  IsFiniteSet(Below(I, i)) /\ Cardinality(Below(I, i)) \in Nat
  <2>1. Below(I, i) \in SUBSET (1..n)
    BY DEF Below
  <2> QED
    BY <2>1, PlacesFinite
<1>3. ASSUME NEW T \in SUBSET (1..n), NEW i \in T, Below(I, i) \subseteq T \ {i},
             Cardinality(Below(I, i)) \in Nat
      PROVE  Cardinality(Below(I, i)) < Cardinality(T)
  <2>1. IsFiniteSet(T) /\ Cardinality(T) \in Nat
    BY PlacesFinite
  <2>2. IsFiniteSet(T \ {i}) /\ Cardinality(T \ {i}) = Cardinality(T) - 1
    BY <2>1, FS_RemoveElement
  <2>3. Cardinality(Below(I, i)) <= Cardinality(T \ {i})
    BY <1>3, <2>2, FS_Subset
  <2> QED
    BY <1>3, <2>1, <2>2, <2>3
<1>4. ASSUME NEW i \in I PROVE Cardinality(Below(I, i)) < Cardinality(I)
  <2>1. Below(I, i) \subseteq I \ {i} /\ I \in SUBSET (1..n)
    BY DEF Below
  <2> QED
    BY <1>2, <1>3, <2>1
<1>5. ASSUME NEW i \in I, NEW j \in I, i < j
      PROVE  Cardinality(Below(I, i)) < Cardinality(Below(I, j))
  <2>1. Below(I, j) \in SUBSET (1..n) /\ i \in Below(I, j)
    BY <1>5 DEF Below
  <2>2. \A k \in I : k \in Nat
    OBVIOUS
  <2>3. \A k \in I : k < i => k < j /\ k # i
    BY <1>5, <2>2
  <2>4. Below(I, i) \subseteq Below(I, j) \ {i}
    BY <2>3 DEF Below
  <2> QED
    BY <1>2, <1>3, <2>1, <2>4
<1> QED
  BY <1>2, <1>4, <1>5

\* Nth finds its element, and finds every element.
LEMMA NthFound ==
    ASSUME NEW n \in Nat, NEW I \in SUBSET (1..n)
    PROVE  /\ \A k \in 1..Cardinality(I) :
                 Nth(I, k) \in I /\ Cardinality(Below(I, Nth(I, k))) = k - 1
           /\ \A i \in I : LET k == Cardinality(Below(I, i)) + 1
                           IN  k \in 1..Cardinality(I) /\ Nth(I, k) = i
<1> DEFINE c == Cardinality(I)
           rank == [i \in I |-> Cardinality(Below(I, i)) + 1]
<1>1. IsFiniteSet(I) /\ c \in Nat
  BY PlacesFinite
<1>2. /\ \A i \in I : /\ Cardinality(Below(I, i)) \in Nat
                       /\ Cardinality(Below(I, i)) < Cardinality(I)
      /\ \A i, j \in I : i < j => Cardinality(Below(I, i)) < Cardinality(Below(I, j))
  BY BelowOrder
<1>10. \A i \in I : rank[i] = Cardinality(Below(I, i)) + 1
  OBVIOUS
<1>11. rank \in [I -> 1..c]
  BY <1>1, <1>2
<1> HIDE DEF rank
<1>3. ASSUME NEW i \in I, NEW j \in I, rank[i] = rank[j] PROVE i = j
  <2>0. Cardinality(Below(I, i)) = Cardinality(Below(I, j))
    BY <1>2, <1>3, <1>10
  <2>1. ~(i < j) /\ ~(j < i)
    BY <1>2, <2>0
  <2>2. i \in Nat /\ j \in Nat
    OBVIOUS
  <2> QED
    BY <2>1, <2>2
<1>4. rank \in Injection(I, 1..c)
  <2>1. IsInjective(rank)
    BY <1>3, <1>11 DEF IsInjective
  <2> QED
    BY <1>11, <2>1 DEF Injection
<1>5. IsFiniteSet(1..c) /\ Cardinality(1..c) = c
  BY <1>1, FS_Interval
<1>6. rank \in Surjection(I, 1..c)
  BY <1>1, <1>4, <1>5, FS_Injection
<1>7. \A k \in 1..c : \E i \in I : Cardinality(Below(I, i)) = k - 1
  <2> SUFFICES ASSUME NEW k \in 1..c PROVE \E i \in I : Cardinality(Below(I, i)) = k - 1
    OBVIOUS
  <2>1. PICK i \in I : rank[i] = k
    BY <1>6 DEF Surjection
  <2>2. Cardinality(Below(I, i)) = k - 1
    BY <1>2, <1>10, <2>1
  <2> QED
    BY <2>2
<1>8. \A k \in 1..c : Nth(I, k) \in I /\ Cardinality(Below(I, Nth(I, k))) = k - 1
  <2> SUFFICES ASSUME NEW k \in 1..c
               PROVE  Nth(I, k) \in I /\ Cardinality(Below(I, Nth(I, k))) = k - 1
    OBVIOUS
  <2>1. \A i : Cardinality({j \in I : j < i}) = Cardinality(Below(I, i))
    BY DEF Below
  <2>2. \E i \in I : Cardinality({j \in I : j < i}) = k - 1
    BY <1>7, <2>1
  <2>3. Nth(I, k) \in I /\ Cardinality({j \in I : j < Nth(I, k)}) = k - 1
    BY <2>2, Zenon DEF Nth
  <2> QED
    BY <2>1, <2>3
<1>9. ASSUME NEW i \in I
      PROVE  LET k == Cardinality(Below(I, i)) + 1
             IN  k \in 1..Cardinality(I) /\ Nth(I, k) = i
  <2> DEFINE k == rank[i]
             x == Nth(I, k)
  <2>1. k \in 1..c /\ k = Cardinality(Below(I, i)) + 1
    BY <1>10, <1>11
  <2>2. x \in I /\ Cardinality(Below(I, x)) = k - 1
    BY <1>8, <2>1
  <2> HIDE DEF x
  <2>3. rank[x] = Cardinality(Below(I, x)) + 1
    BY <1>10, <2>2
  <2>4. rank[x] = rank[i]
    <3>1. k \in Int
      BY <1>1, <2>1
    <3> HIDE DEF k
    <3>2. (k - 1) + 1 = k
      BY <3>1
    <3> QED
      BY <2>2, <2>3, <3>2 DEF k
  <2>5. x = i
    BY <1>3, <2>2, <2>4
  <2> QED
    BY <2>1, <2>5 DEF x
<1> QED
  BY <1>8, <1>9

\* A rising listing of the places is the one Nth gives.
LEMMA NthIs ==
    ASSUME NEW n \in Nat, NEW I \in SUBSET (1..n), NEW m \in Nat, NEW e \in [1..m -> I],
           \A j, k \in 1..m : j < k => e[j] < e[k],
           \A i \in I : \E k \in 1..m : e[k] = i
    PROVE  Cardinality(I) = m /\ \A k \in 1..m : Nth(I, k) = e[k]
<1>0. \A i \in I : i \in Nat
  OBVIOUS
<1>1. \A j, k \in 1..m : e[j] = e[k] => j = k
  <2> SUFFICES ASSUME NEW j \in 1..m, NEW k \in 1..m, j # k PROVE e[j] # e[k]
    OBVIOUS
  <2>1. e[j] \in I /\ e[k] \in I
    OBVIOUS
  <2>2. j < k \/ k < j
    OBVIOUS
  <2>3. e[j] < e[k] \/ e[k] < e[j]
    BY <2>2
  <2>4. e[j] \in Nat /\ e[k] \in Nat
    BY <1>0, <2>1
  <2> QED
    BY <2>3, <2>4
<1>2. IsFiniteSet(1..m) /\ Cardinality(1..m) = m
  BY FS_Interval
<1>3. Cardinality(I) = m
  BY <1>1, <1>2, ListingSize
<1>4. ASSUME NEW k \in 1..m PROVE Nth(I, k) = e[k]
  <2> DEFINE f == [j \in 1..(k - 1) |-> e[j]]
  <2>1. f \in [1..(k - 1) -> Below(I, e[k])]
    BY DEF Below
  <2>2. \A a, b \in 1..(k - 1) : f[a] = f[b] => a = b
    BY <1>1
  <2>3. ASSUME NEW i \in Below(I, e[k]) PROVE \E j \in 1..(k - 1) : f[j] = i
    <3>1. PICK j \in 1..m : e[j] = i
      BY DEF Below
    <3>2. i < e[k] /\ i \in I /\ e[k] \in I
      BY DEF Below
    <3>5. i \in Nat /\ e[k] \in Nat
      BY <1>0, <3>2
    <3>3. ~(k < j) /\ j # k
      BY <3>1, <3>2, <3>5
    <3>4. j \in 1..(k - 1)
      BY <3>3
    <3> QED
      BY <3>1, <3>4
  <2>4. IsFiniteSet(1..(k - 1)) /\ Cardinality(1..(k - 1)) = k - 1
    BY FS_Interval
  <2> HIDE DEF f
  <2>5. Cardinality(Below(I, e[k])) = k - 1
    BY <2>1, <2>2, <2>3, <2>4, ListingSize
  <2>6. Nth(I, (k - 1) + 1) = e[k]
    BY <2>5, NthFound
  <2>7. (k - 1) + 1 = k
    OBVIOUS
  <2> QED
    BY <2>6, <2>7
<1> QED
  BY <1>3, <1>4

LEMMA KeptAll ==
    ASSUME NEW ps, NEW n \in Nat
    PROVE  Kept(ps, 1..n) = [k \in 1..n |-> ps[k]]
<1> DEFINE e == [k \in 1..n |-> k]
           I == 1..n
<1>1. I \in SUBSET (1..n) /\ n \in Nat
  OBVIOUS
<1>2. e \in [1..n -> I]
  OBVIOUS
<1>3. \A k \in 1..n : e[k] = k
  OBVIOUS
<1>4. \A j, k \in 1..n : j < k => e[j] < e[k]
  OBVIOUS
<1>5. \A i \in I : \E k \in 1..n : e[k] = i
  OBVIOUS
<1> HIDE DEF e, I
<1>6. Cardinality(I) = n /\ \A k \in 1..n : Nth(I, k) = e[k]
  BY <1>1, <1>2, <1>4, <1>5, NthIs
<1>7. Kept(ps, I) = [k \in 1..n |-> ps[k]]
  BY <1>3, <1>6 DEF Kept
<1> QED
  BY <1>7 DEF I

LEMMA KeptBut ==
    ASSUME NEW ps, NEW n \in Nat, NEW t \in 1..(n + 1)
    PROVE  Kept(ps, (1..(n + 1)) \ {t}) = [k \in 1..n |-> ps[IF k < t THEN k ELSE k + 1]]
<1> DEFINE e == [k \in 1..n |-> IF k < t THEN k ELSE k + 1]
           I == (1..(n + 1)) \ {t}
<1>1. I \in SUBSET (1..(n + 1)) /\ n + 1 \in Nat
  OBVIOUS
<1>2. e \in [1..n -> I]
  OBVIOUS
<1>3. \A j, k \in 1..n : j < k => e[j] < e[k]
  OBVIOUS
<1>4. ASSUME NEW i \in I PROVE \E k \in 1..n : e[k] = i
  <2>1. CASE i < t
    <3>1. i \in 1..n /\ e[i] = i
      BY <2>1
    <3> QED
      BY <3>1
  <2>2. CASE ~(i < t)
    <3>1. i - 1 \in 1..n /\ e[i - 1] = i
      BY <2>2
    <3> QED
      BY <3>1
  <2> QED
    BY <2>1, <2>2
<1>5. \A k \in 1..n : e[k] = IF k < t THEN k ELSE k + 1
  OBVIOUS
<1> HIDE DEF e, I
<1>6. Cardinality(I) = n /\ \A k \in 1..n : Nth(I, k) = e[k]
  BY <1>1, <1>2, <1>3, <1>4, NthIs
<1>7. Kept(ps, I) = [k \in 1..n |-> ps[e[k]]]
  BY <1>6 DEF Kept
<1> QED
  BY <1>5, <1>7 DEF I

\* What is kept are the elements at those places, as many as there are.
LEMMA KeptElements ==
    ASSUME NEW ps, NEW n \in Nat, NEW I \in SUBSET (1..n), NEW S, \A i \in I : ps[i] \in S
    PROVE  /\ Kept(ps, I) \in Seq(S) /\ Len(Kept(ps, I)) = Cardinality(I)
           /\ DOMAIN Kept(ps, I) = 1..Cardinality(I)
           /\ {Kept(ps, I)[k] : k \in DOMAIN Kept(ps, I)} = {ps[i] : i \in I}
<1> DEFINE c == Cardinality(I)
           s == Kept(ps, I)
<1>1. c \in Nat
  BY PlacesFinite
<1>2. s = [k \in 1..c |-> ps[Nth(I, k)]]
  BY DEF Kept
<1>3. /\ \A k \in 1..c : Nth(I, k) \in I
      /\ \A i \in I : \E k \in 1..c : Nth(I, k) = i
  BY NthFound, Zenon
<1> HIDE DEF c, s
<1>4. s \in [1..c -> S] /\ \A k \in 1..c : s[k] = ps[Nth(I, k)]
  BY <1>2, <1>3
<1>5. s \in Seq(S) /\ Len(s) = c
  BY <1>1, <1>4, FunctionIsSeq
<1>6. DOMAIN s = 1..c
  BY <1>2
<1>7. {s[k] : k \in 1..c} = {ps[i] : i \in I}
  <2>1. ASSUME NEW x \in {s[k] : k \in 1..c} PROVE x \in {ps[i] : i \in I}
    BY <1>3, <1>4
  <2>2. ASSUME NEW i \in I PROVE ps[i] \in {s[k] : k \in 1..c}
    <3>1. PICK k \in 1..c : Nth(I, k) = i
      BY <1>3
    <3>2. s[k] = ps[i]
      BY <1>4, <3>1
    <3> QED
      BY <3>2
  <2> QED
    BY <2>1, <2>2
<1> QED
  BY <1>5, <1>6, <1>7 DEF c, s

-----------------------------------------------------------------------------
(***************************************************************************)
(* Orders of pedals.                                                       *)
(***************************************************************************)

IsOrder(ps) == ps \in Seq(Known) /\ Permutation(ps)

Stages == {ORDER_STAGE[p] : p \in Known}
IsStageOrder(ss) == ss \in Seq(Stages) /\ ValidFxOrder(ss)

LEMMA PedalsKnown ==
    /\ Len(BoardPedals) \in Nat
    /\ BoardPedals \in [1..Len(BoardPedals) -> Known]
    /\ \A i, j \in 1..Len(BoardPedals) : BoardPedals[i] = BoardPedals[j] => i = j
    /\ Known \subseteq DOMAIN ORDER_STAGE
    /\ IsFiniteSet(Known) /\ Cardinality(Known) = Len(BoardPedals)
    /\ NoPedal \notin Known /\ Foreign \cap Known = {}
<1> DEFINE n == Len(BoardPedals)
<1>1. /\ n \in Nat /\ DOMAIN BoardPedals = 1..n
      /\ BoardPedals \in [1..n -> DOMAIN ORDER_STAGE]
  BY BoardPedalsAssumption, LenProperties
<1>2. BoardPedals \in [1..n -> Known] /\ Known \subseteq DOMAIN ORDER_STAGE
  BY <1>1 DEF Known
<1>3. \A i, j \in 1..n : BoardPedals[i] = BoardPedals[j] => i = j
  BY <1>1, BoardPedalsAssumption
<1>4. \A p \in Known : \E i \in 1..n : BoardPedals[i] = p
  BY <1>1 DEF Known
<1> HIDE DEF n
<1>5. IsFiniteSet(1..n) /\ Cardinality(1..n) = n
  BY <1>1, FS_Interval
<1>6. IsFiniteSet(Known) /\ Cardinality(Known) = n
  BY <1>2, <1>3, <1>4, <1>5, ListingSize
<1>7. NoPedal \notin DOMAIN ORDER_STAGE
  BY DEF NoPedal, ORDER_STAGE
<1> QED
  BY <1>1, <1>2, <1>3, <1>6, <1>7, ForeignAssumption DEF n

\* A permutation lists every pedal once.
LEMMA OrderListsOnce ==
    ASSUME NEW ps, IsOrder(ps)
    PROVE  LET n == Len(BoardPedals)
           IN  /\ n \in Nat /\ Len(ps) = n /\ DOMAIN ps = 1..n /\ ps \in [1..n -> Known]
               /\ \A i, j \in 1..n : ps[i] = ps[j] => i = j
               /\ \A p \in Known : \E i \in 1..n : ps[i] = p
<1> DEFINE n == Len(BoardPedals)
<1>1. n \in Nat /\ IsFiniteSet(Known) /\ Cardinality(Known) = n
  BY PedalsKnown
<1>2. ps \in Seq(Known) /\ Len(ps) = n /\ {ps[i] : i \in DOMAIN ps} = Known
  BY DEF IsOrder, Permutation
<1>3. DOMAIN ps = 1..n /\ ps \in [1..n -> Known]
  BY <1>1, <1>2, LenProperties
<1>4. \A p \in Known : \E i \in 1..n : ps[i] = p
  BY <1>2, <1>3
<1> HIDE DEF n
<1>5. ps \in Surjection(1..n, Known)
  BY <1>3, <1>4 DEF Surjection
<1>6. IsFiniteSet(1..n) /\ Cardinality(1..n) = n
  BY <1>1, FS_Interval
<1>7. ps \in Injection(1..n, Known)
  BY <1>1, <1>5, <1>6, FS_SurjSameCardinalityImpliesInj
<1>8. \A i, j \in 1..n : ps[i] = ps[j] => i = j
  BY <1>3, <1>7 DEF Injection, IsInjective
<1> QED
  BY <1>1, <1>2, <1>3, <1>4, <1>8 DEF n

\* Conversely, a one-to-one listing of pedals of that length has them all.
LEMMA ListingIsOrder ==
    ASSUME NEW ps \in [1..Len(BoardPedals) -> Known],
           \A i, j \in 1..Len(BoardPedals) : ps[i] = ps[j] => i = j
    PROVE  IsOrder(ps)
<1> DEFINE n == Len(BoardPedals)
<1>1. n \in Nat /\ IsFiniteSet(Known) /\ Cardinality(Known) = n
  BY PedalsKnown
<1>2. ps \in [1..n -> Known] /\ \A i, j \in 1..n : ps[i] = ps[j] => i = j
  OBVIOUS
<1> HIDE DEF n
<1>3. ps \in Injection(1..n, Known)
  BY <1>2 DEF Injection, IsInjective
<1>4. IsFiniteSet(1..n) /\ Cardinality(1..n) = n
  BY <1>1, FS_Interval
<1>5. ps \in Surjection(1..n, Known)
  BY <1>1, <1>3, <1>4, FS_Injection
<1>6. \A p \in Known : \E i \in 1..n : ps[i] = p
  BY <1>5 DEF Surjection
<1>7. {ps[i] : i \in DOMAIN ps} = Known
  <2>1. DOMAIN ps = 1..n /\ \A i \in 1..n : ps[i] \in Known
    BY <1>2
  <2> QED
    BY <1>6, <2>1
<1>8. ps \in Seq(Known) /\ Len(ps) = n
  BY <1>1, <1>2, FunctionIsSeq
<1> QED
  BY <1>7, <1>8 DEF IsOrder, Permutation, n

\* With every pedal mentioned, none is appended.
LEMMA NoneUnmentioned ==
    ASSUME NEW ps, \A p \in Known : Occurs(p, ps)
    PROVE  Unmentioned(ps) = <<>>
<1>1. \A i \in DOMAIN BoardPedals : BoardPedals[i] \in Known
  BY DEF Known
<1>2. {i \in DOMAIN BoardPedals : ~Occurs(BoardPedals[i], ps)} = {}
  BY <1>1
<1>3. Kept(BoardPedals, {}) = <<>>
  BY FS_EmptySet DEF Kept
<1> QED
  BY <1>2, <1>3 DEF Unmentioned

\* An order the page or the daemon has is taken as it is.
LEMMA OrderIsNormal ==
    ASSUME NEW ps, IsOrder(ps)
    PROVE  NormalizeOrder(ps) = ps
<1> DEFINE n == Len(BoardPedals)
<1>1. /\ n \in Nat /\ DOMAIN ps = 1..n /\ ps \in [1..n -> Known]
      /\ \A i, j \in 1..n : ps[i] = ps[j] => i = j
      /\ \A p \in Known : \E i \in 1..n : ps[i] = p
  BY OrderListsOnce
<1> HIDE DEF n
<1>2. Firsts(ps) = 1..n
  <2>1. ASSUME NEW i \in 1..n, NEW j \in 1..(i - 1) PROVE ps[j] # ps[i]
    <3>1. j \in 1..n /\ j # i
      BY <1>1
    <3> QED
      BY <1>1, <3>1
  <2> QED
    BY <1>1, <2>1 DEF Firsts
<1>3. Kept(ps, 1..n) = ps
  BY <1>1, KeptAll
<1>4. Unmentioned(ps) = <<>>
  BY <1>1, NoneUnmentioned DEF Occurs
<1>5. ps \o <<>> = ps
  BY ConcatEmptySeq DEF IsOrder
<1> QED
  BY <1>2, <1>3, <1>4, <1>5 DEF NormalizeOrder

\* Whatever the list, what comes of it is an order of all the pedals.
LEMMA NormalIsOrder ==
    ASSUME NEW S, NEW ps \in Seq(S)
    PROVE  IsOrder(NormalizeOrder(ps))
<1> DEFINE n == Len(BoardPedals)
           F == Firsts(ps)
           R == {i \in DOMAIN BoardPedals : ~Occurs(BoardPedals[i], ps)}
           A == {ps[i] : i \in F}
           B == {BoardPedals[i] : i \in R}
           a == Kept(ps, F)
           b == Kept(BoardPedals, R)
<1>1. /\ n \in Nat /\ BoardPedals \in [1..n -> Known]
      /\ \A i, j \in 1..n : BoardPedals[i] = BoardPedals[j] => i = j
      /\ IsFiniteSet(Known) /\ Cardinality(Known) = n
  BY PedalsKnown
<1>2. Len(ps) \in Nat /\ DOMAIN ps = 1..Len(ps)
  BY LenProperties
<1>3. F \in SUBSET (1..Len(ps)) /\ \A i \in F : ps[i] \in Known
  BY <1>2 DEF Firsts
<1>4. R \in SUBSET (1..n) /\ \A i \in R : BoardPedals[i] \in Known
  BY <1>1
<1>5. \A i, j \in F : ps[i] = ps[j] => i = j
  <2> SUFFICES ASSUME NEW i \in F, NEW j \in F, ps[i] = ps[j], i < j PROVE FALSE
    <3>1. \A i \in F : i \in Nat
      BY <1>3
    <3> QED
      BY <3>1
  <2>1. i \in 1..(j - 1)
    BY <1>3
  <2> QED
    BY <2>1 DEF Firsts
<1>6. A = {p \in Known : Occurs(p, ps)}
  <2>1. ASSUME NEW p \in Known, Occurs(p, ps) PROVE p \in A
    <3> DEFINE T == {i \in 1..Len(ps) : ps[i] = p}
    <3>1. T \subseteq Nat /\ T # {}
      BY <1>2, <2>1 DEF Occurs
    <3>2. PICK i \in T : \A m \in T : i <= m
      BY <3>1, LeastNat
    <3>3. ASSUME NEW j \in 1..(i - 1) PROVE ps[j] # ps[i]
      <4>1. j \in 1..Len(ps) /\ ~(i <= j)
        BY <1>2
      <4> QED
        BY <3>2, <4>1
    <3>4. i \in F /\ ps[i] = p
      BY <1>2, <2>1, <3>3 DEF Firsts
    <3> QED
      BY <3>4
  <2>2. ASSUME NEW i \in F PROVE ps[i] \in Known /\ Occurs(ps[i], ps)
    BY <1>2, <1>3 DEF Occurs
  <2> QED
    BY <2>1, <2>2
<1>7. B = {p \in Known : ~Occurs(p, ps)}
  <2>1. \A p \in Known : \E i \in DOMAIN BoardPedals : BoardPedals[i] = p
    BY DEF Known
  <2>2. \A i \in DOMAIN BoardPedals : BoardPedals[i] \in Known
    BY DEF Known
  <2> QED
    BY <2>1, <2>2
<1>8. \A i, j \in R : BoardPedals[i] = BoardPedals[j] => i = j
  BY <1>1, <1>4
<1>9. NormalizeOrder(ps) = a \o b
  BY DEF NormalizeOrder, Unmentioned
<1>10. /\ a \in Seq(Known) /\ Len(a) = Cardinality(F) /\ DOMAIN a = 1..Cardinality(F)
       /\ {a[k] : k \in DOMAIN a} = A
  BY <1>2, <1>3, KeptElements
<1>11. /\ b \in Seq(Known) /\ Len(b) = Cardinality(R) /\ DOMAIN b = 1..Cardinality(R)
       /\ {b[k] : k \in DOMAIN b} = B
  <2> HIDE DEF n, R, b
  <2>1. n \in Nat /\ R \in SUBSET (1..n) /\ \A i \in R : BoardPedals[i] \in Known
    BY <1>1, <1>4
  <2>2. /\ Kept(BoardPedals, R) \in Seq(Known)
        /\ Len(Kept(BoardPedals, R)) = Cardinality(R)
        /\ DOMAIN Kept(BoardPedals, R) = 1..Cardinality(R)
        /\ {Kept(BoardPedals, R)[k] : k \in DOMAIN Kept(BoardPedals, R)}
               = {BoardPedals[i] : i \in R}
    BY <2>1, KeptElements, Zenon
  <2> QED
    BY <2>2, Zenon DEF b
<1>12. IsFiniteSet(F) /\ Cardinality(F) \in Nat /\ IsFiniteSet(R) /\ Cardinality(R) \in Nat
  BY <1>1, <1>2, <1>3, <1>4, PlacesFinite
<1>13. IsFiniteSet(A) /\ Cardinality(A) = Cardinality(F)
  <2> DEFINE f == [i \in F |-> ps[i]]
  <2>1. f \in [F -> A] /\ \A i \in F : f[i] = ps[i]
    OBVIOUS
  <2>2. \A t \in A : \E i \in F : f[i] = t
    OBVIOUS
  <2> HIDE DEF f, F, A
  <2>3. \A i, j \in F : f[i] = f[j] => i = j
    BY <1>5, <2>1
  <2> QED
    BY <1>12, <2>1, <2>2, <2>3, ListingSize
<1>14. IsFiniteSet(B) /\ Cardinality(B) = Cardinality(R)
  <2> DEFINE f == [i \in R |-> BoardPedals[i]]
  <2>1. f \in [R -> B] /\ \A i \in R : f[i] = BoardPedals[i]
    OBVIOUS
  <2>2. \A t \in B : \E i \in R : f[i] = t
    OBVIOUS
  <2> HIDE DEF f, R, B
  <2>3. \A i, j \in R : f[i] = f[j] => i = j
    BY <1>8, <2>1
  <2> QED
    BY <1>12, <2>1, <2>2, <2>3, ListingSize
<1> HIDE DEF n, F, R, A, B, a, b
<1>15. Cardinality(F) + Cardinality(R) = n
  <2>1. A \cup B = Known /\ A \cap B = {}
    BY <1>6, <1>7
  <2>2. Cardinality(A \cup B) = Cardinality(A) + Cardinality(B) - Cardinality(A \cap B)
    BY <1>13, <1>14, FS_Union
  <2>3. Cardinality(A \cap B) = 0
    BY <2>1, FS_EmptySet
  <2>4. n = Cardinality(F) + Cardinality(R) - 0
    BY <1>1, <1>13, <1>14, <2>1, <2>2, <2>3
  <2> QED
    BY <1>12, <2>4
<1>16. /\ a \o b \in Seq(Known) /\ Len(a \o b) = n
       /\ \A i \in 1..n : (a \o b)[i] = IF i <= Len(a) THEN a[i] ELSE b[i - Len(a)]
  <2>1. a \in Seq(Known) /\ b \in Seq(Known) /\ Len(a) + Len(b) = n
    BY <1>10, <1>11, <1>15
  <2>2. /\ a \o b \in Seq(Known) /\ Len(a \o b) = Len(a) + Len(b)
        /\ \A i \in 1..(Len(a) + Len(b)) :
              (a \o b)[i] = IF i <= Len(a) THEN a[i] ELSE b[i - Len(a)]
    BY <2>1, ConcatProperties
  <2> QED
    BY <2>1, <2>2
<1>17. DOMAIN (a \o b) = 1..n
  BY <1>16, LenProperties
<1>18. ASSUME NEW p \in Known PROVE \E i \in 1..n : (a \o b)[i] = p
  <2>1. CASE p \in A
    <3>1. PICK k \in 1..Cardinality(F) : a[k] = p
      BY <1>10, <2>1
    <3>2. k \in 1..n /\ k <= Len(a)
      BY <1>10, <1>12, <1>15
    <3> QED
      BY <1>16, <3>1, <3>2
  <2>2. CASE p \in B
    <3>1. PICK k \in 1..Cardinality(R) : b[k] = p
      BY <1>11, <2>2
    <3>2. Cardinality(F) + k \in 1..n /\ ~(Cardinality(F) + k <= Cardinality(F))
      BY <1>12, <1>15
    <3>3. (Cardinality(F) + k) - Cardinality(F) = k
      BY <1>12
    <3>4. (a \o b)[Cardinality(F) + k] = p
      BY <1>10, <1>16, <3>1, <3>2, <3>3
    <3> QED
      BY <3>2, <3>4
  <2> QED
    BY <1>6, <1>7, <2>1, <2>2
<1>19. {(a \o b)[i] : i \in DOMAIN (a \o b)} = Known
  <2>1. \A i \in 1..n : (a \o b)[i] \in Known
    BY <1>16, <1>17
  <2> QED
    BY <1>17, <1>18, <2>1
<1> QED
  BY <1>9, <1>16, <1>19 DEF IsOrder, Permutation, n

\* The engine's names and back.
LEMMA StageOfPedal ==
    /\ \A p \in Known : p \in DOMAIN ORDER_STAGE /\ ORDER_STAGE[p] \in Stages
    /\ \A s \in Stages : /\ s \in DOMAIN ORDER_PEDAL /\ ORDER_PEDAL[s] \in Known
                         /\ ORDER_STAGE[ORDER_PEDAL[s]] = s
<1>1. \A p, q \in DOMAIN ORDER_STAGE : ORDER_STAGE[p] = ORDER_STAGE[q] => p = q
  BY DEF ORDER_STAGE
<1>2. \A p \in Known : p \in DOMAIN ORDER_STAGE /\ ORDER_STAGE[p] \in Stages
  BY PedalsKnown DEF Stages
<1>3. ASSUME NEW p \in Known
      PROVE  ORDER_STAGE[p] \in DOMAIN ORDER_PEDAL /\ ORDER_PEDAL[ORDER_STAGE[p]] = p
  <2> DEFINE s == ORDER_STAGE[p]
  <2>1. p \in DOMAIN ORDER_STAGE
    BY <1>2
  <2>2. /\ s \in DOMAIN ORDER_PEDAL
        /\ ORDER_PEDAL[s] = CHOOSE q \in DOMAIN ORDER_STAGE : ORDER_STAGE[q] = s
    BY <2>1 DEF ORDER_PEDAL
  <2>3. /\ ORDER_PEDAL[s] \in DOMAIN ORDER_STAGE
        /\ ORDER_STAGE[ORDER_PEDAL[s]] = s
    BY <2>1, <2>2
  <2> QED
    BY <1>1, <2>1, <2>2, <2>3
<1> QED
  BY <1>2, <1>3 DEF Stages

LEMMA ToStagesOfOrder ==
    ASSUME NEW ps, IsOrder(ps)
    PROVE  IsStageOrder(ToStages(ps))
<1> DEFINE n == Len(BoardPedals)
           ss == ToStages(ps)
<1>1. /\ n \in Nat /\ DOMAIN ps = 1..n /\ ps \in [1..n -> Known]
      /\ \A p \in Known : \E i \in 1..n : ps[i] = p
  BY OrderListsOnce
<1>2. ss \in [1..n -> Stages] /\ \A i \in 1..n : ss[i] = ORDER_STAGE[ps[i]]
  BY <1>1, StageOfPedal DEF ToStages
<1> HIDE DEF n, ss
<1>3. ss \in Seq(Stages) /\ Len(ss) = n
  BY <1>1, <1>2, FunctionIsSeq
<1>4. ASSUME NEW s \in Stages PROVE \E i \in 1..n : ss[i] = s
  <2>1. PICK p \in Known : ORDER_STAGE[p] = s
    BY DEF Stages
  <2>2. PICK i \in 1..n : ps[i] = p
    BY <1>1
  <2> QED
    BY <1>2, <2>1, <2>2
<1>5. {ss[i] : i \in DOMAIN ss} = Stages
  BY <1>2, <1>4
<1> QED
  BY <1>3, <1>5 DEF IsStageOrder, ValidFxOrder, Stages, n, ss

LEMMA ToPedalsOfOrder ==
    ASSUME NEW ss, IsStageOrder(ss)
    PROVE  IsOrder(ToPedals(ss)) /\ ToStages(ToPedals(ss)) = ss
<1> DEFINE n == Len(BoardPedals)
           ps == ToPedals(ss)
<1>1. n \in Nat
  BY PedalsKnown
<1>2. ss \in Seq(Stages) /\ Len(ss) = n /\ {ss[i] : i \in DOMAIN ss} = Stages
  BY DEF IsStageOrder, ValidFxOrder, Stages
<1>3. DOMAIN ss = 1..n /\ ss \in [1..n -> Stages]
  BY <1>1, <1>2, LenProperties
<1>4. ps \in [1..n -> Known] /\ \A i \in 1..n : ps[i] = ORDER_PEDAL[ss[i]]
  BY <1>3, StageOfPedal DEF ToPedals
<1>5. ToStages(ps) = ss
  <2>1. DOMAIN ps = 1..n
    BY <1>4
  <2> HIDE DEF ps, n
  <2>2. \A i \in 1..n : ps[i] \in DOMAIN ORDER_STAGE /\ ORDER_STAGE[ps[i]] = ss[i]
    BY <1>3, <1>4, StageOfPedal
  <2>3. ToStages(ps) = [i \in 1..n |-> ss[i]]
    BY <2>1, <2>2 DEF ToStages
  <2> QED
    BY <1>3, <2>3
<1> HIDE DEF n, ps
<1>6. ps \in Seq(Known) /\ Len(ps) = n
  BY <1>1, <1>4, FunctionIsSeq
<1>7. ASSUME NEW p \in Known PROVE \E i \in 1..n : ps[i] = p
  <2>1. ORDER_STAGE[p] \in Stages /\ p \in DOMAIN ORDER_STAGE
    BY StageOfPedal
  <2>2. PICK i \in 1..n : ss[i] = ORDER_STAGE[p]
    BY <1>2, <1>3, <2>1
  <2>3. ORDER_STAGE[ps[i]] = ORDER_STAGE[p] /\ ps[i] \in DOMAIN ORDER_STAGE
    BY <1>3, <1>4, <2>2, StageOfPedal
  <2>4. ps[i] = p
    BY <2>1, <2>3 DEF ORDER_STAGE
  <2> QED
    BY <2>4
<1>8. {ps[i] : i \in DOMAIN ps} = Known
  BY <1>4, <1>7
<1> QED
  BY <1>5, <1>6, <1>8 DEF IsOrder, Permutation, n, ps

-----------------------------------------------------------------------------
(***************************************************************************)
(* Moving one pedal.                                                       *)
(***************************************************************************)

LEMMA InsertIs ==
    ASSUME NEW n \in Nat, NEW t \in 1..(n + 1), NEW s, NEW p, NEW S,
           s \in [1..n -> S], p \in S
    PROVE  /\ InsertAt(s, t, p) \in [1..(n + 1) -> S]
           /\ \A k \in 1..(n + 1) : InsertAt(s, t, p)[k] =
                 IF k < t THEN s[k] ELSE IF k = t THEN p ELSE s[k - 1]
<1> DEFINE front == SubSeq(s, 1, t - 1)
           back == SubSeq(s, t, n)
           mid == front \o <<p>>
           r == mid \o back
<1>1. s \in Seq(S) /\ Len(s) = n
  BY FunctionIsSeq
<1>2. t \in Int /\ t - 1 \in Int /\ n \in Int /\ 1 \in Int /\ 1 <= t /\ t <= n + 1
  OBVIOUS
<1>3. /\ front \in Seq(S) /\ Len(front) = t - 1
      /\ \A i \in 1..(t - 1) : front[i] = s[i]
  <2>1. \A i \in 1..(t - 1) : s[i] \in S
    BY <1>2
  <2>2. /\ front \in Seq(S) /\ Len(front) = IF 1 <= t - 1 THEN (t - 1) - 1 + 1 ELSE 0
        /\ \A i \in 1..((t - 1) - 1 + 1) : front[i] = s[1 + i - 1]
    BY <1>2, <2>1, SubSeqProperties
  <2>3. (t - 1) - 1 + 1 = t - 1 /\ \A i \in 1..(t - 1) : 1 + i - 1 = i
    BY <1>2
  <2> HIDE DEF front
  <2>4. Len(front) = t - 1
    BY <1>2, <2>2
  <2> QED
    BY <2>2, <2>3, <2>4
<1>4. /\ back \in Seq(S) /\ Len(back) = (n + 1) - t
      /\ \A i \in 1..((n + 1) - t) : back[i] = s[t + i - 1]
  <2>1. \A i \in t..n : s[i] \in S
    BY <1>2
  <2>2. /\ back \in Seq(S) /\ Len(back) = IF t <= n THEN n - t + 1 ELSE 0
        /\ \A i \in 1..(n - t + 1) : back[i] = s[t + i - 1]
    BY <1>2, <2>1, SubSeqProperties
  <2>3. n - t + 1 = (n + 1) - t
    BY <1>2
  <2> HIDE DEF back
  <2>4. Len(back) = (n + 1) - t
    BY <1>2, <2>2
  <2> QED
    BY <2>2, <2>3, <2>4
<1> HIDE DEF front, back
<1>5. <<p>> \in Seq(S) /\ Len(<<p>>) = 1 /\ <<p>>[1] = p
  OBVIOUS
<1>6. /\ mid \in Seq(S) /\ Len(mid) = t
      /\ \A i \in 1..t : mid[i] = IF i < t THEN s[i] ELSE p
  <2>1. /\ mid \in Seq(S) /\ Len(mid) = Len(front) + Len(<<p>>)
        /\ \A i \in 1..(Len(front) + Len(<<p>>)) :
              mid[i] = IF i <= Len(front) THEN front[i] ELSE <<p>>[i - Len(front)]
    BY <1>3, <1>5, ConcatProperties
  <2> HIDE DEF mid
  <2>2. Len(front) + Len(<<p>>) = t
    BY <1>2, <1>3, <1>5
  <2>3. ASSUME NEW i \in 1..t PROVE mid[i] = IF i < t THEN s[i] ELSE p
    <3>1. mid[i] = IF i <= t - 1 THEN front[i] ELSE <<p>>[i - (t - 1)]
      BY <1>3, <2>1, <2>2
    <3>2. CASE i < t
      <4>1. i \in 1..(t - 1) /\ i <= t - 1
        BY <1>2, <3>2
      <4> QED
        BY <1>3, <3>1, <3>2, <4>1
    <3>3. CASE ~(i < t)
      <4>1. i - (t - 1) = 1 /\ ~(i <= t - 1)
        BY <1>2, <3>3
      <4> QED
        BY <1>5, <3>1, <3>3, <4>1
    <3> QED
      BY <3>2, <3>3
  <2> QED
    BY <2>1, <2>2, <2>3
<1> HIDE DEF mid
<1>7. /\ r \in Seq(S) /\ Len(r) = n + 1
      /\ \A k \in 1..(n + 1) : r[k] = IF k <= t THEN mid[k] ELSE back[k - t]
  <2>1. /\ r \in Seq(S) /\ Len(r) = Len(mid) + Len(back)
        /\ \A k \in 1..(Len(mid) + Len(back)) :
              r[k] = IF k <= Len(mid) THEN mid[k] ELSE back[k - Len(mid)]
    BY <1>4, <1>6, ConcatProperties
  <2> HIDE DEF r
  <2>2. Len(mid) + Len(back) = n + 1
    BY <1>2, <1>4, <1>6
  <2> QED
    BY <1>6, <2>1, <2>2
<1>8. InsertAt(s, t, p) = r
  <2>1. Len(s) = n
    BY <1>1
  <2> QED
    BY <2>1 DEF InsertAt, r, mid, front, back
<1> HIDE DEF r
<1>9. r \in [1..(n + 1) -> S]
  BY <1>7, LenProperties
<1>10. ASSUME NEW k \in 1..(n + 1)
       PROVE  r[k] = IF k < t THEN s[k] ELSE IF k = t THEN p ELSE s[k - 1]
  <2>1. CASE k <= t
    <3>1. k \in 1..t /\ (k < t \/ k = t)
      BY <1>2, <2>1
    <3> QED
      BY <1>6, <1>7, <2>1, <3>1
  <2>2. CASE ~(k <= t)
    <3>1. /\ k - t \in 1..((n + 1) - t) /\ t + (k - t) - 1 = k - 1
          /\ ~(k < t) /\ k # t
      BY <1>2, <2>2
    <3>2. back[k - t] = s[t + (k - t) - 1]
      BY <1>4, <3>1
    <3> QED
      BY <1>7, <2>2, <3>1, <3>2
  <2> QED
    BY <2>1, <2>2
<1> QED
  BY <1>8, <1>9, <1>10

\* The order without one of its pedals.
LEMMA WithoutIs ==
    ASSUME NEW n \in Nat, NEW ps \in [1..(n + 1) -> Known], NEW a \in 1..(n + 1),
           \A i, j \in 1..(n + 1) : ps[i] = ps[j] => i = j
    PROVE  Without(ps, ps[a]) = [k \in 1..n |-> ps[IF k < a THEN k ELSE k + 1]]
<1>1. {i \in DOMAIN ps : ps[i] # ps[a]} = (1..(n + 1)) \ {a}
  OBVIOUS
<1> QED
  BY <1>1, KeptBut DEF Without

\* Taken out and put in elsewhere, a pedal leaves the others in their order.
LEMMA PutBack ==
    ASSUME NEW ps, IsOrder(ps), NEW p \in Known,
           NEW t \in 1..Len(BoardPedals)
    PROVE  LET m == Len(BoardPedals) - 1
               rest == Without(ps, p)
               r == InsertAt(rest, t, p)
           IN  /\ m \in Nat /\ rest \in [1..m -> Known] /\ t \in 1..(m + 1)
               /\ \A q \in Known \ {p} : \E k \in 1..m : rest[k] = q
               /\ IsOrder(r) /\ Without(r, p) = rest
               /\ DOMAIN r = 1..(m + 1) /\ r[t] = p
               /\ \A k \in 1..m : r[IF k < t THEN k ELSE k + 1] = rest[k]
               /\ \A i, j \in 1..(m + 1) : r[i] = r[j] => i = j
<1> DEFINE m == Len(BoardPedals) - 1
           rest == Without(ps, p)
           r == InsertAt(rest, t, p)
<1>1. /\ Len(BoardPedals) \in Nat /\ ps \in [1..Len(BoardPedals) -> Known]
      /\ \A i, j \in 1..Len(BoardPedals) : ps[i] = ps[j] => i = j
      /\ \A q \in Known : \E i \in 1..Len(BoardPedals) : ps[i] = q
  BY OrderListsOnce
<1>2. m \in Nat /\ Len(BoardPedals) = m + 1 /\ t \in 1..(m + 1)
  BY <1>1
<1> HIDE DEF m
<1>3. /\ ps \in [1..(m + 1) -> Known]
      /\ \A i, j \in 1..(m + 1) : ps[i] = ps[j] => i = j
      /\ \A q \in Known : \E i \in 1..(m + 1) : ps[i] = q
  BY <1>1, <1>2
<1>18. m \in Nat /\ t \in 1..(m + 1)
  BY <1>2
<1>4. PICK a \in 1..(m + 1) : ps[a] = p
  BY <1>3
<1>5. rest = [k \in 1..m |-> ps[IF k < a THEN k ELSE k + 1]]
  <2>1. m \in Nat /\ a \in 1..(m + 1) /\ ps \in [1..(m + 1) -> Known]
    BY <1>2, <1>3, <1>4
  <2>2. \A i, j \in 1..(m + 1) : ps[i] = ps[j] => i = j
    BY <1>3
  <2>3. Without(ps, ps[a]) = [k \in 1..m |-> ps[IF k < a THEN k ELSE k + 1]]
    BY <2>1, <2>2, WithoutIs
  <2> QED
    BY <1>4, <2>3
<1> HIDE DEF rest
<1>6. \A k \in 1..m : /\ (IF k < a THEN k ELSE k + 1) \in (1..(m + 1)) \ {a}
                      /\ rest[k] = ps[IF k < a THEN k ELSE k + 1]
  BY <1>2, <1>5
<1>7. rest \in [1..m -> Known] /\ \A k \in 1..m : rest[k] # p
  <2>1. \A k \in 1..m : rest[k] \in Known /\ rest[k] # p
    BY <1>3, <1>4, <1>6
  <2> QED
    BY <1>5, <2>1
<1>8. ASSUME NEW q \in Known \ {p} PROVE \E k \in 1..m : rest[k] = q
  <2>1. PICK i \in 1..(m + 1) : ps[i] = q
    BY <1>3
  <2>2. i # a
    BY <1>4, <2>1
  <2>3. CASE i < a
    <3>1. i \in 1..m
      BY <1>2, <2>3
    <3> QED
      BY <1>6, <2>1, <2>3, <3>1
  <2>4. CASE ~(i < a)
    <3>1. i - 1 \in 1..m /\ ~(i - 1 < a) /\ (i - 1) + 1 = i
      BY <1>2, <2>2, <2>4
    <3>2. rest[i - 1] = ps[(i - 1) + 1]
      BY <1>6, <3>1
    <3> QED
      BY <2>1, <3>1, <3>2
  <2> QED
    BY <2>3, <2>4
<1>9. ASSUME NEW i \in 1..m, NEW j \in 1..m, rest[i] = rest[j] PROVE i = j
  <2>1. (IF i < a THEN i ELSE i + 1) = (IF j < a THEN j ELSE j + 1)
    BY <1>3, <1>6, <1>9
  <2> QED
    BY <1>2, <2>1
<1>10. /\ r \in [1..(m + 1) -> Known]
       /\ \A k \in 1..(m + 1) :
             r[k] = IF k < t THEN rest[k] ELSE IF k = t THEN p ELSE rest[k - 1]
  <2>1. /\ InsertAt(rest, t, p) \in [1..(m + 1) -> Known]
        /\ \A k \in 1..(m + 1) : InsertAt(rest, t, p)[k] =
              IF k < t THEN rest[k] ELSE IF k = t THEN p ELSE rest[k - 1]
    BY <1>18, <1>7, InsertIs
  <2> QED
    BY <2>1
<1> HIDE DEF r
<1>11. r[t] = p
  BY <1>2, <1>10
<1>12. ASSUME NEW k \in 1..m PROVE r[IF k < t THEN k ELSE k + 1] = rest[k]
  <2>1. CASE k < t
    BY <1>2, <1>10, <2>1
  <2>2. CASE ~(k < t)
    <3>1. k + 1 \in 1..(m + 1) /\ ~(k + 1 < t) /\ k + 1 # t /\ (k + 1) - 1 = k
      BY <1>2, <2>2
    <3> QED
      BY <1>10, <2>2, <3>1
  <2> QED
    BY <2>1, <2>2
<1>13. ASSUME NEW i \in (1..(m + 1)) \ {t}
       PROVE  \E k \in 1..m : i = (IF k < t THEN k ELSE k + 1) /\ r[i] = rest[k]
  <2>1. CASE i < t
    <3>1. i \in 1..m
      BY <1>2, <2>1
    <3> QED
      BY <1>12, <2>1, <3>1
  <2>2. CASE ~(i < t)
    <3>1. i - 1 \in 1..m /\ ~(i - 1 < t) /\ (i - 1) + 1 = i
      BY <1>2, <2>2
    <3> QED
      BY <1>12, <3>1
  <2> QED
    BY <2>1, <2>2
<1>14. ASSUME NEW i \in 1..(m + 1), NEW j \in 1..(m + 1), r[i] = r[j] PROVE i = j
  <2>1. CASE i = t /\ j = t
    BY <2>1
  <2>2. CASE i # t /\ j = t
    <3>1. PICK k \in 1..m : r[i] = rest[k]
      BY <1>13, <2>2
    <3> QED
      BY <1>7, <1>11, <1>14, <2>2, <3>1
  <2>3. CASE i = t /\ j # t
    <3>1. PICK k \in 1..m : r[j] = rest[k]
      BY <1>13, <2>3
    <3> QED
      BY <1>7, <1>11, <1>14, <2>3, <3>1
  <2>4. CASE i # t /\ j # t
    <3>1. PICK k \in 1..m : i = (IF k < t THEN k ELSE k + 1) /\ r[i] = rest[k]
      BY <1>13, <2>4
    <3>2. PICK h \in 1..m : j = (IF h < t THEN h ELSE h + 1) /\ r[j] = rest[h]
      BY <1>13, <2>4
    <3>3. k = h
      BY <1>9, <1>14, <3>1, <3>2
    <3> QED
      BY <3>1, <3>2, <3>3
  <2> QED
    BY <2>1, <2>2, <2>3, <2>4
<1>15. IsOrder(r)
  BY <1>2, <1>10, <1>14, ListingIsOrder
<1>16. Without(r, p) = rest
  <2>1. Without(r, r[t]) = [k \in 1..m |-> r[IF k < t THEN k ELSE k + 1]]
    BY <1>18, <1>10, <1>14, WithoutIs
  <2>2. \A k \in 1..m : r[IF k < t THEN k ELSE k + 1] = rest[k]
    BY <1>12
  <2>3. rest = [k \in 1..m |-> rest[k]]
    BY <1>7
  <2> QED
    BY <1>11, <2>1, <2>2, <2>3
<1>17. DOMAIN r = 1..(m + 1)
  BY <1>10
<1> QED
  BY <1>2, <1>7, <1>8, <1>11, <1>12, <1>14, <1>15, <1>16, <1>17 DEF m, rest, r

LEMMA PlaceIs ==
    ASSUME NEW ps, NEW n \in Nat, DOMAIN ps = 1..n, NEW i \in 1..n,
           \A j, k \in 1..n : ps[j] = ps[k] => j = k
    PROVE  Place(ps, ps[i]) = i
<1> DEFINE c == CHOOSE j \in DOMAIN ps : ps[j] = ps[i]
<1>1. \E j \in DOMAIN ps : ps[j] = ps[i]
  OBVIOUS
<1>2. c \in DOMAIN ps /\ ps[c] = ps[i]
  BY <1>1
<1> HIDE DEF c
<1>3. c = i
  BY <1>2
<1> QED
  BY <1>3 DEF Place, c

LEMMA PlaceFound ==
    ASSUME NEW ps, NEW p, Occurs(p, ps)
    PROVE  Place(ps, p) \in DOMAIN ps /\ ps[Place(ps, p)] = p
BY Zenon DEF Occurs, Place

\* A pedal dropped on another goes beside it, on the side of the pointer.
LEMMA DroppedBeside ==
    ASSUME NEW ps, IsOrder(ps), NEW p \in Known, NEW target \in Known, p # target,
           NEW after \in BOOLEAN
    PROVE  LET r == MoveRelative(ps, p, target, after)
           IN  /\ IsOrder(r) /\ Without(r, p) = Without(ps, p)
               /\ Place(r, p) = Place(r, target) + (IF after THEN 1 ELSE -1)
<1> DEFINE m == Len(BoardPedals) - 1
           rest == Without(ps, p)
           b == Place(rest, target)
           t == b + (IF after THEN 1 ELSE 0)
           r == InsertAt(rest, t, p)
<1>1. 1 \in 1..Len(BoardPedals)
  <2>1. /\ Len(BoardPedals) \in Nat
        /\ \A q \in Known : \E i \in 1..Len(BoardPedals) : ps[i] = q
    BY OrderListsOnce
  <2>2. \E i \in 1..Len(BoardPedals) : ps[i] = p
    BY <2>1
  <2> QED
    BY <2>1, <2>2
<1>2. /\ m \in Nat /\ rest \in [1..m -> Known]
      /\ \A q \in Known \ {p} : \E k \in 1..m : rest[k] = q
  BY <1>1, PutBack
<1>3. Occurs(target, rest)
  BY <1>2 DEF Occurs
<1>4. b \in 1..m /\ rest[b] = target
  BY <1>2, <1>3, PlaceFound
<1>5. MoveRelative(ps, p, target, after) = r
  BY <1>3 DEF MoveRelative
<1>6. t \in 1..Len(BoardPedals) /\ t = (IF after THEN b + 1 ELSE b)
  <2>1. Len(BoardPedals) \in Nat
    BY PedalsKnown
  <2> QED
    BY <1>4, <2>1
<1> HIDE DEF b, t
<1>7. /\ IsOrder(r) /\ Without(r, p) = rest
      /\ DOMAIN r = 1..(m + 1) /\ r[t] = p /\ t \in 1..(m + 1)
      /\ \A k \in 1..m : r[IF k < t THEN k ELSE k + 1] = rest[k]
      /\ \A i, j \in 1..(m + 1) : r[i] = r[j] => i = j
  <2>1. t \in 1..Len(BoardPedals)
    BY <1>6
  <2>2. IsOrder(r) /\ Without(r, p) = rest
    BY <2>1, PutBack
  <2>3. DOMAIN r = 1..(m + 1) /\ r[t] = p /\ t \in 1..(m + 1)
    BY <2>1, PutBack
  <2>4. \A k \in 1..m : r[IF k < t THEN k ELSE k + 1] = rest[k]
    BY <2>1, PutBack
  <2>5. \A i, j \in 1..(m + 1) : r[i] = r[j] => i = j
    BY <2>1, PutBack
  <2> QED
    BY <2>2, <2>3, <2>4, <2>5
<1> HIDE DEF m, rest, r
<1>8. m + 1 \in Nat
  BY <1>2
<1>9. Place(r, p) = t
  <2>1. Place(r, r[t]) = t
    BY <1>7, <1>8, PlaceIs
  <2> QED
    BY <1>7, <2>1
<1>10. CASE after
  <2>1. b < t /\ b \in 1..(m + 1) /\ t = b + 1
    BY <1>2, <1>4, <1>6, <1>10
  <2>2. r[b] = target
    BY <1>4, <1>7, <2>1
  <2>3. Place(r, r[b]) = b
    BY <1>7, <1>8, <2>1, PlaceIs
  <2> QED
    BY <1>5, <1>7, <1>9, <1>10, <2>1, <2>2, <2>3 DEF rest
<1>11. CASE ~after
  <2>1. ~(b < t) /\ b + 1 \in 1..(m + 1) /\ t = b /\ t = (b + 1) + (-1)
    BY <1>2, <1>4, <1>6, <1>11
  <2>2. r[b + 1] = target
    BY <1>4, <1>7, <2>1
  <2>3. Place(r, r[b + 1]) = b + 1
    BY <1>7, <1>8, <2>1, PlaceIs
  <2> QED
    BY <1>5, <1>7, <1>9, <1>11, <2>1, <2>2, <2>3 DEF rest
<1> QED
  BY <1>10, <1>11

\* What is dropped from elsewhere is sorted out again.
LEMMA ForeignDropped ==
    ASSUME NEW ps, IsOrder(ps), NEW x, x \notin Known, NEW target \in Known,
           NEW after \in BOOLEAN
    PROVE  NormalizeOrder(MoveRelative(ps, x, target, after)) = ps
<1> DEFINE n == Len(BoardPedals)
           b == Place(ps, target)
           t == b + (IF after THEN 1 ELSE 0)
           q == InsertAt(ps, t, x)
<1>1. /\ n \in Nat /\ DOMAIN ps = 1..n /\ ps \in [1..n -> Known]
      /\ \A i, j \in 1..n : ps[i] = ps[j] => i = j
      /\ \A p \in Known : \E i \in 1..n : ps[i] = p
  BY OrderListsOnce
<1> HIDE DEF n
<1>2. Without(ps, x) = ps
  <2>1. \A i \in 1..n : ps[i] # x
    BY <1>1
  <2>2. {i \in DOMAIN ps : ps[i] # x} = 1..n
    BY <1>1, <2>1
  <2>3. Kept(ps, 1..n) = [k \in 1..n |-> ps[k]]
    BY <1>1, KeptAll
  <2> QED
    BY <1>1, <2>2, <2>3 DEF Without
<1>3. Occurs(target, ps) /\ x # target
  BY <1>1 DEF Occurs
<1>4. MoveRelative(ps, x, target, after) = q
  BY <1>2, <1>3 DEF MoveRelative
<1>5. b \in 1..n
  BY <1>1, <1>3, PlaceFound
<1> HIDE DEF b
<1>6. t \in 1..(n + 1)
  BY <1>1, <1>5
<1> HIDE DEF t
<1> DEFINE S == Known \cup {x}
<1>7. /\ q \in [1..(n + 1) -> S]
      /\ \A k \in 1..(n + 1) : q[k] = IF k < t THEN ps[k] ELSE IF k = t THEN x ELSE ps[k - 1]
  <2>1. ps \in [1..n -> S] /\ x \in S
    BY <1>1
  <2> HIDE DEF S
  <2>2. /\ InsertAt(ps, t, x) \in [1..(n + 1) -> S]
        /\ \A k \in 1..(n + 1) : InsertAt(ps, t, x)[k] =
              IF k < t THEN ps[k] ELSE IF k = t THEN x ELSE ps[k - 1]
    <3>1. n \in Nat
      BY <1>1
    <3> QED
      BY <1>6, <2>1, <3>1, InsertIs
  <2> QED
    BY <2>2
<1> HIDE DEF q, S
<1>8. ASSUME NEW k \in 1..n
      PROVE  /\ (IF k < t THEN k ELSE k + 1) \in (1..(n + 1)) \ {t}
             /\ q[IF k < t THEN k ELSE k + 1] = ps[k]
  <2>1. CASE k < t
    BY <1>1, <1>6, <1>7, <2>1
  <2>2. CASE ~(k < t)
    <3>1. /\ k + 1 \in 1..(n + 1) /\ ~(k + 1 < t) /\ k + 1 # t /\ (k + 1) - 1 = k
      BY <1>1, <1>6, <2>2
    <3> QED
      BY <1>7, <2>2, <3>1
  <2> QED
    BY <2>1, <2>2
<1>9. ASSUME NEW i \in (1..(n + 1)) \ {t}
      PROVE  \E k \in 1..n : i = (IF k < t THEN k ELSE k + 1) /\ q[i] = ps[k]
  <2>1. CASE i < t
    <3>1. i \in 1..n
      BY <1>1, <1>6, <2>1
    <3> QED
      BY <1>8, <2>1, <3>1
  <2>2. CASE ~(i < t)
    <3>1. i - 1 \in 1..n /\ ~(i - 1 < t) /\ (i - 1) + 1 = i
      BY <1>1, <1>6, <2>2
    <3> QED
      BY <1>8, <3>1
  <2> QED
    BY <2>1, <2>2
<1>10. q[t] = x
  BY <1>1, <1>6, <1>7
<1>11. Firsts(q) = (1..(n + 1)) \ {t}
  <2>1. DOMAIN q = 1..(n + 1)
    BY <1>7
  <2>2. ASSUME NEW i \in (1..(n + 1)) \ {t}
        PROVE  q[i] \in Known /\ \A j \in 1..(i - 1) : q[j] # q[i]
    <3>1. PICK k \in 1..n : i = (IF k < t THEN k ELSE k + 1) /\ q[i] = ps[k]
      BY <1>9
    <3>2. q[i] \in Known
      BY <1>1, <3>1
    <3>3. ASSUME NEW j \in 1..(i - 1), q[j] = q[i] PROVE FALSE
      <4>1. j \in 1..(n + 1) /\ j # i
        BY <1>1
      <4>2. j # t
        BY <1>10, <3>2, <3>3
      <4>3. PICK h \in 1..n : j = (IF h < t THEN h ELSE h + 1) /\ q[j] = ps[h]
        BY <1>9, <4>1, <4>2
      <4>4. h = k
        BY <1>1, <3>1, <3>3, <4>3
      <4> QED
        BY <3>1, <4>1, <4>3, <4>4
    <3> QED
      BY <3>2, <3>3
  <2> QED
    BY <1>10, <2>1, <2>2 DEF Firsts
<1>12. Kept(q, (1..(n + 1)) \ {t}) = ps
  <2>1. n \in Nat
    BY <1>1
  <2>2. Kept(q, (1..(n + 1)) \ {t}) = [k \in 1..n |-> q[IF k < t THEN k ELSE k + 1]]
    BY <1>6, <2>1, KeptBut
  <2>3. [k \in 1..n |-> q[IF k < t THEN k ELSE k + 1]] = [k \in 1..n |-> ps[k]]
    BY <1>8
  <2>4. [k \in 1..n |-> ps[k]] = ps
    BY <1>1
  <2> QED
    BY <2>2, <2>3, <2>4
<1>13. Unmentioned(q) = <<>>
  <2>1. ASSUME NEW p \in Known PROVE \E i \in DOMAIN q : q[i] = p
    <3>1. PICK k \in 1..n : ps[k] = p
      BY <1>1
    <3>2. (IF k < t THEN k ELSE k + 1) \in DOMAIN q
      BY <1>7, <1>8
    <3> QED
      BY <1>8, <3>1, <3>2
  <2> QED
    BY <2>1, NoneUnmentioned DEF Occurs
<1>14. ps \o <<>> = ps
  BY ConcatEmptySeq DEF IsOrder
<1> QED
  BY <1>4, <1>11, <1>12, <1>13, <1>14 DEF NormalizeOrder

LEMMA NudgedOrder ==
    ASSUME NEW ps, IsOrder(ps), NEW p \in Known, NEW dir \in {1, -1}
    PROVE  IsOrder(MoveBy(ps, p, dir))
<1> DEFINE n == Len(BoardPedals)
           from == Place(ps, p)
           to == IF from + dir < 1 THEN 1
                 ELSE IF from + dir > Len(ps) THEN Len(ps) ELSE from + dir
<1>1. /\ n \in Nat /\ Len(ps) = n /\ DOMAIN ps = 1..n
      /\ \A q \in Known : \E i \in 1..n : ps[i] = q
  BY OrderListsOnce
<1>2. from \in 1..n
  BY <1>1, PlaceFound DEF Occurs
<1> HIDE DEF from
<1>3. to \in 1..Len(BoardPedals)
  BY <1>1, <1>2
<1> HIDE DEF to
<1>4. IsOrder(InsertAt(Without(ps, p), to, p))
  BY <1>3, PutBack
<1>5. MoveBy(ps, p, dir) = IF to = from THEN ps ELSE InsertAt(Without(ps, p), to, p)
  BY DEF MoveBy, to, from
<1> QED
  BY <1>4, <1>5

-----------------------------------------------------------------------------
(***************************************************************************)
(* The page's order and the daemon's.                                      *)
(***************************************************************************)

\* The page shows an order and asks for orders only; what was announced last to
\* its stream is what the daemon stores, as is an answer not overtaken; and the
\* page shows it when nothing is under way and the last word was told.
Announced(ss) ==
    IsSeq(orderEvents) /\ LastIs(orderEvents, ss)
    /\ \A i \in DOMAIN orderEvents : IsStageOrder(orderEvents[i])

OrderInv ==
    /\ IsOrder(order) /\ IsStageOrder(fxOrder)
    /\ \A ss \in orderNet : IsStageOrder(ss)
    /\ Announced(fxOrder)
    /\ ~orderUp => orderEvents = <<>>
    /\ chainGet.step = "read" =>
          IsStageOrder(chainGet.order) /\ (~overtaken => chainGet.order = fxOrder)
    /\ (orderNet = {} /\ orderEvents = <<>> /\ ~untold) => ToStages(order) = fxOrder
    /\ dragId \in Known \cup {NoPedal}
    /\ over = Nowhere \/ over \in [strip : Known, right : BOOLEAN]

orderVars == <<strips, sync>>

LEMMA StageOrders == \A ss \in FxOrders : IsStageOrder(ss)
<1> SUFFICES ASSUME NEW ss \in FxOrders PROVE IsStageOrder(ss)
  OBVIOUS
<1>1. ss \in [1..Len(BoardPedals) -> Stages] /\ ValidFxOrder(ss)
  BY PedalsKnown DEF FxOrders, Stages
<1>2. ss \in Seq(Stages)
  BY <1>1, SeqDef, PedalsKnown
<1> QED
  BY <1>1, <1>2 DEF IsStageOrder

LEMMA OrderInitially == BoardInit => OrderInv
<1> SUFFICES ASSUME BoardInit PROVE OrderInv
  OBVIOUS
<1>1. IsOrder(BoardPedals)
  BY PedalsKnown, ListingIsOrder
<1>2. IsStageOrder(ToStages(BoardPedals))
  BY <1>1, ToStagesOfOrder
<1>3. IsStageOrder(fxOrder) /\ chainGet.step # "read"
  BY StageOrders DEF BoardInit, NoGet, ChainGet
<1> QED
  BY <1>1, <1>3, NoneQueued DEF BoardInit, OrderInv, Announced

LEMMA OrderStays == OrderInv /\ UNCHANGED orderVars => OrderInv'
BY DEF OrderInv, Announced, orderVars, strips, sync, orderLink

\* Where a strip is dragged says nothing of the orders.
LEMMA OrderWithDrag ==
    ASSUME OrderInv, UNCHANGED <<order, sync>>,
           dragId' \in Known \cup {NoPedal},
           over' = Nowhere \/ over' \in [strip : Known, right : BOOLEAN]
    PROVE  OrderInv'
BY DEF OrderInv, Announced, sync, orderLink

LEMMA ReorderStep ==
    ASSUME OrderInv, NEW ps, IsOrder(NormalizeOrder(ps)), Reorder(ps),
           dragId' \in Known \cup {NoPedal},
           over' = Nowhere \/ over' \in [strip : Known, right : BOOLEAN]
    PROVE  OrderInv'
<1> DEFINE new == NormalizeOrder(ps)
<1>1. /\ order' = new /\ orderNet' = orderNet \cup {ToStages(new)}
      /\ UNCHANGED <<fxOrder, orderEvents, orderUp, chainGet, untold, overtaken>>
  BY DEF Reorder
<1> HIDE DEF new
<1>2. IsOrder(new) /\ IsStageOrder(ToStages(new))
  BY ToStagesOfOrder DEF new
<1>3. orderNet' # {} /\ \A ss \in orderNet' : IsStageOrder(ss)
  BY <1>1, <1>2 DEF OrderInv
<1> QED
  BY <1>1, <1>2, <1>3 DEF OrderInv, Announced

\* What Drop does to the page's order: whatever was dropped, an order comes of it.
LEMMA DroppedOrder ==
    ASSUME OrderInv, over # Nowhere, NEW from, dragId # NoPedal => from = dragId,
           dragId = NoPedal => from \in Foreign
    PROVE  LET moved == MoveRelative(order, from, over.strip, over.right)
           IN  /\ IsOrder(NormalizeOrder(moved))
               /\ from \notin Known \ {over.strip} => NormalizeOrder(moved) = order
               /\ from \in Known \ {over.strip} =>
                     /\ NormalizeOrder(moved) = moved
                     /\ Without(moved, from) = Without(order, from)
                     /\ Place(moved, from) =
                           Place(moved, over.strip) + (IF over.right THEN 1 ELSE -1)
<1> DEFINE moved == MoveRelative(order, from, over.strip, over.right)
<1>1. IsOrder(order) /\ over.strip \in Known /\ over.right \in BOOLEAN
  BY DEF OrderInv
<1>2. CASE from \in Known \ {over.strip}
  <2>1. /\ IsOrder(moved) /\ Without(moved, from) = Without(order, from)
        /\ Place(moved, from) = Place(moved, over.strip) + (IF over.right THEN 1 ELSE -1)
    BY <1>1, <1>2, DroppedBeside
  <2>2. NormalizeOrder(moved) = moved
    BY <2>1, OrderIsNormal
  <2> QED
    BY <1>2, <2>1, <2>2
<1>3. CASE from = over.strip
  <2>1. moved = order
    BY <1>3 DEF MoveRelative
  <2>2. NormalizeOrder(order) = order
    BY <1>1, OrderIsNormal
  <2> QED
    BY <1>1, <1>3, <2>1, <2>2
<1>4. CASE from \notin Known
  <2>1. NormalizeOrder(moved) = order
    BY <1>1, <1>4, ForeignDropped
  <2> QED
    BY <1>1, <1>4, <2>1
<1> QED
  BY <1>2, <1>3, <1>4

\* An order announced is behind those a page with a stream is told of.
LEMMA AnnounceStep ==
    ASSUME OrderInv, NEW ss, IsStageOrder(ss), Announce(ss),
           \A net \in orderNet' : net \in orderNet,
           UNCHANGED <<strips, orderUp, chainGet>>
    PROVE  OrderInv'
<1>1. /\ fxOrder' = ss /\ orderEvents' = IF orderUp THEN Append(orderEvents, ss) ELSE orderEvents
      /\ untold' = (untold \/ ~orderUp) /\ overtaken' = (chainGet.step = "read")
      /\ UNCHANGED <<order, dragId, over>>
  BY DEF Announce, strips
<1>2. Announced(ss)' /\ (orderUp => orderEvents' # <<>>)
  <2>1. CASE orderUp
    <3>1. /\ IsSeq(orderEvents') /\ orderEvents' # <<>> /\ LastIs(orderEvents', ss)
      BY <1>1, <2>1, LastQueued DEF OrderInv, Announced
    <3>2. /\ Len(orderEvents) \in Nat /\ DOMAIN orderEvents = 1..Len(orderEvents)
          /\ IsSeq(orderEvents)
      BY LenProperties DEF OrderInv, Announced, IsSeq
    <3>3. /\ DOMAIN Append(orderEvents, ss) = 1..Len(orderEvents) + 1
          /\ Append(orderEvents, ss)[Len(orderEvents) + 1] = ss
          /\ \A k \in DOMAIN orderEvents : Append(orderEvents, ss)[k] = orderEvents[k]
      BY <3>2, SeqAndLast
    <3>4. \A i \in 1..Len(orderEvents) + 1 : i \in DOMAIN orderEvents \/ i = Len(orderEvents) + 1
      BY <3>2
    <3>5. \A i \in DOMAIN orderEvents' : IsStageOrder(orderEvents'[i])
      BY <1>1, <2>1, <3>3, <3>4 DEF OrderInv, Announced
    <3> QED
      BY <3>1, <3>5 DEF Announced
  <2>2. CASE ~orderUp
    BY <1>1, <2>2, NoneQueued DEF Announced, OrderInv
  <2> QED
    BY <2>1, <2>2
<1> QED
  BY <1>1, <1>2 DEF OrderInv

\* What is left of the events when the first is heard or dropped.
LEMMA FirstGone ==
    ASSUME OrderInv, orderEvents # <<>>
    PROVE  /\ IsSeq(Tail(orderEvents)) /\ LastIs(Tail(orderEvents), fxOrder)
           /\ \A i \in DOMAIN Tail(orderEvents) : IsStageOrder(Tail(orderEvents)[i])
           /\ IsStageOrder(Head(orderEvents))
           /\ Tail(orderEvents) = <<>> => Head(orderEvents) = fxOrder
<1>1. /\ IsSeq(Tail(orderEvents)) /\ Head(orderEvents) = orderEvents[1] /\ 1 \in DOMAIN orderEvents
      /\ \A k \in DOMAIN Tail(orderEvents) :
            k + 1 \in DOMAIN orderEvents /\ Tail(orderEvents)[k] = orderEvents[k + 1]
  BY RestOfSeq DEF OrderInv, Announced
<1>2. LastIs(Tail(orderEvents), fxOrder)
      /\ (Tail(orderEvents) = <<>> => Head(orderEvents) = fxOrder)
  BY LastStays DEF OrderInv, Announced
<1> QED
  BY <1>1, <1>2 DEF OrderInv, Announced

\* An order the page is told is shown as it is.
LEMMA OrderTold ==
    ASSUME NEW ss, IsStageOrder(ss)
    PROVE  LET ps == NormalizeOrder(ToPedals(ss)) IN IsOrder(ps) /\ ToStages(ps) = ss
<1>1. IsOrder(ToPedals(ss)) /\ ToStages(ToPedals(ss)) = ss
  BY ToPedalsOfOrder
<1>2. NormalizeOrder(ToPedals(ss)) = ToPedals(ss)
  BY <1>1, OrderIsNormal
<1> QED
  BY <1>1, <1>2

LEMMA TakeOrderStep ==
    ASSUME OrderInv, NEW ss \in orderNet, TakeOrder(ss)
    PROVE  OrderInv'
<1>1. IsStageOrder(ss) /\ ValidFxOrder(ss)
  BY DEF OrderInv, IsStageOrder
<1>2. Announce(ss) /\ orderNet' = orderNet \ {ss} /\ UNCHANGED <<strips, orderUp, chainGet>>
  BY <1>1 DEF TakeOrder
<1> QED
  BY <1>1, <1>2, AnnounceStep

LEMMA HearOrderStep ==
    ASSUME OrderInv, HearOrder
    PROVE  OrderInv'
<1> DEFINE e == Head(orderEvents)
           shown == NormalizeOrder(ToPedals(e))
<1>1. /\ orderEvents # <<>> /\ orderEvents' = Tail(orderEvents) /\ order' = shown
      /\ UNCHANGED <<dragId, over, fxOrder, orderNet, orderUp, chainGet, overtaken>>
  BY DEF HearOrder
<1>2. IsOrder(shown) /\ ToStages(shown) = e
  BY <1>1, FirstGone, OrderTold
<1>3. Announced(fxOrder)' /\ (orderEvents' = <<>> => e = fxOrder)
  BY <1>1, FirstGone DEF Announced
<1> HIDE DEF e, shown
<1>4. ~orderUp' => orderEvents' = <<>>
  BY <1>1 DEF OrderInv
<1> QED
  BY <1>1, <1>2, <1>3, <1>4 DEF OrderInv

\* A request or an event is lost, or all the stream has on it.
LEMMA WordLost ==
    ASSUME OrderInv,
           \/ \E ss \in orderNet : OrderLost(ss)
           \/ OrderDropped \/ BoardStreamLost \/ BoardStreamBack \/ ReadChain \/ ChainFails
    PROVE  OrderInv'
<1>1. ASSUME NEW ss \in orderNet, OrderLost(ss) PROVE OrderInv'
  BY <1>1 DEF OrderLost, OrderInv, Announced, strips
<1>2. CASE OrderDropped
  <2>1. Announced(fxOrder)' /\ orderEvents # <<>>
    BY <1>2, FirstGone DEF OrderDropped, Announced
  <2> QED
    BY <1>2, <2>1 DEF OrderDropped, OrderInv, strips
<1>3. CASE BoardStreamLost
  <2>1. Announced(fxOrder)' /\ orderEvents' = <<>>
    BY <1>3, NoneQueued DEF BoardStreamLost, Announced
  <2>2. chainGet'.step # "read"
    BY <1>3 DEF BoardStreamLost, NoGet, ChainGet
  <2> QED
    BY <1>3, <2>1, <2>2 DEF BoardStreamLost, OrderInv, strips
<1>4. CASE BoardStreamBack
  BY <1>4 DEF BoardStreamBack, OrderInv, Announced, ChainGet, strips
<1>5. CASE ReadChain
  BY <1>5 DEF ReadChain, OrderInv, Announced, ChainGet, strips
<1>6. CASE ChainFails
  BY <1>6 DEF ChainFails, OrderInv, Announced, NoGet, ChainGet, strips
<1> QED
  BY <1>1, <1>2, <1>3, <1>4, <1>5, <1>6

LEMMA HearChainStep ==
    ASSUME OrderInv, HearChain
    PROVE  OrderInv'
<1> DEFINE shown == NormalizeOrder(ToPedals(chainGet.order))
<1>1. /\ chainGet.step = "read" /\ chainGet'.step # "read" /\ order' = shown
      /\ untold' = overtaken
      /\ UNCHANGED <<dragId, over, fxOrder, orderNet, orderEvents, orderUp>>
  BY DEF HearChain, NoGet, ChainGet
<1>2. IsOrder(shown) /\ ToStages(shown) = chainGet.order
  BY <1>1, OrderTold DEF OrderInv
<1> HIDE DEF shown
<1>3. ~untold' => ToStages(order') = fxOrder'
  BY <1>1, <1>2 DEF OrderInv
<1> QED
  BY <1>1, <1>2, <1>3 DEF OrderInv, Announced

LEMMA DropStep ==
    ASSUME OrderInv, Drop
    PROVE  OrderInv'
<1>1. /\ over # Nowhere /\ dragId' = NoPedal /\ over' = Nowhere
  BY DEF Drop
<1>2. PICK from \in IF dragId # NoPedal THEN {dragId} ELSE Foreign :
          IF from = "" THEN UNCHANGED <<order, sync>>
          ELSE Reorder(MoveRelative(order, from, over.strip, over.right))
  BY DEF Drop
<1>3. CASE from = ""
  BY <1>1, <1>2, <1>3, OrderWithDrag
<1>4. CASE from # ""
  <2>1. Reorder(MoveRelative(order, from, over.strip, over.right))
    BY <1>2, <1>4
  <2>2. IsOrder(NormalizeOrder(MoveRelative(order, from, over.strip, over.right)))
    BY <1>1, <1>2, DroppedOrder
  <2> QED
    BY <1>1, <2>1, <2>2, ReorderStep
<1> QED
  BY <1>3, <1>4

LEMMA OrderStep == OrderInv /\ [BoardNext]_boardVars => OrderInv'
<1> SUFFICES ASSUME OrderInv, [BoardNext]_boardVars PROVE OrderInv'
  OBVIOUS
<1>1. dragId \in Known \cup {NoPedal} /\ (over = Nowhere \/ over \in [strip : Known, right : BOOLEAN])
  BY DEF OrderInv
<1>2. ASSUME NEW p \in Known, DragStart(p) \/ Activate(p) \/ ToggleCollapse(p)
      PROVE  OrderInv'
  <2>1. /\ UNCHANGED <<order, sync>>
        /\ dragId' \in Known \cup {NoPedal} /\ (over' = over \/ over' = Nowhere)
    BY <1>1, <1>2 DEF DragStart, Activate, ToggleCollapse, strips
  <2> QED
    BY <1>1, <2>1, OrderWithDrag
<1>3. ASSUME NEW p \in Known, NEW right \in BOOLEAN, DragOver(p, right) PROVE OrderInv'
  <2>1. /\ UNCHANGED <<order, sync, dragId>>
        /\ over' = [strip |-> p, right |-> right]
    BY <1>3 DEF DragOver
  <2> QED
    BY <1>1, <2>1, OrderWithDrag
<1>4. ASSUME NEW p \in Known, NEW dir \in {1, -1}, Nudge(p, dir) PROVE OrderInv'
  <2>1. Reorder(MoveBy(order, p, dir)) /\ UNCHANGED <<dragId, over>>
    BY <1>4 DEF Nudge
  <2>2. IsOrder(MoveBy(order, p, dir))
    BY NudgedOrder DEF OrderInv
  <2>3. NormalizeOrder(MoveBy(order, p, dir)) = MoveBy(order, p, dir)
    BY <2>2, OrderIsNormal
  <2> QED
    BY <1>1, <2>1, <2>2, <2>3, ReorderStep
<1>5. CASE DragLeave
  BY <1>1, <1>5, OrderWithDrag DEF DragLeave
<1>6. CASE DragEnd
  BY <1>1, <1>6, OrderWithDrag DEF DragEnd
<1>7. CASE Drop
  BY <1>7, DropStep
<1>8. ASSUME NEW ss \in orderNet, TakeOrder(ss) \/ OrderLost(ss) PROVE OrderInv'
  BY <1>8, TakeOrderStep, WordLost
<1>9. ASSUME NEW ss \in FxOrders, OtherReorder(ss) PROVE OrderInv'
  BY <1>9, StageOrders, AnnounceStep DEF OtherReorder
<1>15. CASE HearOrder \/ HearChain
  BY <1>15, HearOrderStep, HearChainStep
<1>16. CASE OrderDropped \/ BoardStreamLost \/ BoardStreamBack \/ ReadChain \/ ChainFails
  BY <1>16, WordLost
<1>10. ASSUME UNCHANGED <<strips, sync>> PROVE OrderInv'
  BY <1>10, OrderStays DEF orderVars
<1>11. CASE GoBoard \/ ResetPedal \/ PointerUp
  BY <1>10, <1>11 DEF GoBoard, ResetPedal, PointerUp
<1>12. ASSUME NEW k \in BoardKnobs, PointerDown(k) \/ Turn(k) PROVE OrderInv'
  BY <1>10, <1>12 DEF PointerDown, Turn
<1>13. ASSUME NEW h \in Heights, NEW fine \in BOOLEAN, PointerMove(h, fine) PROVE OrderInv'
  BY <1>10, <1>13 DEF PointerMove
<1>14. CASE UNCHANGED boardVars
  BY <1>10, <1>14 DEF boardVars
<1> QED
  BY <1>2, <1>3, <1>4, <1>5, <1>6, <1>7, <1>8, <1>9, <1>11, <1>12, <1>13, <1>14, <1>15,
     <1>16
  DEF BoardNext

\* The board shows every pedal once, asks for valid orders only, and ends up
\* with the engine's order once the last word on it was heard, for any pedals
\* and however requests, announcements and answers cross, fail or are lost
\* (order.ts, Pedalboard.tsx, usePolyclav.ts, the daemon's fx-order).
THEOREM BoardAgrees == BoardSpec => []BoardOrderAgrees
<1>1. OrderInv => BoardOrderAgrees
  BY DEF OrderInv, BoardOrderAgrees, IsOrder, IsStageOrder
<1> QED
  BY OrderInitially, OrderStep, <1>1, PTL DEF BoardSpec

\* A drop moves the dragged pedal beside the strip it is dropped on and nothing
\* else, for any pedals and whatever else may be dropped.
THEOREM DropsMoveOne == BoardSpec => DropMovesOne
<1> DEFINE Moved == (over # Nowhere /\ over' = Nowhere /\ order' # order) =>
                     /\ dragId \in Known \ {over.strip}
                     /\ Without(order', dragId) = Without(order, dragId)
                     /\ Place(order', dragId) =
                           Place(order', over.strip) + (IF over.right THEN 1 ELSE -1)
<1>1. OrderInv /\ [BoardNext]_boardVars => [Moved]_boardVars
  <2> SUFFICES ASSUME OrderInv, BoardNext, over # Nowhere, over' = Nowhere, order' # order
               PROVE  Moved
    BY DEF boardVars, strips
  <2>1. Drop
    BY DEF BoardNext, DragStart, Activate, ToggleCollapse, DragOver, Nudge, DragLeave,
           DragEnd, TakeOrder, OrderLost, OtherReorder, HearOrder, OrderDropped,
           BoardStreamLost, BoardStreamBack, ReadChain, HearChain, ChainFails, GoBoard,
           ResetPedal, PointerDown, Turn, PointerMove, PointerUp, strips
  <2>2. PICK from \in IF dragId # NoPedal THEN {dragId} ELSE Foreign :
            IF from = "" THEN UNCHANGED <<order, sync>>
            ELSE Reorder(MoveRelative(order, from, over.strip, over.right))
    BY <2>1 DEF Drop
  <2> DEFINE moved == MoveRelative(order, from, over.strip, over.right)
  <2>3. order' = NormalizeOrder(moved)
    BY <2>2 DEF Reorder
  <2>4. /\ from \notin Known \ {over.strip} => NormalizeOrder(moved) = order
        /\ from \in Known \ {over.strip} =>
              /\ NormalizeOrder(moved) = moved
              /\ Without(moved, from) = Without(order, from)
              /\ Place(moved, from) =
                    Place(moved, over.strip) + (IF over.right THEN 1 ELSE -1)
    BY <2>2, DroppedOrder
  <2>5. from \in Known \ {over.strip}
    BY <2>3, <2>4
  <2>6. dragId = from
    <3>1. from \notin Foreign
      BY <2>5, PedalsKnown
    <3> QED
      BY <2>2, <3>1
  <2> HIDE DEF moved
  <2> QED
    BY <2>3, <2>4, <2>5, <2>6
<1> QED
  BY OrderInitially, OrderStep, <1>1, PTL DEF BoardSpec, DropMovesOne

=============================================================================
