---------------------------- MODULE DeviceSettings ----------------------------
(***************************************************************************)
(* Which keyboards may send notes, and the file that says so: the MIDI     *)
(* devices card (web/components/MIDIDevicesCard.tsx) edits the allowlist,  *)
(* the config card (ConfigCard.tsx) the whole of config.toml, and both     *)
(* save into one file (internal/web/mididevices.go, editor.go).            *)
(***************************************************************************)
EXTENDS Integers, FiniteSets, TLC

CONSTANTS
    Ports,       \* names of ports, with the address of the moment
    Entries,     \* what an allowlist may hold
    Matches,     \* pairs of an entry and a port it is a substring of
    EntryFor,    \* a port's name without its address
    Plugged,     \* the sets of ports that may be connected together
    SettingsOps  \* bound on what users and cables do

ASSUME PortsAssumption == Plugged \subseteq SUBSET Ports /\ Plugged # {}
ASSUME EntryForAssumption ==
    EntryFor \in [Ports -> Entries] /\ \A p \in Ports : <<EntryFor[p], p>> \in Matches
ASSUME SettingsOpsAssumption == SettingsOps \in Nat

VARIABLES
    ports,      \* connected to the computer
    devices,    \* connected as the card knows it
    allow,      \* the card's working copy of the list
    answered,   \* the card has had a list
    calls,      \* requests and answers of the cards on their way
    puts,       \* saves between the file and the live list
    allowed,    \* the daemon's live list
    config,     \* config.toml: its list, whether the web manages that line, the rest
    text,       \* the config card's text
    loaded,     \* the config card has had one
    onceThere,  \* the entries of the list at the start
    unticked,   \* ports the user took the tick from
    struck,     \* entries the user took out of the text, or saved a text without
                \* that was never loaded
    sessionOnly,\* the live list is not meant to be the file's
    settingsOps

cards == <<devices, allow, answered, text, loaded>>
settingsGhosts == <<onceThere, unticked, struck, sessionOnly>>
settingsVars == <<ports, cards, calls, puts, allowed, config, settingsGhosts, settingsOps>>

Config(list, managed, rest) == [list |-> list, managed |-> managed, rest |-> rest]
\* The empty text is a valid one: no list, and the web may write its line.
NoText == Config({}, TRUE, "fine")

allowMatches(entry, port) == <<entry, port>> \in Matches
Selected(list, port) == \E entry \in list : allowMatches(entry, port)

Call(kind, list, save) == [kind |-> kind, list |-> list, save |-> save]
GetDevices == Call("get", {}, FALSE)

----------------------------------------------------------------------------
SettingsInit ==
    /\ ports \in Plugged
    /\ \E list \in SUBSET Entries, managed \in BOOLEAN :
          allowed = list /\ onceThere = list /\ config = Config(list, managed, "fine")
    /\ devices = {} /\ allow = {} /\ answered = FALSE
    /\ calls = {GetDevices}
    /\ puts = {}
    /\ text = NoText /\ loaded = FALSE
    /\ unticked = {} /\ struck = {} /\ sessionOnly = FALSE
    /\ settingsOps = 0

SettingsTurn == settingsOps < SettingsOps /\ settingsOps' = settingsOps + 1

Replug(plugged) ==
    /\ SettingsTurn
    /\ ports' = plugged
    /\ UNCHANGED <<cards, calls, puts, allowed, config, settingsGhosts>>

\* A tick stores the port's stable name; taking it away drops every entry that
\* matches the port. Entries of ports not connected stay in the list.
Toggle_ConnectedOnly(port) ==
    /\ SettingsTurn /\ answered
    /\ LET there == {e \in allow : \E d \in devices : allowMatches(e, d)}
       IN  IF Selected(there, port)
           THEN /\ allow' = {e \in there : ~allowMatches(e, port)}
                /\ unticked' = unticked \cup {port}
           ELSE /\ allow' = there \cup {EntryFor[port]}
                /\ UNCHANGED unticked
    /\ UNCHANGED <<ports, devices, answered, text, loaded, calls, puts, allowed, config,
                   onceThere, struck, sessionOnly>>

Toggle(port) ==
    /\ SettingsTurn /\ answered
    /\ IF Selected(allow, port)
       THEN /\ allow' = {e \in allow : ~allowMatches(e, port)}
            /\ unticked' = unticked \cup {port}
       ELSE /\ allow' = allow \cup {EntryFor[port]}
            /\ UNCHANGED unticked
    /\ UNCHANGED <<ports, devices, answered, text, loaded, calls, puts, allowed, config,
                   onceThere, struck, sessionOnly>>

Ask(call) ==
    /\ SettingsTurn
    /\ calls' = calls \cup {call}
    /\ UNCHANGED <<ports, cards, puts, allowed, config, onceThere, unticked, sessionOnly>>
RefreshDevices == Ask(GetDevices) /\ UNCHANGED struck
Apply(save) == answered /\ Ask(Call("put", allow, save)) /\ UNCHANGED struck
LoadConfig == Ask(Call("load", {}, FALSE)) /\ UNCHANGED struck

\* Save and the text are the user's also before the text is loaded, and after
\* it could not be.
SaveConfig ==
    /\ Ask([kind |-> "save", text |-> text])
    /\ struck' = IF loaded THEN struck ELSE struck \cup (onceThere \ text.list)

\* A hand edit of the list, of whose line it is, or of the rest.
EditConfig(list, managed, rest) ==
    /\ SettingsTurn
    /\ text' = Config(list, managed, rest)
    /\ struck' = struck \cup (text.list \ list)
    /\ UNCHANGED <<ports, devices, answered, allow, loaded, calls, puts, allowed, config,
                   onceThere, unticked, sessionOnly>>

----------------------------------------------------------------------------
\* The daemon. A save writes the file's managed line under the file's lock and
\* fails whole where that line is not the web's to write; the live list follows
\* outside the lock.

Took(call, answers) == calls' = (calls \ {call}) \cup answers

AnswerDevices(call) ==
    /\ call.kind = "get"
    /\ Took(call, {[kind |-> "devices", list |-> allowed, ports |-> ports]})
    /\ UNCHANGED <<ports, cards, puts, allowed, config, settingsGhosts, settingsOps>>

ApplyList(call) ==
    /\ call.kind = "put" /\ ~call.save
    /\ allowed' = call.list
    /\ sessionOnly' = TRUE
    /\ Took(call, {[kind |-> "done"]})
    /\ UNCHANGED <<ports, cards, puts, config, onceThere, unticked, struck, settingsOps>>

\* A save that sets the live list before it knows whether the file took it.
SaveList_ApplyFirst(call) ==
    /\ call.kind = "put" /\ call.save
    /\ allowed' = call.list
    /\ config' = IF config.managed THEN [config EXCEPT !.list = call.list] ELSE config
    /\ Took(call, IF config.managed THEN {[kind |-> "done"]} ELSE {})
    /\ UNCHANGED <<ports, cards, puts, settingsGhosts, settingsOps>>

SaveList(call) ==
    /\ call.kind = "put" /\ call.save
    /\ IF config.managed
       THEN /\ config' = [config EXCEPT !.list = call.list]
            /\ puts' = puts \cup {call.list}
            /\ sessionOnly' = (puts # {})
       ELSE UNCHANGED <<config, puts, sessionOnly>>
    /\ Took(call, {})
    /\ UNCHANGED <<ports, cards, allowed, onceThere, unticked, struck, settingsOps>>

SetAllow(list) ==
    /\ puts' = puts \ {list}
    /\ allowed' = list
    /\ calls' = calls \cup {[kind |-> "done"]}
    /\ UNCHANGED <<ports, cards, config, settingsGhosts, settingsOps>>

AnswerLoad(call) ==
    /\ call.kind = "load"
    /\ Took(call, {[kind |-> "config", text |-> config]})
    /\ UNCHANGED <<ports, cards, puts, allowed, config, settingsGhosts, settingsOps>>

\* PUT /api/config: the whole text or, where it is not valid, nothing of it.
SaveText(call) ==
    /\ call.kind = "save"
    /\ Took(call, {})
    /\ IF call.text.rest = "fine"
       THEN /\ config' = call.text
            /\ sessionOnly' = (sessionOnly \/ call.text.list # config.list)
       ELSE UNCHANGED <<config, sessionOnly>>
    /\ UNCHANGED <<ports, cards, puts, allowed, onceThere, unticked, struck, settingsOps>>

\* The daemon starts again from the file. What it had not begun is lost.
Restart ==
    /\ SettingsTurn
    /\ allowed' = config.list
    /\ puts' = {} /\ calls' = {} /\ sessionOnly' = FALSE
    /\ UNCHANGED <<ports, cards, config, onceThere, unticked, struck>>

CallLost(call) ==
    /\ Took(call, {})
    /\ UNCHANGED <<ports, cards, puts, allowed, config, settingsGhosts, settingsOps>>

----------------------------------------------------------------------------
HearDevices(call) ==
    /\ call.kind = "devices"
    /\ Took(call, {})
    /\ devices' = call.ports /\ allow' = call.list /\ answered' = TRUE
    /\ UNCHANGED <<ports, text, loaded, puts, allowed, config, settingsGhosts, settingsOps>>

\* After an apply the card reads the list back.
HearDone(call) ==
    /\ call.kind = "done"
    /\ Took(call, {GetDevices})
    /\ UNCHANGED <<ports, cards, puts, allowed, config, settingsGhosts, settingsOps>>

HearConfig(call) ==
    /\ call.kind = "config"
    /\ Took(call, {})
    /\ text' = call.text /\ loaded' = TRUE
    /\ UNCHANGED <<ports, devices, allow, answered, puts, allowed, config, settingsGhosts,
                   settingsOps>>

SettingsNext ==
    \/ \E plugged \in Plugged \ {ports} : Replug(plugged)
    \/ \E port \in devices : Toggle(port)
    \/ RefreshDevices \/ \E save \in BOOLEAN : Apply(save)
    \/ LoadConfig \/ SaveConfig
    \/ \E list \in SUBSET Entries : EditConfig(list, text.managed, "fine")
    \/ EditConfig(text.list, ~text.managed, "fine")
    \/ EditConfig(text.list, text.managed, "broken")
    \/ \E call \in calls :
          \/ AnswerDevices(call) \/ ApplyList(call) \/ SaveList(call)
          \/ AnswerLoad(call) \/ SaveText(call)
          \/ HearDevices(call) \/ HearDone(call) \/ HearConfig(call)
          \/ CallLost(call)
    \/ \E list \in puts : SetAllow(list)
    \/ Restart

SettingsSpec == SettingsInit /\ [][SettingsNext]_settingsVars

----------------------------------------------------------------------------
\* No keyboard goes silent by the way: an entry that was in the list is still in
\* it unless it matched a port the user took the tick from, was taken out of the
\* text by hand, or missing from a text that was saved before it was loaded,
\* whatever is plugged in while the list is edited, saved or read back
\* (MIDIDevicesCard.tsx:67-80, 101-104, ConfigCard.tsx:19-67).
NothingSlips ==
    \A e \in onceThere \ allowed :
        e \in struck \/ \E port \in unticked : allowMatches(e, port)

\* When no save is half done, the live list is the file's: only an apply for
\* the session, a text saved for the next start, or two saves that crossed make
\* them differ (mididevices.go:67-72, a save that fails applies nothing).
LiveIsSaved == (puts = {} /\ ~sessionOnly) => allowed = config.list
=============================================================================
