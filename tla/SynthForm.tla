------------------------------ MODULE SynthForm ------------------------------
(***************************************************************************)
(* The native synth's card (web/components/SynthCard.tsx): a form made of  *)
(* whatever block of parameters the daemon sends, with a slider, a select  *)
(* or a toggle for each leaf of it. What the user does is shown from the   *)
(* widget's own state for a moment and from the daemon's block after that. *)
(***************************************************************************)
EXTENDS Integers, Sequences, TLC

CONSTANTS
    Blocks,    \* the synth block of each native patch, at the start
    Sampled,   \* the patches without one
    SynthOps   \* bound on what the user and others do

NoBlock == [none |-> TRUE]
NoPatch == "no patch"

ASSUME BlocksAssumption == DOMAIN Blocks # {} /\ DOMAIN Blocks \cap Sampled = {}
ASSUME SynthOpsAssumption == SynthOps \in Nat

VARIABLES
    synth,        \* the block the page has, or NoBlock
    synthPatch,   \* the patch the page shows
    localValue,   \* what widgets show of their own, by path
    sendTimer,    \* what sliders will send, by path
    synthNet,     \* edits on their way to the daemon, each a path and a value
    clicks,       \* patches selected on the page, on their way likewise
    synthEvents,  \* its events on their way to the page
    synthConn,    \* the page's stream: "down", "subscribed" or, with its snapshot, "live"
    voice,        \* the daemon's patch
    sounding,     \* the one loaded last, which a failed load goes back to
    cached,       \* the block that was applied last and that edits change
    blocks,       \* the stored ones
    astray,       \* something the page was not told, and no whole block since
    synthOps

widgets == <<localValue, sendTimer>>
form == <<synth, synthPatch, widgets>>
synthDaemon == <<voice, sounding, cached, blocks>>
synthVars ==
    <<form, synthNet, clicks, synthEvents, synthConn, synthDaemon, astray, synthOps>>

----------------------------------------------------------------------------
\* Leaves are numbers; of strings and truth values only which one matters.
\* Sliders are in ten-thousandths of their unit.

NumSpec(min, max, step) == [min |-> min, max |-> max, step |-> step]
GENERIC == NumSpec(0, 10000, 100)
Times == {"filter_env", "amp_env"} \X {"attack", "decay", "release"}

\* The fractions of the table are as what is not in it.
RANGES(key) ==
    CASE key = <<"resonance">> -> NumSpec(0, 9500, 50)
      [] key = <<"glide">> -> NumSpec(0, 50000, 100)
      [] key = <<"pulse_width">> -> NumSpec(500, 9500, 50)
      [] key = <<"bend_range">> -> NumSpec(0, 120000, 5000)
      [] key \in Times -> NumSpec(0, 100000, 10)
      [] key = <<"lfo", "rate_hz">> -> NumSpec(500, 200000, 500)
      [] key = <<"lfo", "to_pitch_cents">> -> NumSpec(0, 1000000, 10000)
      [] key = <<"lfo", "to_cutoff_oct">> -> NumSpec(0, 20000, 100)
      [] key = <<"osc", "detune_cents">> -> NumSpec(-1000000, 1000000, 10000)
      [] OTHER -> GENERIC

\* Strings with a known list of values, and numbers picked from a list.
ENUMS ==
    [k \in {<<"osc", "wave">>, <<"lfo", "wave">>, <<"voice_mode">>} |->
        CASE k = <<"osc", "wave">> -> {"saw", "square", "pulse"}
          [] k = <<"lfo", "wave">> -> {"triangle", "saw", "square", "sh"}
          [] k = <<"voice_mode">> -> {"mono_legato", "mono_retrig", "poly"}]
INT_SELECTS == [k \in {<<"osc", "octave">>} |-> -2 .. 2]

\* The fields of the block that are groups, rows of groups, and truth values.
Groups == {"filter_env", "amp_env", "vel_routing", "lfo"}
Arrays == {"osc"}
Toggles == {<<"oversample">>}

\* The leaves a widget is drawn for: none is for a row's text `patch`.
PathsOf(block) ==
    {<<f>> : f \in DOMAIN block \ (Groups \cup Arrays)}
    \cup (UNION {{<<g, leaf>> : leaf \in DOMAIN block[g]} :
                    g \in DOMAIN block \cap Groups})
    \cup (UNION {UNION {{<<a, i, leaf>> : leaf \in DOMAIN block[a][i] \ {"patch"}} :
                           i \in DOMAIN block[a]} : a \in DOMAIN block \cap Arrays})

At(block, p) ==
    CASE Len(p) = 1 -> block[p[1]]
      [] Len(p) = 2 -> block[p[1]][p[2]]
      [] Len(p) = 3 -> block[p[1]][p[2]][p[3]]
Set(block, p, v) ==
    CASE Len(p) = 1 -> [block EXCEPT ![p[1]] = v]
      [] Len(p) = 2 -> [block EXCEPT ![p[1]][p[2]] = v]
      [] Len(p) = 3 -> [block EXCEPT ![p[1]][p[2]][p[3]] = v]

\* Rows share their hints: the index of a row is no part of the key.
Key(p) == IF Len(p) = 3 THEN <<p[1], p[3]>> ELSE p

\* What the card draws for a leaf.
IsSelect(p) ==
    \/ Key(p) \in DOMAIN ENUMS
    \/ Len(p) = 3 /\ Key(p) \in DOMAIN INT_SELECTS
IsSlider(p) == ~IsSelect(p) /\ p \notin Toggles
IsNumber(p) == p \notin Toggles /\ Key(p) \notin DOMAIN ENUMS
SpecOf(p) == RANGES(Key(p))
Choices(p) ==
    IF p \in Toggles THEN BOOLEAN
    ELSE IF Key(p) \in DOMAIN ENUMS THEN ENUMS[Key(p)] ELSE INT_SELECTS[Key(p)]

\* The daemon's own limits: an envelope's times are never quite 0.
Limits(key) ==
    CASE key = <<"resonance">> -> <<0, 9500>>
      [] key = <<"glide">> -> <<0, 50000>>
      [] key = <<"pulse_width">> -> <<500, 9500>>
      [] key = <<"bend_range">> -> <<0, 120000>>
      [] key \in Times -> <<1, 100000>>
      [] key = <<"lfo", "rate_hz">> -> <<500, 200000>>
      [] key = <<"lfo", "to_pitch_cents">> -> <<0, 1000000>>
      [] key = <<"lfo", "to_cutoff_oct">> -> <<0, 20000>>
      [] key = <<"osc", "detune_cents">> -> <<-1000000, 1000000>>
      [] key = <<"osc", "octave">> -> <<-2, 2>>
      [] OTHER -> <<0, 10000>>

clampRange(p, v) ==
    LET span == Limits(Key(p))
    IN  IF v < span[1] THEN span[1] ELSE IF v > span[2] THEN span[2] ELSE v

\* A block has the fields of any other, and what sliders show of it is within
\* the daemon's limits: it is clamped as the patch is selected.
IsBlock(b) ==
    LET any == Blocks[CHOOSE q \in DOMAIN Blocks : TRUE]
    IN  /\ b = [f \in DOMAIN any |-> b[f]]
        /\ \A g \in DOMAIN any \cap Groups : b[g] = [leaf \in DOMAIN any[g] |-> b[g][leaf]]
        /\ \A a \in DOMAIN any \cap Arrays :
              /\ b[a] = [i \in DOMAIN any[a] |-> b[a][i]]
              /\ \A i \in DOMAIN any[a] :
                    b[a][i] = [leaf \in DOMAIN any[a][i] |-> b[a][i][leaf]]
        /\ \A p \in PathsOf(any) :
              IsSlider(p) => At(b, p) \in Limits(Key(p))[1] .. Limits(Key(p))[2]

ASSUME BlockAssumption ==
    \A q \in DOMAIN Blocks :
        /\ IsBlock(Blocks[q]) /\ "none" \notin DOMAIN Blocks[q]
        /\ \A a \in DOMAIN Blocks[q] \cap Arrays : \A i \in DOMAIN Blocks[q][a] :
              "patch" \notin DOMAIN Blocks[q][a][i]

----------------------------------------------------------------------------
\* What is known of some keys put over what was.
Spread(old, new) ==
    [k \in DOMAIN old \cup DOMAIN new |-> IF k \in DOMAIN new THEN new[k] ELSE old[k]]

\* One event merged into the page's block (synthMerge.ts): of a row the leaves
\* it names, of a group likewise, anything else as a whole.

\* An applySynthEvent that counts the rows from 1, the daemon from 0.
applySynthEvent_NextRow(block, e) ==
    IF "index" \in DOMAIN e
    THEN IF e.index + 1 \in DOMAIN block[e.field]
         THEN [block EXCEPT ![e.field][e.index + 1] = Spread(@, e.value)] ELSE block
    ELSE IF e.field \in Groups
    THEN [block EXCEPT ![e.field] = Spread(@, e.value)]
    ELSE [block EXCEPT ![e.field] = e.value]

applySynthEvent(block, e) ==
    IF "index" \in DOMAIN e
    THEN IF e.index \in DOMAIN block[e.field]
         THEN [block EXCEPT ![e.field][e.index] = Spread(@, e.value)] ELSE block
    ELSE IF e.field \in Groups
    THEN [block EXCEPT ![e.field] = Spread(@, e.value)]
    ELSE [block EXCEPT ![e.field] = e.value]

\* What is announced of an edit in patch q: all of the group or row that the
\* leaf is in. The name of the patch rides along, and of a row's event the page
\* merges all there is.
SynthEventOf(q, block, p) ==
    CASE Len(p) = 1 -> [field |-> p[1], value |-> block[p[1]]]
      [] Len(p) = 2 -> [field |-> p[1], value |-> block[p[1]]]
      [] Len(p) = 3 -> [field |-> p[1], index |-> p[2],
                        value |-> Spread(block[p[1]][p[2]], [patch |-> q])]

PatchEvent(q, block) == [patch |-> q, synth |-> block]
SnapshotEvent == [patch |-> voice, synth |-> cached, snapshot |-> TRUE]

\* In the place of an event that was dropped, and of one without data.
Gap == [gap |-> TRUE]

----------------------------------------------------------------------------
NoValues == [p \in {} |-> 0]
Put(f, p, v) == Spread(f, [x \in {p} |-> v])
Forget(f, p) == [x \in DOMAIN f \ {p} |-> f[x]]

SynthInit ==
    /\ voice \in DOMAIN Blocks \cup Sampled /\ sounding = voice
    /\ blocks = Blocks
    /\ \E q \in DOMAIN Blocks : cached = Blocks[q] /\ (voice \in DOMAIN Blocks => q = voice)
    /\ synthPatch = NoPatch /\ synth = NoBlock
    /\ localValue = NoValues /\ sendTimer = NoValues
    /\ synthNet = {} /\ clicks = {} /\ synthEvents = <<>>
    /\ synthConn = "down" /\ astray = TRUE
    /\ synthOps = 0

Act == synthOps < SynthOps /\ synthOps' = synthOps + 1
CardShown == synthPatch \in DOMAIN Blocks /\ synth # NoBlock

\* A slider moves: its value shows at once and is sent when it has rested for
\* 100 ms. A select or a toggle sends at once.
Slide(p, v) ==
    /\ Act /\ CardShown
    /\ IsSlider(p) /\ v \in {SpecOf(p).min, SpecOf(p).max}
    /\ localValue' = Put(localValue, p, v)
    /\ sendTimer' = Put(sendTimer, p, v)
    /\ UNCHANGED <<synth, synthPatch, synthNet, clicks, synthEvents, synthConn, synthDaemon,
                   astray>>

Choose(p, v) ==
    /\ Act /\ CardShown
    /\ ~IsSlider(p) /\ v \in Choices(p)
    /\ localValue' = Put(localValue, p, v)
    /\ synthNet' = synthNet \cup {<<p, v>>}
    /\ UNCHANGED <<synth, synthPatch, sendTimer, clicks, synthEvents, synthConn, synthDaemon,
                   astray>>

SendFires(p) ==
    /\ sendTimer' = Forget(sendTimer, p)
    /\ synthNet' = synthNet \cup {<<p, sendTimer[p]>>}
    /\ UNCHANGED <<synth, synthPatch, localValue, clicks, synthEvents, synthConn, synthDaemon,
                   astray, synthOps>>

\* The longer timer, restarted by the same moves: back to the daemon's value.
HoldEnds(p) ==
    /\ p \notin DOMAIN sendTimer
    /\ localValue' = Forget(localValue, p)
    /\ UNCHANGED <<synth, synthPatch, sendTimer, synthNet, clicks, synthEvents, synthConn,
                   synthDaemon, astray, synthOps>>

----------------------------------------------------------------------------
\* The daemon: it clamps, keeps and announces, to a page with a stream; without
\* a native patch it refuses.
TellPage(e) ==
    /\ synthEvents' = IF synthConn = "down" THEN synthEvents ELSE Append(synthEvents, e)
    /\ astray' = (astray \/ synthConn = "down")

\* The edited block becomes the patch's.
Store(p, v) ==
    LET kept == IF IsNumber(p) THEN clampRange(p, v) ELSE v
        block == Set(cached, p, kept)
    IN  /\ cached' = block
        /\ blocks' = [blocks EXCEPT ![voice] = block]
        /\ TellPage(SynthEventOf(voice, block, p))

TakeEdit(m) ==
    /\ synthNet' = synthNet \ {m}
    /\ IF voice \in DOMAIN Blocks
       THEN Store(m[1], m[2])
       ELSE UNCHANGED <<cached, blocks, synthEvents, astray>>
    /\ UNCHANGED <<form, clicks, synthConn, voice, sounding, synthOps>>

\* The request fails: nothing on the page looks at the answer.
EditLost(m) ==
    /\ synthNet' = synthNet \ {m}
    /\ UNCHANGED <<form, clicks, synthEvents, synthConn, synthDaemon, astray, synthOps>>

\* A knob of the keyboard moves the same parameter, to its end or past it.
KnobEdit(p, v) ==
    /\ Act
    /\ IsSlider(p)
    /\ Store(p, v)
    /\ UNCHANGED <<form, synthNet, clicks, synthConn, voice, sounding>>

Play(q) ==
    /\ voice' = q
    /\ cached' = IF q \in DOMAIN Blocks THEN blocks[q] ELSE cached
    /\ TellPage(PatchEvent(q, IF q \in DOMAIN Blocks THEN blocks[q] ELSE NoBlock))
    /\ UNCHANGED <<form, synthNet, synthConn, sounding, blocks>>
TakeClick(q) == Play(q) /\ clicks' = clicks \ {q} /\ UNCHANGED synthOps
PedalSelect(q) == Act /\ Play(q) /\ UNCHANGED clicks

\* A select fails or is refused: the page shows a patch that is not played.
ClickLost(q) ==
    /\ clicks' = clicks \ {q}
    /\ astray' = TRUE
    /\ UNCHANGED <<form, synthNet, synthEvents, synthConn, synthDaemon, synthOps>>

\* The patch is loaded, or could not be: then the registry goes back. Neither
\* event has data, but only in the second case is there something to learn.
PatchLoads ==
    /\ voice # sounding
    /\ sounding' = voice
    /\ UNCHANGED <<form, synthNet, clicks, synthEvents, synthConn, voice, cached, blocks,
                   astray, synthOps>>
PatchFails ==
    /\ voice # sounding
    /\ voice' = sounding
    /\ TellPage(Gap)
    /\ UNCHANGED <<form, synthNet, clicks, synthConn, sounding, cached, blocks, synthOps>>

----------------------------------------------------------------------------
\* The stream: the daemon subscribes the page, and writes the snapshot before
\* what was announced since.
SynthConnect ==
    /\ synthConn = "down"
    /\ synthConn' = "subscribed"
    /\ UNCHANGED <<form, synthNet, clicks, synthEvents, synthDaemon, astray, synthOps>>

SynthSnapshot ==
    /\ synthConn = "subscribed"
    /\ synthConn' = "live"
    /\ synthEvents' = <<SnapshotEvent>> \o synthEvents
    /\ UNCHANGED <<form, synthNet, clicks, synthDaemon, astray, synthOps>>

SynthStreamLost ==
    /\ synthConn # "down"
    /\ synthConn' = "down" /\ synthEvents' = <<>>
    /\ astray' = (astray \/ synthEvents # <<>>)
    /\ UNCHANGED <<form, synthNet, clicks, synthDaemon, synthOps>>

\* Changes of any other kind fill the hub's queue, which drops its oldest: all
\* before it is written already.
SynthDropped(k) ==
    /\ synthEvents[k] # Gap /\ "snapshot" \notin DOMAIN synthEvents[k]
    /\ synthEvents' = [synthEvents EXCEPT ![k] = Gap]
    /\ UNCHANGED <<form, synthNet, clicks, synthConn, synthDaemon, astray, synthOps>>

----------------------------------------------------------------------------
\* The page shows a patch: the card of a patch without a block is not mounted,
\* and what its widgets held is gone, what they had yet to send with it.
Show(q) ==
    /\ synthPatch' = q
    /\ IF q \in DOMAIN Blocks THEN UNCHANGED widgets
       ELSE localValue' = NoValues /\ sendTimer' = NoValues

\* It lists patches once it was told of them.
ClickPatch(q) ==
    /\ Act /\ synthPatch # NoPatch
    /\ Show(q)
    /\ clicks' = clicks \cup {q}
    /\ UNCHANGED <<synth, synthNet, synthEvents, synthConn, synthDaemon, astray>>

HearPatch(e) ==
    /\ Show(e.patch)
    /\ synth' = IF e.synth = NoBlock THEN synth ELSE e.synth
    /\ astray' = (astray /\ e.synth = NoBlock)
HearEdit(e) ==
    /\ synth' = IF synth = NoBlock THEN synth ELSE applySynthEvent(synth, e)
    /\ UNCHANGED <<synthPatch, widgets, astray>>

\* On an event without data the page's handler fails before it does anything.
HearSynth ==
    /\ synthConn = "live" /\ synthEvents # <<>>
    /\ synthEvents' = Tail(synthEvents)
    /\ LET e == Head(synthEvents)
       IN  \/ e = Gap /\ astray' = TRUE /\ UNCHANGED form
           \/ "patch" \in DOMAIN e /\ HearPatch(e)
           \/ e # Gap /\ "patch" \notin DOMAIN e /\ HearEdit(e)
    /\ UNCHANGED <<synthNet, clicks, synthConn, synthDaemon, synthOps>>

SynthNext ==
    \/ \E p \in PathsOf(synth) :
          \/ \E v \in {SpecOf(p).min, SpecOf(p).max} : Slide(p, v)
          \/ ~IsSlider(p) /\ \E v \in Choices(p) : Choose(p, v)
    \/ \E p \in DOMAIN sendTimer : SendFires(p)
    \/ \E p \in DOMAIN localValue : HoldEnds(p)
    \/ \E m \in synthNet : TakeEdit(m) \/ EditLost(m)
    \/ /\ voice \in DOMAIN Blocks
       /\ \E p \in PathsOf(cached), v \in {-2000000, 2000000} : KnobEdit(p, v)
    \/ \E q \in clicks : TakeClick(q) \/ ClickLost(q)
    \/ \E q \in DOMAIN Blocks \cup Sampled : PedalSelect(q) \/ ClickPatch(q)
    \/ PatchLoads \/ PatchFails
    \/ SynthConnect \/ SynthSnapshot \/ SynthStreamLost
    \/ \E k \in DOMAIN synthEvents : SynthDropped(k)
    \/ HearSynth

SynthSpec == SynthInit /\ [][SynthNext]_synthVars

----------------------------------------------------------------------------
Shown(p) == IF p \in DOMAIN localValue THEN localValue[p] ELSE At(synth, p)

\* When nothing is under way, the card shows the block the daemon plays, every
\* widget of it and no other, and each slider can stand where its value is: the
\* next drag of it starts from there (SynthCard.tsx against controls.go). Not so
\* where something was kept from the page - a select it showed at once was lost
\* or refused, a load failed, an event was dropped or went with the stream - and
\* no whole block has come since, with a native patch or a new connection.
SynthAgrees ==
    (/\ synthNet = {} /\ clicks = {} /\ synthEvents = <<>> /\ localValue = NoValues
     /\ voice \in DOMAIN Blocks /\ ~astray)
    => /\ synthPatch = voice /\ PathsOf(synth) = PathsOf(cached)
       /\ \A p \in PathsOf(synth) :
             /\ Shown(p) = At(cached, p)
             /\ IsSlider(p) => Shown(p) \in SpecOf(p).min .. SpecOf(p).max
=============================================================================
