-------------------------------- MODULE Dw2Sfx --------------------------------
(***************************************************************************)
(* The sound effects, core/sfx.c: a game thread plays cues, and the audio  *)
(* thread mixes the voices they are made of, a buffer at a time, under the *)
(* lock of the device.  What a voice sounds like is left out: it waits,    *)
(* plays for its length, and is gone, and it may lose its slot to another. *)
(*                                                                         *)
(* Times are in milliseconds, where the code counts frames.                *)
(***************************************************************************)
EXTENDS Integers, Sequences, FiniteSets, SequencesExt

CONSTANTS
  MaxVoices,   \* DW2_SFX_MAX_VOICES
  Cues,        \* the cues that are played
  Delays,      \* the start offsets they are played with, Dw2SfxOpts.delay_ms
  Buffers,     \* how much is rendered at a time
  MaxPlays     \* a bound of the model: cues played

VARIABLES
  voices,    \* V: slot by slot
  muted,
  stopping,  \* set_muted has set the flag, and not yet stopped the voices
  open,      \* open_dev
  offline,   \* sounds are rendered without a device
  plays      \* how many cues have been played

vars == <<voices, muted, stopping, open, offline, plays>>

RenderMax == 93    \* dw2_sfx_render mixes 4096 frames at a time, of 44100 in a second

\* Priorities.
Ambience == 0
Armor    == 1
Hull     == 2
Weapon   == 3
Clash    == 4

At(prio, delay, len) == [prio |-> prio, delay |-> delay, len |-> len]
\* chord and the loops of notes: n voices, each gap after the one before.
Notes(n, prio, from, gap, len) == [i \in 1 .. n |-> At(prio, from + gap * (i - 1), len)]

\* cue: the voices of a cue.
Voicing ==
  [UI_TICK      |-> <<At(Ambience, 0, 30)>>,
   PLACE        |-> <<At(Ambience, 0, 45), At(Ambience, 45, 60)>>,
   PLACE_REJECT |-> <<At(Ambience, 0, 90), At(Ambience, 25, 90)>>,
   CUT_REJECT   |-> <<At(Ambience, 0, 90), At(Ambience, 25, 90)>>,
   PANIC_CUT    |-> <<At(Hull, 0, 90), At(Hull, 0, 100)>>
                    \o Notes(4, Hull, 60, 45, 50),
   READY        |-> <<At(Ambience, 0, 140), At(Ambience, 90, 220)>>,
   MATCH_FOUND  |-> <<At(Ambience, 0, 50), At(Ambience, 70, 70)>>,
   COMBAT_START |-> <<At(Clash, 0, 600), At(Clash, 60, 650), At(Clash, 100, 500)>>,
   WEAPON_FIRE  |-> <<At(Weapon, 0, 140), At(Weapon, 140, 90), At(Weapon, 150, 160),
                      At(Weapon, 150, 100)>>,
   HULL_HIT     |-> <<At(Hull, 0, 220), At(Hull, 0, 200)>>,
   ARMOR_GAIN   |-> <<At(Armor, 0, 220), At(Armor, 0, 100), At(Armor, 95, 30),
                      At(Armor, 95, 80)>>,
   SHATTER      |-> <<At(Clash, 0, 500), At(Clash, 20, 500), At(Clash, 520, 350),
                      At(Clash, 520, 400)>>,
   MATCH_WIN    |-> Notes(3, Clash, 0, 0, 900)
                    \o Notes(4, Clash, 620, 0, 1200)
                    \o Notes(5, Clash, 660, 55, 300),
   MATCH_LOSE   |-> Notes(4, Clash, 0, 90, 400) \o <<At(Clash, 0, 600)>>,
   MATCH_TIE    |-> Notes(2, Clash, 0, 0, 700)]

SfxAssumption ==
  /\ MaxVoices \in Nat \ {0} /\ MaxPlays \in Nat
  /\ Cues \subseteq DOMAIN Voicing /\ Delays \subseteq Nat /\ Buffers \subseteq Nat \ {0}

Slots  == 1 .. MaxVoices
Idle   == [active |-> FALSE]
Silent == [i \in Slots |-> Idle]

\* A voice, with the cue and note it is of.
Voice(id, note) ==
  [active |-> TRUE, id |-> id, prio |-> note.prio, start |-> note.delay,
   delay |-> note.delay, age |-> 0, len |-> note.len]

\* The voices of the n-th cue played.
VoicesOf(n, cue, delay) ==
  LET notes == Voicing[cue]
  IN [i \in DOMAIN notes |-> Voice(<<n, i>>, [notes[i] EXCEPT !.delay = @ + delay])]

Sounding(v) == {v[i] : i \in {j \in DOMAIN v : v[j].active}}

-----------------------------------------------------------------------------

Init ==
  /\ voices = Silent /\ muted = FALSE /\ stopping = FALSE /\ open = FALSE
  /\ offline = FALSE /\ plays = 0

\* Mutant: the oldest voice makes room, whatever its priority.
Victim_Oldest(v) ==
  CHOOSE i \in Slots : \A j \in Slots : v[i].age > v[j].age \/ (v[i].age = v[j].age /\ i <= j)

\* Of the voices with the lowest priority the oldest, and of those the first.
Victim(v) ==
  CHOOSE i \in Slots : \A j \in Slots :
    \/ v[i].prio < v[j].prio
    \/ v[i].prio = v[j].prio /\ v[i].age > v[j].age
    \/ v[i].prio = v[j].prio /\ v[i].age = v[j].age /\ i <= j

add_voice(v, new) ==
  LET free == {i \in Slots : ~v[i].active}
  IN IF free # {} THEN [v EXCEPT ![CHOOSE i \in free : \A j \in free : i <= j] = new]
     ELSE IF v[Victim(v)].prio >= new.prio THEN v
     ELSE [v EXCEPT ![Victim(v)] = new]

\* dw2_sfx_play, under the lock.
Play(cue, delay) ==
  /\ plays < MaxPlays /\ ~stopping /\ plays' = plays + 1
  /\ voices' = IF (open \/ offline) /\ ~muted
               THEN FoldLeft(add_voice, voices, VoicesOf(plays, cue, delay)) ELSE voices
  /\ UNCHANGED <<muted, stopping, open, offline>>

\* mix_frames, for one voice and n frames: it waits, plays, and after its last
\* frame is found to be over.
Mixed(v, n) ==
  IF ~v.active THEN v
  ELSE IF n <= v.delay THEN [v EXCEPT !.delay = @ - n]
  ELSE LET age == v.age + n - v.delay
       IN IF age > v.len THEN Idle ELSE [v EXCEPT !.delay = 0, !.age = age]

\* dw2_sfx_render: a buffer is mixed in pieces.
Pieces(n) == [k \in 1 .. n \div RenderMax |-> RenderMax] \o <<n % RenderMax>>
Rendered(v, n) == FoldLeft(Mixed, v, Pieces(n))

\* audio_cb, under the lock, or a caller that renders offline.
Mix ==
  /\ open \/ offline
  /\ \E n \in Buffers : voices' = [i \in Slots |-> Rendered(voices[i], n)]
  /\ UNCHANGED <<muted, stopping, open, offline, plays>>

\* dw2_sfx_set_muted: the flag first, and then dw2_sfx_stop_all, under the lock.
SetMuted(m) ==
  /\ ~stopping /\ muted # m /\ muted' = m /\ stopping' = m
  /\ UNCHANGED <<voices, open, offline, plays>>

StopAll ==
  /\ stopping /\ stopping' = FALSE /\ voices' = Silent
  /\ UNCHANGED <<muted, open, offline, plays>>

\* dw2_sfx_open, if there is a device, and dw2_sfx_close, which leaves the voices.
Open  == ~stopping /\ ~open /\ open' = TRUE  /\ UNCHANGED <<voices, muted, stopping, offline, plays>>
Close == ~stopping /\ open  /\ open' = FALSE /\ UNCHANGED <<voices, muted, stopping, offline, plays>>

\* dw2_sfx_offline_begin and dw2_sfx_offline_end both drop every voice.
Offline(on) ==
  /\ ~stopping /\ offline # on /\ offline' = on /\ voices' = Silent
  /\ UNCHANGED <<muted, stopping, open, plays>>

Next ==
  \/ \E cue \in Cues, delay \in Delays : Play(cue, delay)
  \/ \E m \in BOOLEAN : SetMuted(m)
  \/ \E on \in BOOLEAN : Offline(on)
  \/ StopAll \/ Open \/ Close \/ Mix

\* The device asks for its next buffer as long as it is open.
Spec == Init /\ [][Next]_vars /\ WF_vars(Mix) /\ WF_vars(StopAll)

-----------------------------------------------------------------------------
(* Properties.                                                             *)

\* A slot is idle or holds a voice that waits or plays, and is not past its end.
SfxTypeOK ==
  /\ muted \in BOOLEAN /\ stopping \in BOOLEAN /\ open \in BOOLEAN
  /\ offline \in BOOLEAN /\ plays \in 0 .. MaxPlays
  /\ DOMAIN voices = Slots
  /\ \A v \in Sounding(voices) :
       v.age \in 0 .. v.len /\ v.delay \in 0 .. v.start /\ (v.delay = 0 \/ v.age = 0)

\* The voices a step begins, if it plays a cue.
Begun(cue, delay) == ToSet(VoicesOf(plays, cue, delay))

\* "Priorities decide which voices survive when the voice cap is hit" (core/sfx.h):
\* of the voices that sounded and those of the new cue, one is dropped only if
\* every slot is taken, by voices none of which matters less.
PrioritiesDecide ==
  [][\A cue \in Cues, delay \in Delays : Play(cue, delay) /\ (open \/ offline) /\ ~muted =>
       \A lost \in (Sounding(voices) \cup Begun(cue, delay)) \ Sounding(voices') :
         /\ Cardinality(Sounding(voices')) = MaxVoices
         /\ \A kept \in Sounding(voices') : kept.prio >= lost.prio]_vars

\* A cue takes nothing from one that matters as much, nor from itself: its later
\* notes never cut its earlier ones.
NoEqualCut ==
  [][\A cue \in Cues, delay \in Delays : Play(cue, delay) =>
       \A lost \in Sounding(voices) \ Sounding(voices'), new \in Begun(cue, delay) :
         lost.prio < new.prio]_vars

\* The notes of a cue keep their time to each other, over buffers of any length,
\* until they end or are cut.
CueKeepsTime ==
  \A v, w \in Sounding(voices) :
    v.id[1] = w.id[1] => v.start + v.age - v.delay = w.start + w.age - w.delay

\* Nothing sounds, or waits to, once the sound has been turned off.
MutedIsSilent == muted /\ ~stopping => Sounding(voices) = {}

\* A device that stays open falls silent: no voice keeps its slot for good.
FallsSilent == <>[]open => <>[](Sounding(voices) = {})
=============================================================================
