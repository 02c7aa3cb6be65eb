# TLA+ models of DEADWEIGHT 2

This directory models, checks and proves properties of DEADWEIGHT 2 (D2), a
two-player game: each player packs a ship with parts on a grid, then a server
fights the two ships second by second, with short skill breaks ("round
breaks") between rounds. Everything here is translated from the C sources;
paths below are relative to the repository's root.

## The system

| part | state it keeps | operations | hard behaviour |
| --- | --- | --- | --- |
| match server, `apps/server/main.c` | `conns[64]` (state, kind, match, seat, place in the queue, `close_after_flush`), `matches[32]` (players, ready flags, ships, clock, break and calls) | accept, HELLO, AUTH, QUEUE, PLACE, READY, ROUND_CALL, LEAVE, disconnect, sweep, `expire_timers`, signal, shutdown | one handler moves two connections and a match; any send may drop its reader; deadlines race messages; slots are reused |
| IDUNA worker, `main.c:74-131`, `438-483` | job ring, result ring, stop flag, wake pipe | verify, report, drain, stop | a second thread; late results for reused slots; full rings; draining at shutdown |
| round break, `core/round.c` | none (pure) | target, standing, grade, apply | receipt time against a deadline, inclusive thresholds, unsigned difference |
| combat engine, `core/combat.c` | a ship: cells, parts, charge, heat, biomass, hull, shield, multiplier | place, start, power, resolve, upkeep, result | simultaneous volleys, alternating order, part and hull deaths inside a second |
| circuit, `core/combat.c:213-425` | power per part, live loop and its age | trace, Back-EMF, charge | a loop that changes shape, caps, burn on the fourth second |
| parts and grid, `core/items.c`, `core/grid.h` | catalog, bit masks | shapes, placement, budget, split | bounds, rotation, overlap, two budgets |
| wire, `core/protocol.c`, `core/net.h` | none; buffers belong to the connection | encode, payload size, decode, send, recv | frames cut across reads, lengths, unknown types, full buffers |
| bot pool, `apps/bot/main.c` | one state per bot, pool targets | connect, answer, retry, grow, shrink | a release racing a MATCH_FOUND, retries |
| client, `apps/client/main.c` | local copy of the ship and of the match, the guest file | greet, place, ready, call, react, save | a prediction racing the server, a run killed while it saves |
| IDUNA client, `core/iduna.c`, `core/http.c` | the agent's secret and a cached token | configure, login, verify, report, guest register and login | a token that expires, timeouts, replies cut anywhere |
| practice game, `apps/local/main.c` | mode, cursor, ship, clock | keys, a frame, the self-test | a clock that goes round |
| cannon bank, `core/cannon.c`, `cannon/` | none (generated) | decide | two signals packed into one state |
| sound effects, `core/sfx.c` | voices, muted, device | play, mix, mute, stop, open, close | the audio thread between any two calls, a full table of voices |
| scripted client, `tools/dw2_test_client.c` | its script | one request, one answer | messages that nobody asked for |

How they interact: the client and the bots speak the wire protocol with the
server over TCP; the server calls the combat engine and the round break as
pure functions on the ships of a match; the server's poll loop and the worker
share the two rings under one mutex, a condition variable and a pipe; the
worker calls IDUNA.  Nothing else is shared, and nothing is kept across a
restart but the guest file: a server that stops ends every match with reason
"server".

What makes each part correct, in a sentence:

* server: a connection and the match it plays name each other, matches begin
  by the pairing rule, end justly, once, and for the right reason, and no
  player, deadline or failing socket holds another player for ever;
* worker: a client gets the identity of the token it sent itself, every
  accepted report is attempted once, and a stop ends after them;
* round break: the grade is the distance to the target, and a call never made
  neither rewards nor punishes;
* combat: the outcome does not depend on which seat a ship sits in, a
  destroyed cell or hull stays destroyed, a Mender heals only the living;
* circuit: charge stays within its caps, and a closed loop, which is how a
  circuit fails, burns out only what is wired into it;
* packing: parts never overlap or leave the grid and both budgets hold;
* wire: decoding what was encoded gives it back, wherever the reads cut it;
* bots: a human always finds one, and a released bot was in no match;
* client: its copy of the ship and of the match is what the server holds once
  the answers under way have come;
* IDUNA client: a result that is called reported was recorded, once; a cut
  reply never makes a player someone else; a guest stays the same guest;
* practice: the duel the server would play, at the same pace;
* sound: priority alone decides what is cut, and everything ends.

## Modules

| module | models |
| --- | --- |
| `Dw2Server` | the poll loop of `apps/server/main.c` under `--no-auth` |
| `Dw2Hulls` | what the server sees of two ships in a fight, shared by `Dw2Server` and `Dw2Duel` |
| `Dw2ServerMC` | the module TLC runs the server from |
| `Dw2Server_proofs` | theorems about `Dw2Server` for every table size: the tables; the queue and pairing; the life and end of a match |
| `Dw2Worker`, `Dw2WorkerMC`, `Dw2Worker_proofs` | the server with IDUNA: worker thread, rings, wake pipe, verification, reports, shutdown |
| `Dw2Bot`, `Dw2BotMC`, `Dw2Bot_proofs` | the bot pool, `apps/bot/main.c`, against the server's side of its connections |
| `Dw2Grid` | the grid and the parts laid on it: rotation, cells, splitting, what makes a ship legal (`core/grid.h`, `core/items.c`) |
| `Dw2Catalog` | the parts of the game, `dw2_catalog` |
| `Dw2Pack`, `Dw2PackMC` | `dw2_ship_place`, which the server and the practice game call, and PLACE: `handle_place`, whatever a player asks for |
| `Dw2Fleet` | a packed ship as the fight reads it: owners, roles, guns, dodging; a ship that fights carries these maps (`AsRead`) |
| `Dw2Round` | target, grading and effect of a call of a round break, `core/round.c` |
| `Dw2Combat`, `Dw2Combat_proofs` | the fight, `core/combat.c`, and the breaks in it |
| `Dw2Cannon` | the program that says whether a charged gun fires |
| `Dw2Told` | the bytes in which the server tells hulls, shields and effects |
| `Dw2Duel` | the abstract fight: seconds, breaks and an end |
| `Dw2Fight` | the fight as the server sees it: that it implements `Dw2Duel` (proved in `Dw2Combat_proofs`) |
| `Dw2Mirror`, `Dw2MirrorMC` | a fight beside its twin with the seats exchanged |
| `Dw2Circuit` | the flow of power through a ship, and its closed loops |
| `Dw2Circuit_proofs` | theorems about `Dw2Circuit`, for every grid, catalog and ship |
| `Dw2Ships` | the ships TLC fights with and wires, and turns by half a turn |
| `Dw2Messages`, `Dw2Codec` | the messages and their frames, `core/protocol.c` |
| `Dw2Wire`, `Dw2WireMC`, `Dw2Wire_proofs` | the buffers of the server and the client and the socket between them |
| `Dw2Client`, `Dw2Tester`, `Dw2SessionMC`, `Dw2Client_proofs` | the game client, or the scripted tester, against the server's side of one seat |
| `Dw2Http`, `Dw2Iduna`, `Dw2Guest` | one HTTP exchange; the server's IDUNA client; the guest account of the game client |
| `Dw2Local` | the practice game |
| `Dw2Sfx` | the voices of the sound effects |
| `Dw2BenchMC`, `Dw2DeskMC` | instances of parts that do not meet, side by side: circuit and sound; IDUNA, guest and practice |
| `Dw2Desk_proofs` | theorems about `Dw2Pack` and the three parts of `Dw2DeskMC` |

`Dw2Combat` extends `Dw2Fleet` (which extends `Dw2Grid`) and `Dw2Round`;
`Dw2Local` extends `Dw2Pack` (which extends `Dw2Grid`) for the ship it packs and
fights the `Dw2Hulls` of the server; `Dw2Tester` sits before the server of
`Dw2Client`.
The catalog, like the grid's size and the budgets, is a constant of these
modules: `Dw2Catalog` gives it its value in the MC modules, and the proofs hold
for any.

### Dw2Server

One `poll()` loop owns all the server's state, so its iterations are the
model's steps and `phase`, `at` and `pairing` say where the loop stands:

| phase | code |
| --- | --- |
| `io` | accept and the reads, slot by slot (`main.c:680-688`); `at` is the slot being read, 0 before the first |
| `sweep` | closing what was marked (`690-692`) |
| `hello` | the start of `expire_timers`: `try_pair`, silent connections (`608-612`) |
| `matches` | the rest of `expire_timers`, one match slot a step (`613-619`) |
| `stopping`, `stopped` | the shutdown (`696-701`) |

`conns` and `matches` are the two tables.  A handler is one action, except
that `try_pair`'s loop takes a step for each match it starts: `pairing` is set
by whoever calls it, and nothing else of the server runs until `PairingDone`
(the clocks may).

What is abstracted:

* **Ships** are their hull, in levels `0 .. FullHull`.  A second of combat may
  leave a living hull at any level, in both directions (volleys and Menders),
  and never revives a destroyed one; this contains what `core/combat.c` does,
  so safety properties carry over.  A missed Overcharge takes one level at
  most: its cost is 8 % of a hull, 12.8 % at most, so that a whole ship
  survives several and `FullHull` is at least 2.  PLACE and PANIC_CUT change
  nothing but a ship's parts or send a reply, and so are not actions here.
* **Deadlines** are flags: `connDue` for a connection's hello timeout or human
  wait, `matchDue` for the one deadline a match has at a time.  A timer may
  fire at any moment, so the model has every relation of delays and loads.
* **`queued_seq`** is the order it induces: `ahead` holds the pairs of queued
  connections of which the first came first.
* **Sends** may fail for any subset of their recipients, which marks them
  `closing` (`close_after_flush`); the buffers themselves are left out.
* **Unused match slots** are cleared when the match ends and not when the slot
  is taken again.  Nothing reads them in between: `MatchesAgree` says so.
* **`lastEnd`** is a history variable: what the last `end_match` told the two
  seats, the reason, and the hulls it saw.  It is forgotten when the loop moves
  on, to keep the state space small.
* The authentication states are not reachable under `--no-auth`.

### Dw2Worker

Two threads.  The mutex covers short pieces that never block, so each piece is
one step, and a step of either thread may fall between any two of the other.

| variable | code |
| --- | --- |
| `phase`, `after` | where the poll loop stands; `drain_results` is called from two places (`main.c:683`, `694`) and `after` is where it returns to |
| `conns`, `closing`, `bouts` | the connection table, `close_after_flush`, the matches being played |
| `jobs`, `results`, `stop`, `pipe` | `jq`, `rq`, `worker_stop`, a byte in the wake pipe |
| `worker`, `held` | where `worker_main` stands, the job it took or the answer to it |
| `owed`, `reported` | history: the reports `end_match` had to make and had room for, and those the worker tried |

The worker goes `idle` (lock, test) to `waiting` (`pthread_cond_wait`, which
may also return for no reason), `working` (the call to IDUNA, mutex free),
`answering` (lock, result), `waking` (mutex free, `write` to the pipe), or
`gone` (stop flag and an empty ring; or `malloc` failed, if `Starves`).

What is abstracted:

* a **token** is the identity IDUNA would give for it, and what IDUNA answers
  to it is free (`Answers`): known, of the other kind, rejected, no answer;
* the **queue and the match** are those of `Dw2Server`, reduced to a bout that
  two ready connections are dealt and that ends by time, LEAVE, a disconnect or
  the sweep; `who` keeps the identities it was dealt with, so that
  `ReportsAccounted` can compare them with what is reported;
* the **handlers** of an iteration come in any order and any number, which
  contains the slot by slot order of `Dw2Server`;
* the **hello timeout** may run out at any iteration;
* `MaxSessions` and `MaxBouts` bound `next_session` and `next_match`.

### Dw2Bot

`bots` is the pool's table (`fd` as `link`, `retry_at # 0` as `retry`,
`ready_pending`, `call_pending`), and `links` the connections: the messages
under way in both directions and what the server has the connection as.  Each
call of `read_bot` for one message, each timer of `timers`, each scaling, and
each thing the server does with the connection is a step.

What is abstracted:

* **Time**: a pause (`retry_at`, `ready_at`, `call_at`) may be over at any
  moment, `quiet` says that no human was met for a minute and `calm` that
  nobody was released for ten seconds.  Bots are then read and timed in any
  order, which contains the loop's.
* **Messages** that change no state the pool acts on (TICK, EVENTS,
  ROUND_RESULT, the acknowledgements) are left out, and the PLACEs of a ship
  are one.
* **The server** deals, starts, breaks and ends matches freely, as `Dw2Server`
  may with some opponent; it refuses what it refuses in each state.
* **Failures**: `MaxCuts` connections break, by a restart or in the network;
  what was sent to them is lost, and a send to a closed connection fails or is
  swallowed, as TCP may do.  `Window` messages fit in the buffers of a
  direction: a bot that finds them full waits, the server drops the bot.
* **Which ship** is packed and which call is pressed.

### Dw2Grid and Dw2Pack

A cell is a row and a column, a mask a set of cells, a nibble of port bits a
set of sides.  `ShapeCells` is `dw2_shape_cells`: the shape turned, moved back
to the anchor, its ports turned with it.  `SplitPieces` is `dw2_split_pieces`;
`SplitAssumption` is what the table of `core/items.c` has of the parts that
split, before they are turned.
A ship is its parts in the order they were laid, its running cost and weight,
and the cells it takes; `Fits` says what a legal one is and `Tallied` that the
totals are those of the parts.  The state machine is one connection's PLACEs:
any item of the wire, existing or not, any anchor and rotation; `Place` when
the ship takes it, `Refuse` with the reply `handle_place` gives.  Duplicate or
late PLACEs are PLACEs.  Left out: the ports' meaning, which is the circuit's.

### Dw2Combat

| variable | code |
| --- | --- |
| `ship` | the packed ship of each seat, with its maps from cells to parts; no step changes it |
| `clock`, `phase` | `elapsed_ticks`; fighting, in a break, or over |
| `agenda` | the calls of `dw2_match_tick` still to make: power for both, resolve and upkeep in the second's order |
| `slug` | the railgun slug on its way through a lane (the loop of `dw2_shot_land`) |
| `todo` | the cells whose Mender or Aegis is still to work (the last loop of `dw2_ship_upkeep`) |
| `hull`, `shield`, `tally`, `mult` | `hull_pct`, `shield`, `evade_acc`, `dmg_mult` |
| `hp`, `dead` | `cell_hp`, `dead` |
| `charge`, `shots`, `damage`, `pin`, `loop` | `weapon_charge`, `shots`, `shot_dmg`, `pin`, the loop and its age |
| `told` | history: the hulls after the last second or break |

One step is one `dw2_ship_power`, one shot of a volley, one part a slug meets,
one upkeep, one repair, the end of a second (`run_tick`) or a break
(`resolve_round_break`).  Each follows from the state alone, except the power
and the calls.

What is abstracted:

* **The flow of power**: in a second, each sink that stands is fed one of its
  item's wattages (`Watts`), and the closed loop is none or any four or more
  living wires.  This contains what the wires can do for those wattages, and
  `Dw2Circuit` has what they do: its `LoopsAreWires` is what is taken of loops
  here.
* **Fractions**: HP, hull and damage are whole hundredths, rounded down;
  dodging is in tenths of a percent.  The C uses `float`; so a bound that
  holds here holds of it up to rounding, and no property compares fractions.
* **The cannon program** is a function of its two signals (`Program`); the run
  takes the shipped one, `Dw2Cannon!Fires(cannon_decision)`, and the theorems
  hold for any.
* **The receipt time** of a call and the target are free: a call may be graded
  in any way, and the hash behind `TargetMs` is any value.
* **A ship is packed before the fight**: the server refuses a PLACE once the
  fight has begun.
* **The event log** and the preview `dw2_lane_shots_to_open` change no state of
  the fight.

### Dw2Duel, Dw2Fight and Dw2Mirror

`Dw2Duel` is what a match server promises of a fight and `Dw2Server` assumes:
seconds that leave the hulls at any level but never revive one, a break after
every few, one level at most for a missed Overcharge, an end as soon as a
second leaves a wreck or reaches the timeout.  `DuelImplemented`, in
`Dw2Fight`, says that `Dw2Combat` implements it: a hull is mapped to one of
two levels by what the players were last told of it (0 is destroyed, 1 at most
half, 2 above), so the steps within a second stutter.

`Dw2Mirror` runs a fight and its twin, in which the ships sit in each other's
seats, with the same power and the same calls, second by second.  `SeatsAreFair`
then compares two executions, which no property of one fight can do.  Both fights
have the lengths, ships and answers of `Dw2Combat`; `FightIsFair` puts
`SeatsAreFair` together with `ToldTruly` and `BreaksCatchUp`.

`Dw2Told` says in what bytes the players see a fight (`hull_u8`, `clamp_u16`,
`send_tick`, `encode_round_effect`); `ToldTruly` compares them with the state
they are made from, at each state of `fight`.

### Dw2Circuit

A second of one ship's power: each living source in cell order lets go of what
it has (`Source`), and a stack of hand-offs, `walk`, stands for the recursion
of `dw2_deliver`: the next one is `Lost` (no cell, no wire, or no budget),
`Closes` a loop (the cell is on its own path), or `Feeds` the cell, which keeps
the power or passes it on.  `Bank` ends the second: what was fed is stored,
delayed or opens a gate, for the next one.  `NextSecond` may destroy a cell.

| variable | code |
| --- | --- |
| `walk` | the calls of `dw2_deliver` still to make, with `path` |
| `flow` | `Dw2Flow`: `pin`, `absorb`, `gate`, the loops, the budget; `gave` is history: what each source let go of |
| `store` | `cell_q`, `cell_q2`, `gate_open` |

Power is in milliwatts, rounded down at each split, where the C divides a
`float`.  `FlowBudget` is the code's 4096, and no ship of the run comes near
it; `LoopsFound` speaks of seconds that did not use it up.  Each circuit runs
beside its twin turned by half a turn, in which every loop over cells and sides
meets the parts in the opposite order (`OrderIsBlind`).  A Generator's own pin
is set, not added to, when its turn comes, so it depends on the order, and
nothing reads it.  Two peculiarities the model keeps: a Battery in a ring
breaks the loop, and a ring Battery, Amplifier, same Battery gains power from
second to second without Back-EMF, since what is stored begins a new path.

### Dw2Messages, Dw2Codec and Dw2Wire

`Dw2Messages` has the three lists of fields that `core/protocol.c` has:
`Written`, `Read` and `PayloadSize`.  `Dw2Codec` encodes and decodes with them,
byte by byte.  A 32-bit number is its two halves, for TLC's integers are
narrower.  Parts and events are the bytes of a message's tail.  `IsMessage` is
the struct `Dw2WireMsg`: what each field of each type may be; a name is what
stands before its first zero.  `EncodeIn` and `DecodeIn` take the limit on
frames as a parameter: `Dw2Wire` gives them its scaled one, the samples 512.

`Dw2Wire` is one connection between the server and a client: what was handed to
`send_msg` (`sent`), the server's output buffer (`out`), the sockets (`net`),
and both input buffers with the phase of the loop that reads them.  A `recv`
takes any of the sizes `Chunks` offers, a send what there is room for.  A
reader too slow is dropped with what is waiting; a client may end at any time,
also between two bytes of a frame.  What the messages say is free here.

The limits of the run are scaled down (a frame of 512 bytes to 8, `INBUF` 1024
to 10, `OUTBUF` 4096 to 10, the client's 4096 to 12), so that a buffer holds one
or two frames; every message is encoded and decoded at its real size beside it
(`Feed`: the decoder sees the message and the beginning of the next,
one byte more at a time).

### Dw2Client and Dw2Tester

Two queues of whole messages join the client and the server's side of its
connection; the opponent, the deadlines and the player's keys are free.  `me`
is the client's state, copy of the ship, `self_ready`, whether it is asked for a
call and `selftest_mode`; `srv` and `match` what the server has.  `Poll(n)` handles all that
has arrived, unless the connection ended behind it (`poll_incoming`): `OnMsgs` is
`handle_server_msg` of one message after the other, and `Tried` what a self-test
makes of its script when it is dealt a match.  A ship
is the set of its parts, and `Clash` the pairs of which the second is refused.
`MirrorAgrees` and `SidesAgree` say that the client's ship and state are what
the server's will be for it once the messages under way are counted in.  A
session has a token or not, is asked for one or not, and plays itself
(`--selftest`) or not.

`Dw2Tester` puts the scripted client before the same server: it waits for an
answer to each request, and `aim`s, reading nothing, for the target of a call.

### Dw2Http, Dw2Iduna and Dw2Guest

`dw2_http` reads a reply until the end, an error or a timeout, and takes what
has come for the reply: the set of outcomes is nothing, a cut status, the
status alone, or the status with any of the fields and one of them torn.
(`kind` of a verification may be cut too, which makes a bot a human; no
property speaks of it.)  `dw2_json_str` finds a whole value only, and leaves
the beginning of a torn one in the caller's buffer (`Left`).

`Dw2Iduna` is `dwi2_configure`, `dwi2_agent_login`, `dwi2_report` with its one
retry after a 401, and `dwi2_verify`.  IDUNA is external: tokens of an earlier
`era` are refused, a request may be carried out before or after its caller has
given up, a reply may be an error.  `trouble` is history: whether anything
failed during this call.  `RecordedOnce` excepts the calls with trouble, since
a report whose answer was lost is given up, and may have been recorded.

`Dw2Guest` is a run of the game client with `--iduna-url` and `--guest-file`:
launch, register or log in, save, play, and a kill at any point.  Without
`--guest-file` nothing is kept, and there is nothing to say.

### Dw2Local

Keys, frames and the self-test of the practice game.  `now` is SDL's clock,
modulo `Wrap`; `since`, history, is the true time since the last second.  A
frame is shorter than the clock's period less `TICK_MS` (frames of 1 and 3, a
period of 5, seconds of 2): the code's are 16 ms and 2^32 ms.  R turns the
selection, not the part (`apps/local/main.c:9` says no more).  Ships fight as
in `Dw2Hulls`.

### Dw2Sfx

`voices` is the table; a voice waits, plays and is gone, and `id` (history)
says of which cue and note it is.  The audio thread mixes (`Mix`) between any
two calls; `dw2_sfx_set_muted` takes two steps, for only the second takes the
lock.  Times are in milliseconds instead of frames.  No program of the
repository plays a sound yet: this is a library and its test bench.  A close
leaves the voices as they are, and a reopened device goes on with them.

### Runs

| run | instance | checks |
| --- | --- | --- |
| `duel` | server; 2 connections, 1 match, rounds of 2 s, 5 s at most, 2 drops, fair | `MatchesAgree`, `NoIdleWait`, `EndsAreJust`, `MatchesEnd`, `DroppedAreClosed`, `HumansGetBots` |
| `lobby` | server; 4 connections, 2 matches, 1 s at most, no drop | `HumansPairAtOnce`, `NoMatchShortage`, `NoOvertaking`, `BotKeptForHumans` |
| `survivor` | server; 2 connections, 1 match, 1 s at most | `SurvivorWins` is violated (see below) |
| `worker` | 2 slots, 2 sessions, rings of 1, 2 bouts, malloc may fail, fail-open, fair | `OwnIdentity`, `NoLostWakeup`, `ResultsAreSeen`, `ReportsAccounted`, `WaitsEnd` |
| `views` | 1 bot, 2 connections, windows of 3, 2 failures, fair | `ViewsAgree`, `BotsComeBack` |
| `pool` | 1 to 2 bots, 2 connections, windows of 1, 1 failure, fair scaling | `PoolBounds`, `DemandIsMet` |
| `pack` | 4x4 grid, 5 items of which 1 unknown, all anchors on the grid, 4 rotations, 330 credits, 14 tons | `PackTypeOK`, `RotationIsRigid`, `PiecesAndTotals` |
| `fight` | 3x3 grid, 8 ships in 6 pairs, rounds of 3 s, 5 s at most, 4 answers to a break | `WrecksAgree`, `NothingRevives`, `FightIsFair`, `DuelImplemented` |
| `bench` | 4x3 grid, 8 circuits beside their half turns, 5 s, one cell destroyed; 5 voices, 3 cues, 3 plays | `NothingFromNothing`, `LoopsAreReal`, `OrderIsBlind`, `SoundsKeepOrder` |
| `wire` | buffers of one or two frames, 4 messages down or 2 up; every message at its real size | `NothingGarbled`, `FramesReadBack`, `AllArrives` |
| `client` | 3 sessions, 3 parts, rounds of 1 s, 3 s at most, 2 requests under way | `SeatAgrees`, `TesterIsRight`, `SeatsGetOut` |
| `desk` | 2 reports, 2 tokens, 2 eras; 3 guests; a fight of 3 s with a clock of 5 ticks | `AgentTellsTrue`, `GuestStays`, `PracticeIsDuel`, `NothingHangs` |

A property of this table may be a conjunction: `EndsAreJust` has the wrecks
that end matches and the shutdown that forfeits none in it, `WaitsEnd` every
wait of the worker's model, `FightIsFair` `SeatsAreFair`, `BreaksCatchUp` and
`ToldTruly`, `PiecesAndTotals` `SplitIsExact` and `TalliesHold`; each is
written out where it is defined.  Type invariants that no run lists are checked
inside another property (`WireTypeOK`, `CircuitTypeOK`, `ClientTypeOK`,
`TesterTypeOK`, `IdunaTypeOK`, `GuestTypeOK`, `LocalTypeOK`, `SfxTypeOK`) or
proved (`TypeOK`, `WorkerTypeOK`, `PoolTypeOK`, `CombatTypeOK`).

`bench`, `desk`, `client` and `wire` hold parts that do not meet: a variable
chosen at the start says which one moves, so their states add up and do not
multiply.

Why these bounds are enough.  A hazard of a match is between its two players,
its clock and the loop, and `duel` has two breaks, a second after each, and a
timeout that falls outside a break: every branch of `run_tick`.  Pairing needs a
kind with a second in the queue and two bots beside a third, so `lobby` has
four connections, which also free and reuse slots while others play, and the
two match slots the code's ratio (`MAX_MATCHES` is half of `MAX_CONNS`) gives
them.  `MaxDrops` bounds the connections that are marked for closing at the
same time; the sweep empties them every iteration.  `Clientele` is both kinds
everywhere.  No symmetry is used: slots are searched in order.

For the worker, a late answer needs a slot that is closed and taken again
while the worker works: two slots, two sessions and a ring of one have it,
with the ring full beside it.  A report needs two verified players, and a
second match its reuse of their slots.

For the pool, what can go wrong between a bot and the server involves one bot,
its connection and the one before it; the windows are large enough for a
refusal, an end and a new match to be under way together.  What can go wrong
with the pool's size involves the bots that start, one more, and failures.

For packing, a bar of four cells and a block of four, which both split, a pair
with a breech on one side and a core with wiring of its own are laid in every
order that the budgets of the run leave: each refusal (overlap, edge, either
budget, unknown item) happens, and every part is laid in every rotation.
`Rotations` are 1 to 4, so that the reduction modulo four is there.

For the fight, the ships are chosen so that between them the guns meet ships
that dodge, shields, parts that resist them and empty lanes; a slug goes on
through a part it destroyed; a Siege Cannon touches its booster; a loop of four
Splitters melts on the fourth second; heat, growth, a Vent, an Aegis beside its
booster and a Mender are at work; a hull of 100 % falls to 0 before the break,
after it, and in both seats within one second; and both ships reach the timeout
alive.  Five seconds reach the timeout, with a break in them after which the
order of the volleys has changed.

For the circuit, every role a part can have in a circuit is aboard some ship:
Generators, Amplifier and Resistors in series, rings with and without gain, a
Transistor opened by another line, a Delayer, Batteries and a Capacitor, which
five seconds fill and empty, and a Quantum Core.  A cell destroyed opens rings
and lines.

For the wire, a buffer with room for one frame and a bit of the next is the
smallest in which a frame is cut by the buffer's end, and two messages down or
up are enough to lose, swap or splice them.  A read of four bytes may end two
frames at once, and one of a single byte any of them anywhere.  The codec's samples have all fields
at 0, at their most, and each different from its neighbours; a tail is empty,
of one piece, and full.

For the client, two parts that clash and one that does not have a refusal the
client foresees and one that only time makes; three seconds with a break in
each have a call cross every message of a match.

For IDUNA, two eras have a token that expires between two calls and one that
expires between login and report; two reports one that comes late beside
another.  Three guests are a first, one minted anew, and one more.  For sounds,
five voices are fewer than two cues have.

`CHECK_DEADLOCK FALSE`: fights, sessions, connections, circuits and games
end, and the bounded ones have nothing left to send or play.

Fairness of `Dw2Server`.  `WF_vars(Server)`: the process is scheduled, and the
steps of the loop that need no client are always taken in the end.
`SF_vars(ReadsOver)`: an iteration reads each connection once, at most 1024
bytes, so the reads of an iteration end; the weak form would not do, because
reading disables the step while a message pairs players.  `WF` of each timer: a
clock advances.  Nothing is assumed of the clients: no message, read or
disconnect ever has to happen.

Fairness of `Dw2Worker`: both threads are scheduled (`WF` of `Worker`, without
spurious wake-ups, and of `Loop`), and a hello timeout that keeps running out
is acted on (`SF` of `ExpireHello`: the loop passes through `expire` again and
again).  IDUNA's calls have socket timeouts, so a call ends.

Fairness of `Dw2Bot`: `ScalingSpec` needs only that the pool scales twice a
second.  `FairSpec` adds that what a bot has to read is read, what is due is
done, and that the server reads what it is sent.  No human has to come and no
match has to end.

Fairness of the others.  `Dw2Wire`: both loops poll; a client's `recv` that may
find bytes again and again finds some (`SF`), for they arrive.  `Dw2SessionMC`:
the program and the server run, and deadlines pass; nobody has to press a key.
`Dw2Iduna`: `WF(Hear)`, for each wait has a timeout; it is a timeout for each
wait and not for the reply, so a service that sends a byte every few seconds
holds the worker, which the assumption rules out.  `Dw2Local`: frames are drawn.
`Dw2Sfx`: a device asks for its next buffer.  `Dw2Guest`, `Dw2Pack`,
`Dw2Combat` and `Dw2Circuit` need none.

### What the code does otherwise

Sixteen times the program does not do what a comment, a header or
`NORTHSTAR.md` says of it.  Each is a property of a module, with the quoted
claim beside it, and is listed in `PROJECT.json`.  `survivor` is a run; TLC
shows the others when the property is put in place of those of a run's cfg.

| property | put into | what the code does |
| --- | --- | --- |
| `SurvivorWins` | `survivor` | `NORTHSTAR.md:122` promises that a disconnect is "a real forfeit (opponent wins)". `end_match` takes the result of every match from `dw2_match_result`; for a forfeit with two living ships that is "ongoing", and `main.c:181` then always makes seat 1 the winner: when seat 1 disconnects, the one who stayed is told (and IDUNA is told) that it lost. |
| `ReleasedAreIdle` | `pool` | A bot is idle by what it has heard so far: one whose MATCH_FOUND is under way may be released, and its opponent's match is forfeited as it begins. |
| `PacksFirst` | `views` (as an invariant) | When a send inside `pack_ship` fails, `on_msg` goes on to set `ready_pending`, which nothing clears: READY goes out on the next connection, refused in the queue, or in a match with an empty ship. |
| `SecondFeedIsInert` | `bench` | A cell fed twice in a second is fed twice. |
| `PredictionAgrees` | `client` (invariant) | A PLACE that crosses the packing deadline leaves a part on the client's copy only. |
| `ProbeTells` | `client` | No answer within 500 ms is taken for "authentication needed": a slow server refuses the AUTH. |
| `LateIsNeutral` | `client` | A ROUND_CALL after its break is a protocol error, and forfeits the match. |
| `ResultIsSeen` | `client` | MATCH_END read together with the end of the connection is not handled. |
| `FramesAreFrames` | `wire` (invariant) | A slow reader is dropped in the middle of a frame, and what is sent to it afterwards follows the half. |
| `OnlyClosedIsEof` | `wire` (invariant) | A client with 4096 unread bytes asks `recv` for 0, and takes the answer for the end. |
| `LimitsFit` | `wire` (invariant) | A token within `DW2_MAX_AUTH_TOKEN` = 900 does not fit in a frame of 512. |
| `RejectedByIduna` | `desk` | A cut reply counts as a refusal, also under fail-open. |
| `ResumesGuest` | `desk` | The guest file's errors are ignored, and the next run is another guest. |
| `FailureHasNoStatus` | `desk` (invariant) | A cut 201 returns -1 with status 201. |
| `EndIsExitZero` | `client` | The tester exits with 1 for a MATCH_END that comes while it packs. |
| `CallsItsBreak` | `client` | A call delayed past its break counts in the next. |

Of the same kind, without a property: `docs/RULESET_2.md:58` breaks a full tie
at the timeout for "the cheaper ship", while `dw2_match_result`
(`core/combat.c:626`) gives equal hulls and structures to the more costly one;
`round.h` speaks of hull where `dw2_standing` adds the shield; bots never AUTH;
`NORTHSTAR` still has a PANIC_CUT that the server always refuses;
`dw2_loadout_search --pop` with less than 12 keeps `per / 4 = 0` of a species
and asks for one of these none (`rn(0)`, a division by zero).

### Proofs

`Dw2Server_proofs` proves, for all table sizes, round lengths, timeouts and
hull levels that satisfy `SizesAssumption` and `HullAssumption`:

* `TypeCorrect`: `Spec => []TypeOK`;
* `TablesAgree`: `Spec => []MatchesAgree`.

The inductive invariant is `Agreed`, both together: types alone are not
inductive, since READY writes `matches[c->match]` with no check, and only
`MatchesAgree` says that slot exists.  The argument: a match slot is given
only when free, so no connection names it; the two connections it is given to
come from the queue, so they were in no match and are two; a match ends
together with both of its connections, whichever handler ends it; and a
connection's slot is emptied only after its match was ended.  The lemmas are
about the pieces the handlers share (ending a match, leaving, starting the
fight), and each handler's step cites them.

Also there, for a queue and a table of any size:

* `TableNeverShort`: `Spec => []NoMatchShortage`.  Every active match has two
  players of its own and two more are queued, so a full table of matches would
  need more connections than there are: `MAX_MATCHES` is half of `MAX_CONNS`
  (`SlotsAssumption`);
* `FirstComeFirstServed`: `Spec => NoOvertaking`, and `BotsWaitForHumans`:
  `Spec => BotKeptForHumans`;
* `NoHumanWaitsForAHuman`: `Spec => []HumansPairAtOnce`.

The invariant is `QueueInv`: `Agreed`, with `QueueOrder`, that `ahead` is a
strict order of exactly the queued which ranks any two of them, `PairPhase`,
when the loop may be inside `try_pair`, and `HumansPairAtOnce`.  That the
oldest of a kind exists is shown by counting those ahead of each.  A step
queues one connection at the end, pairs two, leaves `try_pair` once it finds no
pair, or only takes connections out of the queue: each of the four has its
lemma.

And for a table of any size and rounds and timeouts of any length:

* `NobodyWaitsAlone`: `Spec => []NoIdleWait`;
* `EndsAlwaysJust`: `Spec => []EndsAreJust`.

Its invariant `EndsInv` adds to `QueueInv` what an active slot goes through
(`Sound`: while packing somebody is not ready; a break is at a boundary of the
rounds, with nobody destroyed and a call missing; a wreck is only ever seen at
a boundary), that the last verdict is that of the hulls, and that a stop has
left none of the matches behind `at` and ends them for no reason but its own.
A step leaves a slot alone, makes it another sound one, or ends its match for a
reason its hulls justify.

`Dw2Worker_proofs`, for any number of slots, sessions, tokens and any ring:

* `WorkerTypeCorrect`, `WorkerAwake`, `ResultsSeen`: the types (with the
  bounds of the rings), `NoLostWakeup` and `ResultsAreSeen`;
* `IdentityIsOwn`: `Spec => []OwnIdentity`;
* `ReportsAllAccounted`: `Spec => []ReportsAccounted`.

`IdentityIsOwn` needs more than the connections: an answer is used only if it is for
the slot's present session, so the invariant `Sound` says of every
verification in flight (queued, held by the worker, or answered) that its
session has begun, and, if the slot still has that session, that the token is
the one that client sent; and that a session number is never given twice.

`ReportsAllAccounted` needs to know where each report is.  Its invariant
`Booked` adds to `Sound` that a match is played under the names its connections
have (`Named`), that the worker is gone only when the ring is empty and the loop
over (`Ended`), and (`Ledger`) that what was reported, what the worker holds and
the reports still queued are, in this order, `owed`.  The rings hold
verifications beside reports: the order of the reports in a ring is said by
positions, so that taking the first job and adding one at the end need no
induction.

`Dw2Bot_proofs`, for any pool, any number of connections and any windows:

* `PoolTypeCorrect` and `PoolInBounds`, by the invariant `InBounds`.  Only Grow
  and Release change the set of live bots, each by one and under a test of its
  size; every other step keeps it (`PoolKeeps`, `ServerKeeps`);
* `BotsKeepUp`: `Spec => []ViewsAgree`.

`ViewsAgree` says what a bot becomes by reading what is under way without
reading it message by message: all but BREAK decide its state whatever it was
before, so the last one does (`Becomes`).  The invariant is `Ties`: no two bots
share a connection (`Apart`), and each whose connection is up is `Tied` to the
server's end of it.  Tied is that what it becomes is what the server has it as,
that no ERROR is under way on a connection the server keeps, and where the next
QUEUE comes from: while the server waits for one exactly one thing will bring
it about, a WELCOME or END under way, the request itself, or the bot's timer
(`Owed`), and otherwise nothing will (`Settled`).  `Settled` is what is not to
be seen from `ViewsAgree`: a second prompt would make the bot ask twice, and the
second QUEUE would be an error that costs it the connection.

`Dw2Desk_proofs`, first about `Dw2Pack`, for any catalog, grid, budgets and
asks: `PackTypeCorrect`, by `PackInv`, which adds to `PackTypeOK` that the ship is a
record of the four fields, so that what a PLACE appends is what is read back.
The argument: a part is laid only on free cells of the grid, and `ShapeCells`
has a cell for each of the item's.  `PartsAreRigid` is `RotationIsRigid` for
any catalog and any rotation: every part on the grid is `ShapeCells` of what
was asked for (`AsAsked`, the invariant), `ShapeCells` moves all cells of a
part by one offset (`ShapeIs`; the least offsets exist because a part has
finitely many cells), and a quarter turn takes a step to a side to the step to
that side turned.

`SplitsAndTotals` is `Spec => []PiecesAndTotals`.  That pieces take exactly the
cells of their part is assumed of the catalog for parts that lie as the table
has them (`SplitAssumption`, which TLC evaluates for the game's own), and proved
for every rotation and anchor: turned cells lie apart if the cells did
(`LiesApart`), moving before the turn is moving after it (`LiesMoved`), and a
piece laid at the least row and column of its cells takes those (`PieceFits`),
for a shape is moved so that its corner is at 0, 0.  The totals are a recursive
function over the parts; there is one function that runs them up (`RunsExist`
and `RunsAgree`, by a least part at which it would fail), so one more part adds
its amount (`TotalOfAppend`).

`Dw2Combat_proofs`, for any catalog, fleet, wattages, program, calls and
length of rounds:

* `CombatTypeCorrect`: `Spec => []CombatTypeOK`;
* `RecordsAgree`: `Spec => []WrecksAgree`;
* `NothingReturns`: `Spec => NothingRevives`.

The invariant is `CombatInv`: the two with `Quiet`, which says when the clock
has room for another second, that nothing of a second is left outside it, and
that Menders and Aegis Emitters only work on a hull that stands, and with the
ships being a pair of `Matchups` that no step changes.  Without
`Quiet` neither the clock's bound nor `NothingRevives` is inductive: a Mender
on a wreck would mend it.  `WrecksAgree` and the types need each other: heat
and growth look at `dead`, and set HP.  Each kind of step has a lemma, and the
ways cells change (struck, melted, heated, repaired) meet in one,
`CellsAfter`.  `FleetAssumption`, `BoostAssumption` and `GunAssumption` are
about the ships and the catalog; TLC evaluates them in `fight`.

There too, `FightIsADuel` is `Spec => DuelImplemented`, under the same
assumptions.  The steps within a second stutter, for `told` and
the clock stand still; the end of a second, and a break, map to those of the
duel.  It needs `CombatInv` and `Seen`: a hull told destroyed is destroyed, and
what was told stands while a break is open.

`FightsAreFair` is `PairSpec => FightIsFair`, about two fights, and the longest of
these proofs.  `SeatsAreFair` says nothing of a second that has begun, and the
seats do not go through one in the same order: which volley is first depends on
the second.  So the argument is by ships and not by steps.

* What is still ahead of a ship in a second is a record, `Bout`: its own state
  that a second can change, the guns and damage that still come at it, the slug
  in its hold, its upkeep, its repairs.  `Onward` takes a bout one step
  further, and it has no choice: a volley hits one ship only and reads the
  other's guns and shots, which are settled once both have their power.  Each
  step of a second is that step for one ship, and leaves the other ship's bout
  alone (`GoesMoves`, by one lemma for each kind of step).
* Power reads a ship and the other's hull, and both have had theirs before the
  first volley (`NextCall`, `Unpowered`), so its effect does not depend on
  which ship is first (`PowerIs`).
* `PairInv` is the inductive invariant.  Between the seconds the two fights are
  `Alike`; while the fight has power to give, what its ships have got is what
  the twin's are due (`Fresh`); from then on what is ahead of a ship of the twin
  `LeadsTo` where its ship in the fight is (`Running`).  When neither has
  anything left to do both ends of a bout are the same one (`ThreadEnds`).
* The end of a second and a break treat ships that are alike alike; the sums of
  structure they compare are shown to be numbers by induction over the cells
  (`SumType`, `Upward`), and the verdict to be the same (`VerdictsAre`).

What the first fight does is a behaviour of `Spec` (`PairIsFight`), so the other two
conjuncts come from `CombatInv`: `BreaksCatchUp` from the tables of the levers
(`LeversCompare`) and `ToldTruly` from `Decided`, that a fight is over only with
a wreck or out of time, and from what is rounded how (`HullByteIs`,
`EffectBytesDiffer`).  The twin is a second instance of the module, and the lemmas
about a step are stated and proved for each of the two.

`Dw2Wire_proofs`, first for any limit on frames and every message of every type:

* `MessagesReadBack`: what `EncodeIn` makes of a message that has a frame is a
  frame, and `DecodeIn` gives the message back;
* `FramesAreReadBack`: `WireSpec => []FramesReadBack`, the same handed over byte
  by byte with another frame behind it.

What is made of one field after the other is a recursive function of how many
there were.  That there is such a function is shown by building it (`Runs`), and
what holds of it by induction over a set of numbers (`Induct`): `Ends` says
where each field ends, and `Placed` that each stands where it was put.  One
lemma for each width says that a number, or a name, is read as it was written
(`PutIs`); `LastEnds` counts the fields of each of the 26 types, and `TableIs`
compares the sums with the table of sizes.

Then for buffers, sockets, chunks and frames of every size, and any messages:
`NothingIsGarbled`, `Spec => []NothingGarbled`.  The invariant is `WireInv`: the
bytes in the reader's buffer, those under way and those that wait to be sent
are, in this order, the frames of the messages still to be handled, in either
direction (`UpOK`; `DownOK`, until a slow reader is dropped), the phase of the
server's loop is never one that gives up on a sound client (`SoundIsServed`),
and it reads on only while there is room (`RoomLeft`).  Of the messages it takes
only that they are such (`MessageAssumption`); of the limits, that each buffer
has room for the longest frame, and that its length fits in two bytes.

`Dw2Desk_proofs`, then about accounts, results and practice:

* `AgentIsTruthful`: `AgentTellsTrue` for any matches, players, secret files
  and eras of tokens.  The invariant `AgentInv` says for each match how its
  records, its calls and the answer under way go together (`Counted`), and what
  a reply that has not come yet may say (`OnItsWay`): a retry follows a 401
  only, so nothing was recorded before it;
* `GuestIsKept`: `GuestStays` for any number of accounts.  `GuestInv` follows
  the account from the reply through the program to the file: a run that was
  let in by the file never writes it again;
* `PracticeIsADuel`: `PracticeIsDuel` for any grid, catalog, tick, clock width
  and frame times shorter than the clock's period less `TICK_MS`.
  `PracticeInv` says that the clock's difference, taken round its width, is the
  time since the last second.

`Dw2Client_proofs`, for any parts and clashes between them, scripts, kinds of
session, rounds and timeouts, and any number of messages under way:

* `SeatsAgree`: `SeatSpec => []SeatAgrees`, that is `ClientTypeOK`,
  `MirrorAgrees` and `SidesAgree`; `ClientsAgree` is the same of `Spec`, the
  client alone;
* `TesterAlwaysRight`: `SeatSpec => []TesterIsRight`, that is `TesterTypeOK`,
  `AnswersMatch` and `ExitIsEarned`.

Whoever sits there, `ServerSound` holds of the server's side: its types, that a
match it still plays has time left, and that no break is open while it is
packed for.  `SidesAgree` is not inductive: it does not say what is on the way.
`ClientInv` does, by the stage a session is in, from `Greeting` to `Over`, or
that it is `Lost` (one side has left, or the server is about to close it).  At
each stage but the fight few messages can be on the way, and the stage lists
them; in `Fighting` any number can, and only what the client will make of them
(`View`) is said.  The lemmas about `OnMsgs` are what lets a step be argued
without knowing them: a message more is handled last (`ViewSays`), and reading
some of them leaves the view as it was (`ReadOn`).  While both pack, the parts
under way are distinct and clash with nothing on the server's ship, so each of
them will be taken (`Packing`).  That shows too that a connection that is in a
match or in the queue is never one that is about to be closed for an error of
this client's.

`TesterInv` counts: a tester that waits has one request unanswered or one answer
unread (`OneAtATime`), of which what the server says unasked is none
(`SaidQuietly`); it asks to be queued once, before there is a match, so that an
END is the end of the one match (`OneMatch`); and it has counted no more breaks
than the seconds fought have opened, less those it has still to read
(`BreaksCounted`).

Of the types, only `PackTypeOK` is checked by a run of its own; `TypeOK`,
`WorkerTypeOK`, `PoolTypeOK`, `CombatTypeOK` and `CircuitTypeOK` are proved.

`Dw2Circuit_proofs`, for any grid, catalog, ships, length of the walk and number
of seconds, and however the wires are closed:

* `PowerIsNotMade`: `Spec => []NothingFromNothing`;
* `LoopsAreLong`: `Spec => []LoopsAreWires`, what `Dw2Combat` takes of a circuit;
* `CircuitTypeCorrect`: `Spec => []CircuitTypeOK`.

`NothingFromNothing` is not inductive: it lets every watt grow once more by all
n Amplifiers aboard, also one that has been through them.  The invariant
`CircuitInv` says of each hand-off what its watts may still become: with a
Amplifiers on its route a watt on its way counts 3^(n-a) * 2^a (`Worth`), one
that has reached its end 2^n, and one that is let go of 3^n (`Balanced`).  So a
step through an Amplifier keeps the count (`WireKeeps`), a division among ports
never raises it (`ForwardSum`), and 2^n is the least a watt can count for, from
which the property follows.  That no Amplifier counts twice is what the routes
say (`RouteCells`: living wires, each cell once) together with
`AmplifierAssumption`, that an Amplifier is one cell; TLC evaluates it for the
game's catalog in `bench`.  A hand-off never goes back where it came from
(`RouteEnds`), and each step changes the parity of row plus column, so a route
that comes back to one of its cells has gone through four cells at least
(`RingIsLong`).  The sums over cells and hand-offs and the powers are recursive
functions: that there is one such function, and that it goes on by a member
(`SumRaised`, `SumJoined`, `PowIs`), is shown as for the codec.

Only model-checked: the other properties of the runs.  `LoopsAreReal` is proved
but for its `LoopsFound`: that the walk misses no loop is no theorem about every
ship, for a share below a milliwatt is dropped and the loop behind it is never
walked, so it is said of the ships of the run.  Nor is `OrderIsBlind`, for the
same reason and because a budget that runs out cuts the walk where the order of
the grid has brought it.  The order of sounds (`SoundsKeepOrder`) and what must
eventually happen (`MatchesEnd`, `DroppedAreClosed`, `HumansGetBots`, `WaitsEnd`,
`DemandIsMet`, `BotsComeBack`, `AllArrives`, `SeatsGetOut`, `NothingHangs`) stay
with TLC, for the prover does not reason about fairness.

## Not modelled

* Drawing, fonts and colours (`core/font.c`, `core/palette.h`, the rendering of
  `apps/client` and `apps/local`) and the waveforms and WAV writer of
  `core/sfx.c`: no state that anything else depends on.
* The vendored Parena runtime (`core/parena_runtime.*`) and the base-4 library
  that precedes each generated cannon program: the programs in use call none
  of it.  The program of `cannon_bank_on_safe_lead_gen.c` is linked into a
  test and a demo only; `Dw2Combat`'s theorems hold for it as for any.
* The event log (EVENTS), `dw2_lane_shots_to_open` and `dw2_ship_structure` as
  it is sent: read by nothing of the fight.
* The time a call is received at, relative to its break: the grade of a call
  is free in `Dw2Combat`, for no clock is shared by the poll loop and the
  break there.
* The hash that spreads targets over their span.
* `dw2_loadout_search`, `dw2_trace`, `dw2_ref_dump`, the cannon demo, the tests
  and the scripts: searches, printouts and checks over the library functions
  modelled here.

## What is left

The modules are complete for the code they name.  Worth adding: a clock shared
by the loop and the break, so that the grade of a call follows from when it
came; the server of `Dw2Client` shown to be `Dw2Server`'s, seat by seat, and a
match of `Dw2Server` to be a `Dw2Duel`; `Dw2Combat!Feeds` and `Rings`
shown to contain what `Dw2Circuit` computes.
