------------------------------- MODULE FrontEnd -------------------------------
(* The front end of src/src/main.c around the classic machine: which machine *)
(* runs, the background loads of tapes and snapshots and the messages that   *)
(* end them, the typing of text into the machine, the keys the user holds,   *)
(* tape playback with its fast loading, and the rewind history.              *)
(*                                                                           *)
(* Handlers run on the window's thread one after the other, so a handler is  *)
(* an operator from the state of the application to its state, composed from *)
(* the functions it calls; loads run on threads of their own and hand their  *)
(* job to the window's message queue.                                        *)
EXTENDS TapePlayer

CONSTANTS
  Models,          \* the Sinclair models
  HostKeys,        \* keys of the host's keyboard
  FrameTicks,      \* ticks of a frame; the models differ by 1.5 per cent
  TickModulus,     \* 2^32: where the machine's tick counter wraps
  HoldFrames, CooldownFrames, BootFrames,   \* APP_AUTOTYPE_...
  IdleFrames,      \* APP_TAPE_LOADER_IDLE_FRAMES
  CaptureFrames,   \* APP_REWIND_CAPTURE_FRAMES
  Slots,           \* APP_REWIND_SLOT_COUNT
  Uses             \* what the user may do; one of them is chosen at the start

VARIABLES
  use,      \* what this user does, and the settings
  app,      \* AppState, as far as it is modelled
  open,     \* the window exists
  loading,  \* tape_load_in_progress and snapshot_load_in_progress
  workers,  \* the jobs of the load threads that run
  queue     \* the completion messages posted to the window

vars == <<use, app, open, loading, workers, queue>>

None == "none"

ASSUME FramesAssumption ==
  /\ {HoldFrames, CooldownFrames, BootFrames} \subseteq Nat
  /\ CooldownFrames <= BootFrames
  /\ {FrameTicks, TickModulus, IdleFrames, CaptureFrames, Slots}
       \subseteq Nat \ {0}

ASSUME UsesAssumption ==
  /\ {"48K", "128K", "plus3"} \subseteq Models
  /\ \A u \in Uses :
       /\ u.model \in Models /\ u.models \subseteq Models
       /\ None \notin u.codes
       /\ u.autoload \in BOOLEAN /\ u.fast \in BOOLEAN
       /\ \A image \in u.images : IsImage(image)

Kinds == {"classic", "next"}
Basic == <<"j", "quote", "quote", "enter">>   \* LOAD "" of a 48K
Menu  == <<"enter">>                          \* Tape Loader of the others

-------------------------------------------------------------------------------
(* Keys and typing.                                                          *)

KeyUp(a, code)   == [a EXCEPT !.keys[a.kind] = @ \ {code}]
KeyDown(a, code) == [a EXCEPT !.keys[a.kind] = @ \union {code}]

HeldCodes(a) == {a.held[k] : k \in HostKeys} \ {None}

ReleaseAllKeys(a) ==
  [a EXCEPT !.keys[a.kind] = @ \ HeldCodes(a),
            !.held = [k \in HostKeys |-> None]]

\* Mutant: a tape that waits for its command to be typed goes on waiting.
AutotypeClear_KeepsPending(a) ==
  [KeyUp(a, a.active) EXCEPT !.text = <<>>, !.position = 0, !.cooldown = 0,
                             !.hold = 0, !.active = None]

AutotypeClear(a) ==
  [KeyUp(a, a.active) EXCEPT !.text = <<>>, !.position = 0, !.cooldown = 0,
                             !.hold = 0, !.active = None, !.pending = FALSE]

StartAutotype(a, text) ==
  [AutotypeClear(ReleaseAllKeys(a)) EXCEPT !.text = text]

\* app_handle_key_down and app_handle_key_up.
HostKeyDown(a, k, code) ==
  LET other == a.held[k] \notin {None, code}
      freed == IF other THEN KeyUp(a, a.held[k]) ELSE a
  IN KeyDown([freed EXCEPT !.held[k] = code], code)
HostKeyUp(a, k) == [KeyUp(a, a.held[k]) EXCEPT !.held[k] = None]

-------------------------------------------------------------------------------
(* The tape.                                                                 *)

SyncStopMode(a) == [a EXCEPT !.tape = SetStopMode(@, a.model = "48K")]
RewindTape(a) == [a EXCEPT !.tape = TapeRewind(@, Clock(a.model))]

StopTape(a) ==
  [a EXCEPT !.pending = FALSE, !.tape = TapeStop(@), !.armed = FALSE,
            !.seen = FALSE, !.idle = 0]

StartPlayback(a) ==
  LET tape == TapeStart(a.tape, a.tick)
  IN [a EXCEPT !.tape = tape, !.armed = a.fast /\ tape.playing,
               !.seen = FALSE, !.idle = 0]

PlayTape(a) ==
  IF HasTape(a.tape)
  THEN StartPlayback(SyncStopMode([a EXCEPT !.pending = FALSE]))
  ELSE a

ToggleFast(a) ==
  [a EXCEPT !.fast = ~@, !.armed = ~a.fast /\ a.tape.playing,
            !.seen = FALSE, !.idle = 0]

-------------------------------------------------------------------------------
(* Changes of machine.  app_load_model_roms gives a new machine, or fails    *)
(* (roms) and leaves the old one as it was.                                  *)

LoadModelRoms(a, model) ==
  [a EXCEPT !.model = model, !.tick = 0, !.keys["classic"] = {}]

\* Mutant: the stop mode of the tape stays that of the model before.
SwitchModel_KeepsStopMode(a, model, roms) ==
  LET stopped == [ReleaseAllKeys(AutotypeClear(a))
                    EXCEPT !.tape = TapeStop(@)]
  IN IF a.kind = "classic" /\ a.model = model THEN a
     ELSE IF ~roms THEN stopped
     ELSE RewindTape([LoadModelRoms(stopped, model)
                        EXCEPT !.kind = "classic"])

SwitchModel(a, model, roms) ==
  LET stopped == [ReleaseAllKeys(AutotypeClear(a))
                    EXCEPT !.tape = TapeStop(@)]
  IN IF a.kind = "classic" /\ a.model = model THEN a
     ELSE IF ~roms THEN stopped
     ELSE RewindTape(SyncStopMode(
            [LoadModelRoms(stopped, model) EXCEPT !.kind = "classic"]))

ActivateNext(a) ==
  [ReleaseAllKeys(AutotypeClear(a)) EXCEPT !.tape = TapeStop(@),
                                           !.kind = "next"]

LeaveNext(a, roms) ==
  IF a.kind = "next" THEN SwitchModel(a, a.model, roms) ELSE a

MenuReset(a) ==
  LET stopped == [ReleaseAllKeys(AutotypeClear(a))
                    EXCEPT !.tape = TapeStop(@)]
  IN IF a.kind = "next" THEN stopped
     ELSE [RewindTape(stopped) EXCEPT !.ring = <<>>, !.wait = 1]

\* app_insert_loaded_disk: the +3 boots the disk from its menu.
InsertDisk(a, roms) ==
  LET stopped == StopTape(ReleaseAllKeys(AutotypeClear(a)))
      plus3   == IF a.model = "plus3" THEN stopped
                                      ELSE LoadModelRoms(stopped, "plus3")
      booting == StartAutotype(RewindTape(SyncStopMode(plus3)), Menu)
  IN IF a.model # "plus3" /\ ~roms THEN stopped
     ELSE [booting EXCEPT !.cooldown = BootFrames, !.ring = <<>>, !.wait = 1]

\* app_insert_loaded_microdrive: Interface 1 does not fit a +3.
InsertCartridge(a, roms) ==
  IF a.model = "plus3" /\ roms THEN LoadModelRoms(a, "48K") ELSE a

-------------------------------------------------------------------------------
(* The ends of loads.                                                        *)

AutoloadModel(a, job) ==
  LET image == job.image
  IN IF ~a.autoload THEN a.model
     ELSE IF job.assume128 THEN "128K"
     ELSE IF image.tap THEN "48K"
     ELSE IF image.target = "48" THEN "48K"
     ELSE IF a.model = "48K" THEN "128K"
     ELSE a.model

BeginAutoload(a) ==
  LET reset == RewindTape(SyncStopMode(ReleaseAllKeys(AutotypeClear(a))))
      typing == StartAutotype(reset, IF a.model = "48K" THEN Basic ELSE Menu)
  IN [typing EXCEPT !.pending = TRUE, !.cooldown = BootFrames]

ApplyLoadedTape(a, job, roms) ==
  LET model    == AutoloadModel(a, job)
      machine  == IF model = a.model THEN a ELSE LoadModelRoms(a, model)
      inserted == StopTape([machine EXCEPT
                              !.tape = Decoded(job.image, job.hz)])
      ready    == IF a.autoload THEN BeginAutoload(inserted)
                                ELSE RewindTape(SyncStopMode(inserted))
  IN IF model # a.model /\ ~roms THEN a
     ELSE [ready EXCEPT !.ring = <<>>, !.wait = 1]

\* Whether the file can be read (decodes) shows after the machine is replaced,
\* which is then put back as it was when the handler began.
ApplyLoadedSnapshot(a, job, roms, decodes) ==
  LET changed == job.model # a.model
      stopped == [ReleaseAllKeys(AutotypeClear(a)) EXCEPT !.tape = TapeStop(@)]
      machine == IF changed THEN LoadModelRoms(stopped, job.model) ELSE stopped
      putBack == SyncStopMode([stopped EXCEPT !.keys["classic"] =
                                                a.keys["classic"]])
      loaded  == SyncStopMode([machine EXCEPT !.tick = IF job.timed THEN 0
                                                       ELSE @])
  IN IF changed /\ ~roms THEN stopped
     ELSE IF ~decodes THEN (IF changed THEN putBack ELSE stopped)
     ELSE [(IF changed THEN RewindTape(loaded) ELSE loaded)
             EXCEPT !.ring = <<>>, !.wait = 1]

-------------------------------------------------------------------------------
(* A frame of the classic machine.                                           *)

\* app_run_autotype.
RunAutotype(a) ==
  LET typed    == a.position = Len(a.text)
      released == [KeyUp(a, a.active) EXCEPT !.active = None,
                                             !.cooldown = CooldownFrames]
      ended    == [released EXCEPT !.text = <<>>, !.position = 0]
      code     == a.text[a.position + 1]
  IN IF a.active # None
     THEN IF a.hold > 0 THEN [a EXCEPT !.hold = @ - 1]
          ELSE IF ~typed THEN released
          ELSE IF a.pending THEN StartPlayback([ended EXCEPT !.pending = FALSE])
          ELSE ended
     ELSE IF a.cooldown > 0 THEN [a EXCEPT !.cooldown = @ - 1]
     ELSE IF typed THEN a
     ELSE [KeyDown(a, code) EXCEPT !.active = code, !.position = @ + 1,
                                   !.hold = HoldFrames]

\* What the program does in a frame: the ROM's loader asks for a block at its
\* start (load: not at all, for one that is not next, for the next one), and
\* EAR is read at its end, by something that is no loader, or by a loader a
\* few or many times (reads).
Programs == [load : {"no", "other", "next"},
             reads : {"none", "scan", "few", "many"}]

FastLoadTrap(a, load) ==
  IF load = "no" THEN a
  ELSE IF load = "next" /\ CanFastLoad(a.tape)
  THEN LET tape == FastLoad(a.tape, a.tick)
       IN [a EXCEPT !.tape = tape, !.seen = TRUE, !.idle = 0,
                    !.armed = a.fast /\ tape.playing]
  ELSE [a EXCEPT !.tape = SkipPlayed(@)]

RunFrame(a, program) ==
  LET trapped == FastLoadTrap(a, program.load)
      tick    == (a.tick + FrameTicks) % TickModulus
      loader  == trapped.tape.playing /\ program.reads \in {"few", "many"}
  IN [trapped EXCEPT !.tick = tick, !.seen = @ \/ loader,
                     !.tape = IF program.reads = "none" THEN @
                              ELSE InputLevel(@, tick)]

\* app_tape_fast_load_trap also counts as many reads.
ManyReads(a, program) ==
  \/ program.load = "next" /\ CanFastLoad(a.tape)
  \/ program.reads = "many" /\ FastLoadTrap(a, program.load).tape.playing

\* Mutant: a loader that has long been idle is not stopped.
LoaderActivity_Counts(a, many) ==
  LET idle == IF many THEN 0 ELSE IF a.seen THEN a.idle + 1 ELSE a.idle
  IN IF ~a.armed THEN a
     ELSE IF ~a.tape.playing THEN [a EXCEPT !.armed = FALSE, !.idle = 0]
     ELSE [a EXCEPT !.idle = idle]

\* app_update_tape_loader_activity.
LoaderActivity(a, many) ==
  LET idle == IF many THEN 0
              ELSE IF a.seen /\ a.idle < IdleFrames THEN a.idle + 1 ELSE a.idle
  IN IF ~a.armed THEN a
     ELSE IF ~a.tape.playing THEN [a EXCEPT !.armed = FALSE, !.idle = 0]
     ELSE IF idle >= IdleFrames THEN StopTape(a)
     ELSE [a EXCEPT !.idle = idle]

\* app_rewind_capture: the checkpoints, the oldest first.
Checkpoint(a) ==
  [model |-> a.model, tick |-> a.tick, keys |-> a.keys["classic"]]

RewindCapture(a) ==
  LET full == Len(a.ring) = Slots
      kept == IF full THEN Tail(a.ring) ELSE a.ring
  IN IF ~use.history THEN a   \* app_rewind_init had no memory for it
     ELSE IF a.wait > 1 THEN [a EXCEPT !.wait = @ - 1, !.ring = kept]
     ELSE [a EXCEPT !.wait = CaptureFrames, !.ring = Append(kept, Checkpoint(a))]

RestoreOldest(a) ==
  LET oldest == a.ring[1]
  IN IF a.ring = <<>> THEN a
     ELSE IF oldest.model # a.model THEN [a EXCEPT !.ring = <<>>, !.wait = 1]
     ELSE ReleaseAllKeys(
            [a EXCEPT !.tick = oldest.tick, !.keys["classic"] = oldest.keys,
                      !.ring = <<oldest>>, !.wait = CaptureFrames])

\* app_tape_warp_requested reads the tape, and may stop it.
WarpRequested(a) ==
  LET heard == [a EXCEPT !.tape = InputLevel(@, a.tick)]
  IN IF ~a.fast \/ (~a.pending /\ ~a.tape.playing)
     THEN [app |-> a, warp |-> FALSE]
     ELSE IF a.pending THEN [app |-> a, warp |-> TRUE]
     ELSE IF InPause(heard.tape) THEN [app |-> heard, warp |-> FALSE]
     ELSE IF a.armed /\ a.seen /\ a.idle > 0
     THEN [app |-> StopTape(heard), warp |-> FALSE]
     ELSE [app |-> heard, warp |-> TRUE]

\* app_tick_emulator, in slices of one frame; the frames of the Next do not
\* concern the tape.
TickClassic(a, program) ==
  LET asked == WarpRequested(a)
      typed == RunAutotype(asked.app)
      run   == RunFrame(typed, program)
      many  == ManyReads(typed, program)
  IN IF asked.warp
     THEN WarpRequested(LoaderActivity(RewindCapture(run), many)).app
     ELSE RewindCapture(LoaderActivity(run, many))

-------------------------------------------------------------------------------
(* Loads in the background.                                                  *)

Asking == \E i \in DOMAIN workers : workers[i].asking
Can(event) == open /\ ~Asking /\ event \in use.events
May(event) == IF event \in use.events THEN BOOLEAN ELSE {FALSE}
Outcome == IF "failures" \in use.events THEN BOOLEAN ELSE {TRUE}
RestUnchanged == UNCHANGED <<use, open, loading, workers, queue>>
Do(event, after) == Can(event) /\ app' = after /\ RestUnchanged

TapeJob(image, assume128, hz) ==
  [media |-> "tape", image |-> image, assume128 |-> assume128, hz |-> hz,
   asking |-> FALSE]
SnapshotJob(model, timed) ==
  [media |-> "snapshot", model |-> model, timed |-> timed, asking |-> FALSE]

\* A load starts unless one is already running or its thread cannot be made.
MayStart == loading = {}

StartLoad(after, job, threads) ==
  /\ app' = after
  /\ IF MayStart /\ threads
     THEN /\ loading' = loading \union {job.media}
          /\ workers' = Append(workers, job)
     ELSE UNCHANGED <<loading, workers>>
  /\ UNCHANGED <<use, open, queue>>

\* File -> Open, and a dropped file, which first asks for a 128K (asks128).
\* The machine that the file finds, and whether it is one the file can go to;
\* first and roms say whether the two changes of machine succeed.
Reached(asks128, first, roms) ==
  LET switched == IF asks128 THEN SwitchModel(app, "128K", first) ELSE app
      left     == LeaveNext(switched, roms)
  IN IF asks128 /\ switched.model # "128K"
     THEN [app |-> switched, ready |-> FALSE]
     ELSE [app |-> left, ready |-> left.kind = "classic"]

OpenTape ==
  \E image \in use.images, drop \in May("drop"),
     first, roms, threads \in Outcome :
    LET reached == Reached(drop /\ ~image.tap, first, roms)
        model   == reached.app.model
        assume  == IF image.tap THEN model # "48K" ELSE drop
    IN /\ Can("open")
       /\ IF reached.ready
          THEN StartLoad(reached.app, TapeJob(image, assume, Clock(model)),
                         threads)
          ELSE app' = reached.app /\ RestUnchanged

OpenSnapshot ==
  \E model \in use.models, timed \in May("timed"), drop \in May("drop"),
     first, roms, threads \in Outcome :
    LET reached == Reached(drop, first, roms)
    IN /\ Can("snapshot")
       /\ IF reached.ready
          THEN StartLoad(reached.app, SnapshotJob(model, timed), threads)
          ELSE app' = reached.app /\ RestUnchanged

\* A TZX that holds a choice asks the window, which shows a menu and goes on
\* running the machine meanwhile; it answers when the user has chosen.
Ask(i) ==
  /\ open /\ ~Asking
  /\ workers[i].media = "tape" /\ workers[i].image.choice
  /\ workers' = [workers EXCEPT ![i].asking = TRUE]
  /\ UNCHANGED <<use, app, open, loading, queue>>

Answer(i) ==
  /\ workers[i].asking
  /\ workers' = [workers EXCEPT ![i].asking = FALSE, ![i].image.choice = FALSE]
  /\ UNCHANGED <<use, app, open, loading, queue>>

\* The worker posts its job (with what came of it), or frees it when there is
\* no window any more.
Finish(i) ==
  \E ok \in Outcome :
    /\ ~workers[i].asking
    /\ workers' = SubSeq(workers, 1, i - 1)
                    \o SubSeq(workers, i + 1, Len(workers))
    /\ queue' = IF open THEN Append(queue, [job |-> workers[i], ok |-> ok])
                        ELSE queue
    /\ UNCHANGED <<use, app, open, loading>>

\* What the handler of a completion message does to the application.
Completed(message, roms, decodes) ==
  IF ~message.ok THEN app
  ELSE IF message.job.media = "tape"
  THEN ApplyLoadedTape(app, message.job, roms)
  ELSE ApplyLoadedSnapshot(app, message.job, roms, decodes)

Cleared(message) == loading \ {message.job.media}

Complete ==
  \E roms, decodes \in Outcome :
    /\ open /\ queue # <<>>
    /\ app' = Completed(Head(queue), roms, decodes)
    /\ loading' = Cleared(Head(queue))
    /\ queue' = Tail(queue)
    /\ UNCHANGED <<use, open, workers>>

\* WM_DESTROY: completions already posted are handled, and the flags cleared.
CloseWindow ==
  \E roms, decodes \in Outcome :
    /\ open /\ "close" \in use.events
    /\ app' = IF queue = <<>> THEN app
              ELSE Completed(Head(queue), roms, decodes)
    /\ open' = FALSE
    /\ loading' = {}
    /\ queue' = <<>>
    /\ workers' = [i \in DOMAIN workers |-> [workers[i] EXCEPT !.asking = FALSE]]
    /\ UNCHANGED use

-------------------------------------------------------------------------------
(* What else the user does.                                                  *)

ChooseModel ==
  \E model \in use.models, roms \in Outcome :
    Do("machine", SwitchModel(app, model, roms))
ChooseNext == Do("next", ActivateNext(app))
Play == app.kind = "classic" /\ Do("tape", PlayTape(app))
Stop == app.kind = "classic" /\ Do("tape", StopTape(app))
Fast == Do("fast", ToggleFast(app))
Reset == Do("reset", MenuReset(app))
Rewind == app.kind = "classic" /\ Do("rewind", RestoreOldest(app))

\* Disks and cartridges are read on the window's thread.
OpenDisk ==
  \E first, roms \in Outcome :
    LET left == LeaveNext(app, first)
    IN Do("disk", IF left.kind = "next" THEN left ELSE InsertDisk(left, roms))
OpenCartridge ==
  \E first, roms \in Outcome :
    LET left == LeaveNext(app, first)
    IN Do("cartridge",
          IF left.kind = "next" THEN left ELSE InsertCartridge(left, roms))

PressKey ==
  \E k \in HostKeys, code \in use.codes : Do("keys", HostKeyDown(app, k, code))
ReleaseKey ==
  \E k \in HostKeys : app.held[k] # None /\ Do("keys", HostKeyUp(app, k))
LoseFocus == Do("keys", ReleaseAllKeys(app))

\* The program has ended.
Exited == ~open /\ workers = <<>> /\ UNCHANGED vars

Tick ==
  /\ open /\ app.kind = "classic"
  /\ \E program \in use.programs : app' = TickClassic(app, program)
  /\ RestUnchanged

-------------------------------------------------------------------------------
InitApp(u) ==
  [kind |-> "classic", model |-> u.model, tick |-> 0,
   keys |-> [kind \in Kinds |-> {}], held |-> [k \in HostKeys |-> None],
   text |-> <<>>, position |-> 0, cooldown |-> 0, hold |-> 0, active |-> None,
   pending |-> FALSE, armed |-> FALSE, seen |-> FALSE, idle |-> 0,
   tape |-> NoTape, autoload |-> u.autoload, fast |-> u.fast,
   ring |-> <<>>, wait |-> 1]

Init ==
  /\ use \in Uses
  /\ app = InitApp(use)
  /\ open = TRUE /\ loading = {} /\ workers = <<>> /\ queue = <<>>

Next ==
  \/ OpenTape \/ OpenSnapshot \/ Complete \/ CloseWindow
  \/ \E i \in DOMAIN workers : Ask(i) \/ Answer(i) \/ Finish(i)
  \/ ChooseModel \/ ChooseNext \/ Play \/ Stop \/ Fast \/ Reset \/ Rewind
  \/ OpenDisk \/ OpenCartridge \/ PressKey \/ ReleaseKey \/ LoseFocus
  \/ Tick \/ Exited

Spec == Init /\ [][Next]_vars

-------------------------------------------------------------------------------
TypeOK ==
  /\ app.kind \in Kinds /\ app.model \in Models
  /\ app.tick \in 0 .. TickModulus - 1
  /\ app.position \in 0 .. Len(app.text)
  /\ app.cooldown \in 0 .. BootFrames /\ app.hold \in 0 .. HoldFrames
  /\ app.idle \in 0 .. IdleFrames - 1
  /\ Len(app.ring) <= Slots /\ app.wait \in 1 .. CaptureFrames
  /\ app.tape.index \in 0 .. Len(app.tape.segments)
  /\ app.tape.playing => app.tape.index < Len(app.tape.segments)
  /\ app.tape.block \in 0 .. Len(app.tape.blocks)
  /\ Len(workers) <= 1 /\ Len(queue) <= 1

\* However often the machine changes its clock, every pulse of the tape lasts
\* what its file says to half a tick of the clock it is counted in, and every
\* pause to two ticks: tape_rewind's rounding does not add up.
PulsesKept ==
  \A i \in DOMAIN app.tape.segments :
    LET s     == app.tape.segments[i]
        error == s.ticks * Hz48 - s.nominal * app.tape.hz
    IN IF s.pause THEN error < 2 * Hz48 /\ error > -(2 * Hz48)
                  ELSE 2 * error <= Hz48 /\ 2 * error >= -Hz48

\* The tape counts in the clock of the machine, stops where a tape for this
\* model stops, and its next edge is at most one segment away.
TapeInStep ==
  LET tape == app.tape
  IN tape.inserted =>
       /\ tape.hz = Clock(app.model)
       /\ tape.stop48 <=> app.model = "48K"
       /\ tape.playing => tape.end <= app.tick + TicksOf(tape, tape.index)

\* Every change of machine, load, reset and rewind of the tape keeps the tape
\* in step, whatever it interrupts.  Three steps do not: a cartridge that takes
\* a +3 away from a tape, the rewind of the machine, which leaves the tape
\* where it is, and the tick counter when it wraps.
KeepsStep ==
  [][TapeInStep =>
       \/ TapeInStep'
       \/ OpenCartridge \/ Rewind
       \/ Tick /\ app'.tick < app.tick]_vars

\* While the window exists a media's flag is up exactly when a job of that
\* media is with its thread or in the window's queue, and there is one job.
FlagsMatchJobs ==
  LET media == {workers[i].media : i \in DOMAIN workers}
                 \union {queue[i].job.media : i \in DOMAIN queue}
  IN open => loading = media /\ Len(workers) + Len(queue) <= 1

\* A tape that waits for its LOAD command has the rest of the command, or a key
\* of it, still to come: nothing leaves it waiting, with the emulator at full
\* speed, for a command that is no longer being typed.
PendingIsTyped ==
  app.pending =>
    /\ app.tape.inserted
    /\ app.position < Len(app.text) \/ app.active # None

\* A key that is down in a machine is held by the user or is the one being
\* typed (main.c:4853), and the machine in the background has none down.
KeysReleased ==
  open => \A kind \in Kinds :
    app.keys[kind] \subseteq
      IF kind = app.kind THEN HeldCodes(app) \union {app.active} ELSE {}

\* Typing, changes of machine, loads and keys that change their meaning while
\* they are down leave no key behind.  Two steps do: the rewind, and a snapshot
\* that fails after it has changed the machine, which bring keys back that were
\* down before.
PutBack ==
  /\ Complete /\ app'.model = app.model
  /\ Head(queue).job.media = "snapshot" /\ Head(queue).job.model # app.model
KeepsKeys == [][KeysReleased => KeysReleased' \/ Rewind \/ PutBack]_vars

\* The front end's jobs and its typing never wait for what does not come.
NothingWaits == FlagsMatchJobs /\ PendingIsTyped

\* Tape and keyboard go on as they were over every change of machine.
KeepsTapeAndKeys == KeepsStep /\ KeepsKeys
===============================================================================
