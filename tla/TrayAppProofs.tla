---------------------------- MODULE TrayAppProofs ----------------------------
(***************************************************************************)
(* Proofs about TrayApp for every set of pins and choices and any number   *)
(* of routes.                                                              *)
(***************************************************************************)
EXTENDS TrayApp, TLAPS

Applications == [config: Config, mode: Modes, parts: Parts,
                 diagnostics: Pins \cup {None}, waiting: BOOLEAN, busy: BOOLEAN,
                 unapplied: BOOLEAN]

(* What PartsMatchMode and SessionMatchesConfig say between two handlers,  *)
(* of an application a, a pipeline thread v and an audio thread s.         *)
RightParts(a, v, s) ==
  /\ a.mode = "idle" => a.parts = NoParts /\ ~a.waiting /\ v = Gone /\ s = "none"
  /\ a.mode = "sender" => /\ a.parts.supervisor # None
                          /\ ~a.parts.screen /\ a.parts.feedback = None
                          /\ v = Gone /\ s = "none" /\ ~a.waiting
  /\ a.mode = "receiver" => /\ a.parts.screen
                            /\ a.parts.supervisor = None /\ a.parts.control = None
  /\ a.parts.announcer # None => a.parts.announcer.role = a.mode
  /\ (a.busy <=> a.mode = "receiver")

RightConfig(a, v, s) ==
  /\ a.parts.supervisor # None =>
       /\ a.parts.supervisor.pin = a.config.pin
       /\ a.parts.supervisor.audio = a.config.sendAudio
       /\ a.unapplied \/ a.parts.supervisor.choice = a.config.sendChoice
  /\ a.parts.control \in {None, a.config.pin}
  /\ a.parts.feedback \in {None, a.config.pin}
  /\ a.parts.announcer # None => a.parts.announcer.pin = a.config.pin
  /\ a.diagnostics \in {None, a.config.pin}
  /\ v # Gone => a.unapplied \/ v.choice = a.config.recvChoice
  /\ a.mode = "receiver" => (a.config.recvAudio <=> s # "none")

(* The session a handler is about to end: what the join does not change.   *)
Ending ==
  /\ audio = "none"
  /\ ui.handler = "reload_config" => ui.loaded # None
  /\ app.mode = "sender" => ui.err = FALSE /\ video = Gone
  /\ app.mode # "sender" => app.parts.supervisor = None
  /\ app.diagnostics \in {None, config.pin}

NothingYet ==
  /\ app.mode = "idle" /\ app.parts = NoParts
  /\ app.waiting = FALSE /\ app.busy = FALSE
  /\ app.diagnostics = None
  /\ video = Gone /\ audio = "none" /\ displays = "none"

TrayInv ==
  /\ TypeOK
  /\ Free => RightParts(app, video, audio) /\ RightConfig(app, video, audio)
  /\ ui.at = "stopping" => Ending
  /\ ui.at = "start" => NothingYet
  /\ ui.at = "gone" => app.parts = NoParts

-----------------------------------------------------------------------------
(* Values.                                                                 *)

LEMMA UiStates ==
  TypeOK => \/ ui \in {At(w) : w \in {"start", "event", "reap", "gone"}}
            \/ /\ ui.at = "stopping" /\ ui.err \in BOOLEAN /\ ui.handler \in Handlers
               /\ ui.loaded \in Config \cup {None}
BY DEF TypeOK

LEMMA StoppingType ==
  ASSUME NEW h \in Handlers, NEW e \in BOOLEAN, NEW c \in Config \cup {None}
  PROVE  /\ Stopping(h, e, c) \in [at: {"stopping"}, handler: Handlers, err: BOOLEAN,
                                   loaded: Config \cup {None}]
         /\ Stopping(h, e, c).at = "stopping" /\ Stopping(h, e, c).handler = h
         /\ Stopping(h, e, c).err = e /\ Stopping(h, e, c).loaded = c
BY DEF Stopping

LEMMA ThreadStates ==
  /\ Gone \in Threads /\ Gone.state = "none"
  /\ \A n \in 1..MaxRoutes, c \in Choices :
       Thread(n, c) \in Threads /\ Thread(n, c).choice = c
       /\ Thread(n, c).state = "running" /\ Thread(n, c) # Gone
  /\ \A r \in {"ok", "failed"}, c \in Choices :
       Ended(r, c) \in Threads /\ Ended(r, c).choice = c /\ Ended(r, c).state = r
       /\ Ended(r, c) # Gone
<1>1. Gone \in Threads /\ Gone.state = "none"
  BY DEF Threads, Gone
<1>2. ASSUME NEW n \in 1..MaxRoutes, NEW c \in Choices
      PROVE  Thread(n, c) \in Threads /\ Thread(n, c).choice = c
             /\ Thread(n, c).state = "running"
  <2>1. 1 \in 1..MaxRoutes
    BY RoutesAssumption
  <2> QED BY <2>1 DEF Threads, Thread
<1>3. ASSUME NEW r \in {"ok", "failed"}, NEW c \in Choices
      PROVE  Ended(r, c) \in Threads /\ Ended(r, c).choice = c /\ Ended(r, c).state = r
  <2>1. Ended(r, c) \in Threads
    BY DEF Threads
  <2> QED BY <2>1 DEF Ended
<1> QED BY <1>1, <1>2, <1>3

LEMMA ThreadTypes ==
  ASSUME NEW v \in Threads
  PROVE  /\ v.state = "running" =>
              v \in [state: {"running"}, route: 1..MaxRoutes, routes: 1..MaxRoutes,
                     stop: BOOLEAN, refused: BOOLEAN, choice: Choices]
         /\ v # Gone => v.choice \in Choices
<1>1. CASE v = Gone
  BY <1>1, ThreadStates
<1>2. CASE v \in {Ended(r, c) : r \in {"ok", "failed"}, c \in Choices}
  <2>1. PICK r \in {"ok", "failed"}, c \in Choices : v = Ended(r, c)
    BY <1>2
  <2> QED BY <2>1, ThreadStates
<1> QED BY <1>1, <1>2 DEF Threads

LEMMA SnapshotType ==
  ASSUME NEW c \in Config
  PROVE  /\ SnapshotOf(c) \in Snapshot /\ SnapshotOf(c) # None
         /\ SnapshotOf(c).pin = c.pin /\ SnapshotOf(c).audio = c.sendAudio
         /\ SnapshotOf(c).choice = c.sendChoice
BY NoneAssumption DEF SnapshotOf, Config, Snapshot

LEMMA NoPartsType == NoParts \in Parts
BY DEF NoParts, Parts

LEMMA DiagnosedType ==
  ASSUME NEW a \in Applications, NEW c \in Config
  PROVE  /\ Diagnosed(a, c) \in Applications
         /\ Diagnosed(a, c).config = c /\ Diagnosed(a, c).diagnostics = c.pin
         /\ Diagnosed(a, c).mode = a.mode /\ Diagnosed(a, c).parts = a.parts
         /\ Diagnosed(a, c).waiting = a.waiting /\ Diagnosed(a, c).busy = a.busy
         /\ Diagnosed(a, c).unapplied = a.unapplied
BY DEF Applications, Diagnosed, Config

(* An idle application has nothing that could be wrong. *)
LEMMA IdleIsRight ==
  ASSUME app \in Applications, NEW c \in Config
  PROVE  /\ Idle(c) \in Applications
         /\ Idle(c).config = c /\ Idle(c).mode = "idle"
         /\ Idle(c).diagnostics = app.diagnostics
         /\ RightParts(Idle(c), Gone, "none")
         /\ app.diagnostics \in {None, c.pin} => RightConfig(Idle(c), Gone, "none")
BY NoPartsType DEF Applications, Idle, Modes, RightParts, RightConfig, NoParts

(* A sender that starts from an application without a session. *)
LEMMA SendersAreRight ==
  ASSUME NEW a \in Applications, a.diagnostics \in {None, a.config.pin},
         a.waiting = FALSE, a.busy = FALSE, NEW b \in Senders(a)
  PROVE  /\ b \in Applications /\ b.mode = "sender"
         /\ RightParts(b, Gone, "none") /\ RightConfig(b, Gone, "none")
<1>1. PICK up \in Servers :
        b = [a EXCEPT !.config.startup = "sender", !.mode = "sender",
             !.parts = [NoParts EXCEPT
               !.supervisor = SnapshotOf(a.config),
               !.control = IF up THEN a.config.pin ELSE None,
               !.announcer = IF up THEN [role |-> "sender", pin |-> a.config.pin]
                                   ELSE None]]
  BY DEF Senders
<1>2. /\ a.config \in Config /\ a.config.pin \in Pins
      /\ SnapshotOf(a.config) \in Snapshot /\ SnapshotOf(a.config) # None
  BY SnapshotType DEF Applications, Config
<1>3. /\ b.config = [a.config EXCEPT !.startup = "sender"] /\ b.mode = "sender"
      /\ b.waiting = a.waiting /\ b.busy = a.busy /\ b.diagnostics = a.diagnostics
      /\ b.parts = [supervisor |-> SnapshotOf(a.config), feedback |-> None, screen |-> FALSE,
                    control |-> IF up THEN a.config.pin ELSE None,
                    announcer |-> IF up THEN [role |-> "sender", pin |-> a.config.pin]
                                        ELSE None]
  BY <1>1 DEF Applications, NoParts
<1>4. /\ b.config \in Config /\ b.config.pin = a.config.pin
      /\ b.config.sendAudio = a.config.sendAudio
      /\ b.config.sendChoice = a.config.sendChoice
  BY <1>2, <1>3 DEF Config, Modes
<1>5. b.parts \in Parts
  BY <1>2, <1>3 DEF Parts, Modes
<1>6. b \in Applications
  BY <1>1, <1>3, <1>4, <1>5 DEF Applications, Modes
<1>7. RightParts(b, Gone, "none")
  <2>1. b.mode = "sender" \/ b.mode = "receiver"
    BY <1>3
  <2> QED BY <1>2, <1>3, <2>1 DEF RightParts
<1>8. RightConfig(b, Gone, "none")
  BY <1>2, <1>3, <1>4, SnapshotType DEF RightConfig
<1> QED BY <1>3, <1>6, <1>7, <1>8

(* A receiver with its pipelines. *)
LEMMA ReceiversAreRight ==
  ASSUME NEW a \in Applications, a.diagnostics \in {None, a.config.pin},
         NEW b \in Receivers(a), NEW n \in 1..MaxRoutes,
         NEW s, s = IF a.config.recvAudio THEN "running" ELSE "none"
  PROVE  /\ b \in Applications /\ b.mode = "receiver"
         /\ RightParts(b, Thread(n, a.config.recvChoice), s)
         /\ RightConfig(b, Thread(n, a.config.recvChoice), s)
<1>1. PICK up \in Servers :
        b = [a EXCEPT !.config.startup = "receiver", !.mode = "receiver", !.busy = TRUE,
             !.parts = [NoParts EXCEPT
               !.screen = TRUE,
               !.feedback = IF up THEN a.config.pin ELSE None,
               !.announcer = IF up THEN [role |-> "receiver", pin |-> a.config.pin]
                                   ELSE None]]
  BY DEF Receivers
<1>2. /\ a.config \in Config /\ a.config.pin \in Pins
      /\ a.config.recvChoice \in Choices /\ a.config.recvAudio \in BOOLEAN
  BY DEF Applications, Config
<1>3. /\ b.config = [a.config EXCEPT !.startup = "receiver"] /\ b.mode = "receiver"
      /\ b.waiting = a.waiting /\ b.busy = TRUE /\ b.diagnostics = a.diagnostics
      /\ b.parts = [supervisor |-> None, control |-> None, screen |-> TRUE,
                    feedback |-> IF up THEN a.config.pin ELSE None,
                    announcer |-> IF up THEN [role |-> "receiver", pin |-> a.config.pin]
                                        ELSE None]
  BY <1>1 DEF Applications, NoParts
<1>4. /\ b.config \in Config /\ b.config.pin = a.config.pin
      /\ b.config.recvChoice = a.config.recvChoice /\ b.config.recvAudio = a.config.recvAudio
  BY <1>2, <1>3 DEF Config, Modes
<1>5. b.parts \in Parts
  BY <1>2, <1>3 DEF Parts, Modes
<1>6. b \in Applications
  BY <1>1, <1>3, <1>4, <1>5 DEF Applications, Modes
<1>7. RightParts(b, Thread(n, a.config.recvChoice), s)
  <2>1. b.mode = "sender" \/ b.mode = "receiver"
    BY <1>3
  <2> QED BY <1>2, <1>3, <2>1 DEF RightParts
<1>8. Thread(n, a.config.recvChoice).choice = a.config.recvChoice
  BY <1>2, ThreadStates
<1>9. (a.config.recvAudio <=> s # "none")
  BY <1>2
<1>10. RightConfig(b, Thread(n, a.config.recvChoice), s)
  BY <1>2, <1>3, <1>4, <1>8, <1>9 DEF RightConfig
<1> QED BY <1>3, <1>6, <1>7, <1>10

-----------------------------------------------------------------------------
(* Where a step leads.                                                     *)

LEMMA PlaceFacts == \A w : At(w).at = w
BY DEF At

(* A handler that returns leaves what the mode calls for. *)
LEMMA Returns ==
  ASSUME app' \in Applications, video' \in Threads, audio' \in AudioStates,
         file' \in Config \cup {None}, displays' \in {"none", "borrowed", "left"},
         NEW w \in {"event", "reap"}, ui' = At(w),
         RightParts(app', video', audio'), RightConfig(app', video', audio')
  PROVE  TrayInv'
<1>1. ui'.at \notin {"start", "stopping", "gone"}
  BY PlaceFacts
<1>2. TypeOK'
  BY DEF TypeOK, Applications
<1> QED BY <1>1, <1>2 DEF TrayInv, Free

(* A handler that joins the pipeline thread leaves its session to the join. *)
LEMMA Joins ==
  ASSUME TypeOK, RightParts(app, video, audio),
         app' \in Applications, app'.mode = app.mode, app'.parts = app.parts,
         app'.diagnostics \in {None, app'.config.pin},
         NEW h \in Handlers, NEW c \in Config \cup {None},
         h = "reload_config" => c # None,
         BeginStop(h, c), file' \in Config \cup {None}, displays' = displays
  PROVE  TrayInv'
<1>1. PICK e \in BOOLEAN : /\ ui' = Stopping(h, e, c)
                           /\ audio = "none" => e = FALSE
  BY DEF BeginStop, TypeOK, AudioStates
<1>2. /\ ui' \in [at: {"stopping"}, handler: Handlers, err: BOOLEAN, loaded: Config \cup {None}]
      /\ ui'.at = "stopping" /\ ui'.handler = h /\ ui'.err = e /\ ui'.loaded = c
  BY <1>1, StoppingType
<1>3. video' \in Threads /\ (video = Gone => video' = Gone)
  <2>1. CASE video.state = "running"
    <3>1. video \in [state: {"running"}, route: 1..MaxRoutes, routes: 1..MaxRoutes,
                     stop: BOOLEAN, refused: BOOLEAN, choice: Choices]
      BY <2>1, ThreadTypes DEF TypeOK
    <3>2. video' = [video EXCEPT !.stop = TRUE]
      BY <2>1 DEF BeginStop
    <3>3. video # Gone
      BY <2>1, ThreadStates
    <3>4. video' \in [state: {"running"}, route: 1..MaxRoutes, routes: 1..MaxRoutes,
                      stop: BOOLEAN, refused: BOOLEAN, choice: Choices]
      BY <3>1, <3>2
    <3> QED BY <3>3, <3>4 DEF Threads
  <2>2. CASE video.state # "running"
    BY <2>2 DEF BeginStop, TypeOK
  <2> QED BY <2>1, <2>2
<1>4. audio' = "none"
  BY DEF BeginStop
<1>5. TypeOK'
  BY <1>2, <1>3, <1>4 DEF TypeOK, Applications, AudioStates
<1>6. app.mode \in Modes
  BY DEF TypeOK
<1>7. app.mode # "sender" => app.parts.supervisor = None
  BY <1>6 DEF RightParts, Modes, NoParts
<1>8. app.mode = "sender" => ui'.err = FALSE /\ video' = Gone
  BY <1>1, <1>2, <1>3 DEF RightParts
<1>9. Ending'
  BY <1>2, <1>4, <1>7, <1>8 DEF Ending, config
<1> QED BY <1>2, <1>5, <1>9 DEF TrayInv, Free

(* A handler that starts a mode loads the file, or returns. *)
LEMMA StartsMode ==
  ASSUME TypeOK, RightParts(app, video, audio),
         NEW a \in Applications, a.mode = app.mode, a.parts = app.parts,
         a.waiting = app.waiting, a.busy = app.busy,
         file' = None => RightConfig(a, video, audio),
         file' \in Config \cup {None}, displays' = displays,
         NEW mode \in Modes, StartMode(mode, a)
  PROVE  TrayInv'
<1> DEFINE handler == IF mode = "sender" THEN "start_sender" ELSE "start_receiver"
<1>1. CASE file' = None
  <2>1. app' = a /\ ui' = At("reap") /\ video' = video /\ audio' = audio
    BY <1>1 DEF StartMode
  <2>2. RightParts(a, video, audio)
    BY DEF RightParts
  <2>3. video \in Threads /\ audio \in AudioStates /\ displays \in {"none", "borrowed", "left"}
    BY DEF TypeOK
  <2> QED BY <1>1, <2>1, <2>2, <2>3, Returns
<1>2. CASE file' # None
  <2>1. app' = Diagnosed(a, file') /\ BeginStop(handler, None)
    BY <1>2 DEF StartMode
  <2>2. file' \in Config
    BY <1>2
  <2>3. /\ app' \in Applications /\ app'.mode = app.mode /\ app'.parts = app.parts
        /\ app'.diagnostics = app'.config.pin
    BY <2>1, <2>2, DiagnosedType
  <2>4. handler \in Handlers /\ handler # "reload_config"
    BY DEF Handlers
  <2>5. None \in Config \cup {None}
    OBVIOUS
  <2> HIDE DEF handler
  <2> QED BY <2>1, <2>3, <2>4, <2>5, Joins
<1> QED BY <1>1, <1>2

(* A pipeline thread that plays on, ends or takes a message. *)
LEMMA ThreadMoves ==
  ASSUME TrayInv, video # Gone, video' \in Threads, video' # Gone,
         video'.choice = video.choice,
         UNCHANGED <<app, audio, ui, file, displays>>
  PROVE  TrayInv'
<1>1. TypeOK'
  BY DEF TrayInv, TypeOK
<1>2. app.mode \in Modes
  BY DEF TrayInv, TypeOK
<1>3. ASSUME Free PROVE RightParts(app, video', audio) /\ RightConfig(app, video', audio)
  <2>1. app.mode = "receiver"
    BY <1>2, <1>3 DEF TrayInv, RightParts, Modes
  <2> QED BY <1>3, <2>1 DEF TrayInv, RightParts, RightConfig
<1>4. ui.at = "stopping" => Ending'
  BY DEF TrayInv, Ending, config
<1>5. ui.at # "start"
  BY DEF TrayInv, NothingYet
<1> QED BY <1>1, <1>3, <1>4, <1>5 DEF TrayInv, Free

-----------------------------------------------------------------------------
(* The invariant is inductive.                                             *)

LEMMA InitInv == Init => TrayInv
<1> SUFFICES ASSUME Init PROVE TrayInv
  OBVIOUS
<1>1. file \in Config /\ app.config = file
  BY DEF Init, Config
<1>2. app = [config |-> file, mode |-> "idle", parts |-> NoParts,
             diagnostics |-> None, waiting |-> FALSE, busy |-> FALSE,
             unapplied |-> FALSE]
  BY DEF Init
<1>3. app \in Applications
  BY <1>1, <1>2, NoPartsType DEF Applications, Modes
<1>4. ui = At("start") /\ video = Gone /\ audio = "none" /\ displays = "none"
  BY DEF Init
<1>5. NothingYet
  BY <1>2, <1>4 DEF NothingYet
<1>6. TypeOK
  BY <1>1, <1>3, <1>4, ThreadStates DEF TypeOK, Applications, AudioStates
<1>7. ui.at = "start"
  BY <1>4, PlaceFacts
<1> QED BY <1>5, <1>6, <1>7 DEF TrayInv, Free

(* What runs in a session that is free, by mode. *)
LEMMA FreeFacts ==
  ASSUME TrayInv, Free
  PROVE  /\ TypeOK /\ RightParts(app, video, audio) /\ RightConfig(app, video, audio)
         /\ app \in Applications /\ app.config \in Config /\ app.mode \in Modes
BY DEF TrayInv, TypeOK, Applications

(* A save that may fail leaves a configuration or text that does not parse. *)
LEMMA SavedType ==
  ASSUME TypeOK, NEW c \in Config, Save(c) \/ file' \in Lost(c)
  PROVE  file' \in Config \cup {None}
BY DEF Save, Lost, TypeOK

LEMMA MenuStep ==
  ASSUME TrayInv, StartItem \/ StopItem \/ QuitItem \/ ReloadItem
  PROVE  TrayInv'
<1>1. Free /\ ui.at = "event"
  BY DEF StartItem, StopItem, QuitItem, ReloadItem, Free
<1> USE <1>1, FreeFacts
<1>2. None \in Config \cup {None} /\ file \in Config \cup {None} /\ displays' = displays
      /\ file' = file
  BY DEF TypeOK, StartItem, StopItem, QuitItem, ReloadItem
<1>3. app.diagnostics \in {None, app.config.pin}
  BY DEF RightConfig
<1>4. CASE StartItem
  <2>1. PICK mode \in Modes : StartMode(mode, app)
    BY <1>4 DEF StartItem
  <2> QED BY <1>2, <2>1, StartsMode
<1>5. CASE StopItem
  <2>1. BeginStop("stop", None) /\ app' = app
    BY <1>5 DEF StopItem
  <2> QED BY <1>2, <1>3, <2>1, Joins DEF Handlers
<1>6. CASE QuitItem
  <2>1. BeginStop("quit", None) /\ app' = app
    BY <1>6 DEF QuitItem
  <2> QED BY <1>2, <1>3, <2>1, Joins DEF Handlers
<1>7. CASE ReloadItem
  <2>1. CASE Loads
    <3>1. BeginStop("reload_config", file) /\ app' = app /\ file # None
      BY <1>7, <2>1 DEF ReloadItem, Loads
    <3> QED BY <1>2, <1>3, <3>1, Joins DEF Handlers
  <2>2. CASE ~Loads
    <3>1. ui' = At("reap") /\ video' = video /\ audio' = audio /\ app' = app
      BY <1>7, <2>2 DEF ReloadItem
    <3> QED BY <1>2, <3>1, Returns DEF TypeOK
  <2> QED BY <2>1, <2>2
<1> QED BY <1>4, <1>5, <1>6, <1>7

LEMMA SelectStep ==
  ASSUME TrayInv, SelectItem
  PROVE  TrayInv'
<1>1. Free
  BY DEF SelectItem, Free
<1> USE <1>1, FreeFacts
<1>2. PICK v \in Choices : \/ Select("sender", [config EXCEPT !.sendChoice = v])
                           \/ Select("receiver", [config EXCEPT !.recvChoice = v])
  BY DEF SelectItem
<1>3. PICK c \in Config, mode \in {"sender", "receiver"} :
        /\ Select(mode, c) /\ c.pin = app.config.pin
        /\ c.sendAudio = app.config.sendAudio /\ c.recvAudio = app.config.recvAudio
        /\ mode # "sender" => c.sendChoice = app.config.sendChoice
        /\ mode # "receiver" => c.recvChoice = app.config.recvChoice
  <2>1. CASE Select("sender", [config EXCEPT !.sendChoice = v])
    BY <2>1 DEF config, Config
  <2>2. CASE Select("receiver", [config EXCEPT !.recvChoice = v])
    BY <2>2 DEF config, Config
  <2> QED BY <1>2, <2>1, <2>2
<1>4. file' \in Config \cup {None} /\ displays' = displays
  BY <1>3, SavedType DEF Select, SelectItem
<1>5. CASE app.mode = mode
  <2> DEFINE a == [app EXCEPT !.config = c, !.unapplied = (file' = None)]
  <2>1. StartMode(mode, a)
    BY <1>3, <1>5 DEF Select
  <2>2. /\ a \in Applications /\ a.config = c /\ a.mode = app.mode /\ a.parts = app.parts
        /\ a.waiting = app.waiting /\ a.busy = app.busy /\ a.diagnostics = app.diagnostics
        /\ file' = None => a.unapplied = TRUE
    BY DEF Applications
  <2>3. mode \in Modes
    BY DEF Modes
  <2> HIDE DEF a
  <2>4. file' = None => RightConfig(a, video, audio)
    BY <1>3, <2>2 DEF RightConfig
  <2> QED BY <1>4, <2>1, <2>2, <2>3, <2>4, StartsMode
<1>6. CASE app.mode # mode
  <2> DEFINE a == [app EXCEPT !.config = c]
  <2>1. app' = a /\ ui' = At("reap") /\ video' = video /\ audio' = audio
    BY <1>3, <1>6 DEF Select
  <2>2. /\ a \in Applications /\ a.config = c /\ a.mode = app.mode /\ a.parts = app.parts
        /\ a.waiting = app.waiting /\ a.busy = app.busy /\ a.diagnostics = app.diagnostics
        /\ a.unapplied = app.unapplied
    BY DEF Applications
  <2> HIDE DEF a
  <2>3. RightParts(a, video, audio)
    BY <2>2 DEF RightParts
  <2>4. app.parts.supervisor # None => mode # "sender"
    BY <1>3, <1>6 DEF RightParts, Modes, NoParts
  <2>5. video # Gone => mode # "receiver"
    BY <1>3, <1>6 DEF RightParts, Modes
  <2>6. RightConfig(a, video, audio)
    BY <1>3, <2>2, <2>4, <2>5 DEF RightConfig
  <2> QED BY <1>4, <2>1, <2>2, <2>3, <2>6, Returns DEF TypeOK
<1> QED BY <1>5, <1>6

LEMMA InitializeStep == ASSUME TrayInv, InitializeTray PROVE TrayInv'
<1>1. NothingYet /\ TypeOK /\ ui.at = "start"
  BY DEF TrayInv, InitializeTray
<1>2. app \in Applications /\ app.config \in Config
  BY <1>1 DEF TypeOK, Applications
<1>3. RightParts(app, video, audio)
  BY <1>1 DEF NothingYet, RightParts, NoParts
<1> DEFINE a == Diagnosed(app, config)
<1>4. /\ a \in Applications /\ a.config = app.config /\ a.diagnostics = app.config.pin
      /\ a.mode = app.mode /\ a.parts = app.parts /\ a.waiting = app.waiting
      /\ a.busy = app.busy
  BY <1>2, DiagnosedType DEF config
<1>5. RightConfig(a, video, audio)
  BY <1>1, <1>4 DEF RightConfig, NothingYet, NoParts
<1>6. RightParts(a, video, audio)
  BY <1>3, <1>4 DEF RightParts
<1>7. file' = file /\ file \in Config \cup {None} /\ displays' = displays
  BY <1>1 DEF InitializeTray, TypeOK
<1>8. CASE config.startup = "idle"
  <2>1. app' = a /\ ui' = At("event") /\ video' = video /\ audio' = audio
    BY <1>8 DEF InitializeTray
  <2> HIDE DEF a
  <2> QED BY <1>1, <1>3, <1>4, <1>5, <1>6, <1>7, <2>1, Returns DEF TypeOK
<1>9. CASE config.startup # "idle"
  <2>1. StartMode(config.startup, a)
    BY <1>9 DEF InitializeTray
  <2>2. config.startup \in Modes
    BY <1>2 DEF config, Config
  <2> HIDE DEF a
  <2> QED BY <1>1, <1>3, <1>4, <1>5, <1>7, <2>1, <2>2, StartsMode
<1> QED BY <1>8, <1>9

(* toggle_autostart, an audio toggle that is not saved, and a loop that     *)
(* wakes up for nothing.                                                    *)
LEMMA QuietStep ==
  ASSUME TrayInv, AutostartItem \/ AudioItemNotSaved \/ NoEvent PROVE TrayInv'
<1>1. Free
  BY DEF AutostartItem, AudioItemNotSaved, NoEvent, Free
<1>2. TypeOK /\ config \in Config
  BY <1>1, FreeFacts DEF config
<1>3. file' \in Config \cup {None}
  BY <1>2, SavedType DEF AutostartItem, AudioItemNotSaved, NoEvent, TypeOK
<1>4. ui' = At("reap") /\ UNCHANGED <<app, video, audio, displays>>
  BY DEF AutostartItem, AudioItemNotSaved, NoEvent
<1> QED BY <1>1, <1>3, <1>4, FreeFacts, Returns DEF TypeOK

LEMMA AudioItemStep == ASSUME TrayInv, AudioItem PROVE TrayInv'
<1>1. Free
  BY DEF AudioItem, Free
<1> USE <1>1, FreeFacts
<1> DEFINE on == ~(config.sendAudio /\ config.recvAudio)
           Toggled == [app EXCEPT !.config.sendAudio = on, !.config.recvAudio = on]
<1>2. on \in BOOLEAN
  OBVIOUS
<1>3. /\ ui' = At("reap") /\ video' = video /\ displays' = displays
      /\ file' \in {app'.config, config, Toggled.config, None}
      /\ \/ app.mode = "idle" /\ app' = Toggled /\ audio' = audio
         \/ /\ app.mode = "sender"
            /\ app' = [Toggled EXCEPT !.parts.supervisor.audio = on] /\ audio' = audio
         \/ /\ app.mode = "receiver" /\ app' = Toggled /\ audio' \in AudioStates
            /\ on <=> audio' # "none"
         \/ app.mode = "receiver" /\ app' = app /\ audio' = audio
  <2>1. audio \in AudioStates
    BY DEF TypeOK
  <2> QED BY <2>1 DEF AudioItem, AudioStates
<1> HIDE DEF on
<1>4. /\ Toggled \in Applications /\ Toggled.mode = app.mode /\ Toggled.parts = app.parts
      /\ Toggled.diagnostics = app.diagnostics /\ Toggled.waiting = app.waiting
      /\ Toggled.busy = app.busy /\ Toggled.config.pin = app.config.pin
      /\ Toggled.config.recvChoice = app.config.recvChoice
      /\ Toggled.config.recvAudio = on /\ Toggled.config.sendAudio = on
      /\ Toggled.config.sendChoice = app.config.sendChoice
      /\ Toggled.unapplied = app.unapplied
      /\ Toggled.config = [app.config EXCEPT !.sendAudio = on, !.recvAudio = on]
      /\ Toggled.config \in Config
  BY <1>2 DEF Applications, Config
<1> HIDE DEF Toggled
<1>9. {Toggled.config, config, None} \subseteq Config \cup {None}
  BY <1>4 DEF config
<1>5. CASE app.mode = "idle"
  <2>1. app' = Toggled /\ audio' = audio
    BY <1>3, <1>5
  <2>2. RightParts(Toggled, video, audio) /\ RightConfig(Toggled, video, audio)
    BY <1>4, <1>5 DEF RightParts, RightConfig, NoParts
  <2> QED BY <1>3, <1>4, <1>5, <1>9, <2>1, <2>2, Returns DEF TypeOK
<1>6. CASE app.mode = "sender"
  <2>1. app' = [Toggled EXCEPT !.parts.supervisor.audio = on] /\ audio' = audio
    BY <1>3, <1>6
  <2>2. app.parts \in Parts /\ app.parts.supervisor \in Snapshot
    BY <1>6 DEF Applications, Parts, RightParts
  <2>3. /\ app.parts.supervisor.pin = app.config.pin
        /\ app.unapplied \/ app.parts.supervisor.choice = app.config.sendChoice
    BY <1>6 DEF RightConfig, RightParts
  <2> DEFINE s == [app.parts.supervisor EXCEPT !.audio = on]
  <2>4. /\ s \in Snapshot /\ s.pin = app.parts.supervisor.pin /\ s.audio = on
        /\ s.choice = app.parts.supervisor.choice
    BY <1>2, <2>2 DEF Snapshot
  <2>5. s # None
    BY <2>4, NoneAssumption
  <2>6. /\ app'.parts = [app.parts EXCEPT !.supervisor = s]
        /\ app'.mode = "sender" /\ app'.config = Toggled.config
        /\ app'.diagnostics = app.diagnostics /\ app'.waiting = app.waiting
        /\ app'.busy = app.busy /\ app'.unapplied = app.unapplied
    BY <1>4, <1>6, <2>1, <2>2 DEF Applications
  <2> HIDE DEF s
  <2>7. app'.parts \in Parts
    BY <2>2, <2>4, <2>6 DEF Parts
  <2>8. app' \in Applications
    BY <1>4, <2>1, <2>6, <2>7 DEF Applications, Modes
  <2>9. RightParts(app', video, audio)
    BY <1>6, <2>2, <2>5, <2>6 DEF RightParts, Parts
  <2>10. RightConfig(app', video, audio)
    BY <1>4, <1>6, <2>2, <2>3, <2>4, <2>5, <2>6 DEF RightConfig, RightParts, Parts
  <2> QED BY <1>3, <1>4, <1>9, <2>1, <2>6, <2>8, <2>9, <2>10, Returns DEF TypeOK
<1>7. CASE app.mode = "receiver" /\ app' = Toggled /\ audio' \in AudioStates
           /\ (on <=> audio' # "none")
  <2>1. RightParts(app', video, audio') /\ RightConfig(app', video, audio')
    BY <1>4, <1>7 DEF RightParts, RightConfig
  <2> QED BY <1>3, <1>4, <1>7, <1>9, <2>1, Returns DEF TypeOK
<1>8. CASE app.mode = "receiver" /\ app' = app /\ audio' = audio
  BY <1>3, <1>8, <1>9, Returns DEF TypeOK, config
<1> QED BY <1>3, <1>5, <1>6, <1>7, <1>8

(* HandEdit, the timer and what the pipelines do. *)
LEMMA HandEditStep == ASSUME TrayInv, HandEdit PROVE TrayInv'
<1>1. UNCHANGED <<app, video, audio, ui, displays>>
  BY DEF HandEdit
<1>2. file' \in Config \cup {None}
  <2>1. CASE file' = None
    BY <2>1
  <2>2. CASE file' # None
    <3>1. PICK p \in Pins : file' = [IF Loads THEN file ELSE config EXCEPT !.pin = p]
      BY <2>2 DEF HandEdit
    <3>2. file \in Config \cup {None} /\ config \in Config
      BY DEF TrayInv, TypeOK, config
    <3>3. (IF Loads THEN file ELSE config) \in Config
      BY <3>2 DEF Loads
    <3> DEFINE edited == IF Loads THEN file ELSE config
    <3>4. edited \in Config /\ file' = [edited EXCEPT !.pin = p]
      BY <3>1, <3>3
    <3> HIDE DEF edited
    <3> QED BY <3>4 DEF Config
  <2> QED BY <2>1, <2>2
<1>3. TypeOK'
  BY <1>1, <1>2 DEF TrayInv, TypeOK
<1> QED BY <1>1, <1>3 DEF TrayInv, Free, RightParts, RightConfig, Ending, NothingYet, config

LEMMA RetryStep == ASSUME TrayInv, RetryDue PROVE TrayInv'
<1>1. /\ app.waiting /\ app' = [app EXCEPT !.waiting = FALSE]
      /\ UNCHANGED <<video, audio, ui, file, displays>>
  BY DEF RetryDue
<1>2. app \in Applications
  BY DEF TrayInv, TypeOK, Applications
<1>3. /\ app' \in Applications /\ app'.mode = app.mode /\ app'.config = app.config
      /\ app'.parts = app.parts /\ app'.diagnostics = app.diagnostics
      /\ app'.busy = app.busy /\ app'.waiting = FALSE
      /\ app'.unapplied = app.unapplied
  BY <1>1, <1>2 DEF Applications
<1>4. TypeOK'
  BY <1>1, <1>3 DEF TrayInv, TypeOK, Applications
<1>5. Free => RightParts(app', video, audio)
  BY <1>3 DEF TrayInv, RightParts
<1>6. Free => RightConfig(app', video, audio)
  BY <1>3 DEF TrayInv, RightConfig
<1>7. ui.at = "stopping" => Ending'
  BY <1>1, <1>3 DEF TrayInv, Ending, config
<1>8. ui.at # "start"
  BY <1>1 DEF TrayInv, NothingYet
<1> QED BY <1>1, <1>3, <1>4, <1>5, <1>6, <1>7, <1>8 DEF TrayInv, Free

LEMMA RouteStep ==
  ASSUME TrayInv, RouteEnds \/ RouteFails \/ RouteStops \/ RouteRefusesNull
  PROVE  TrayInv'
<1>1. video.state = "running" /\ UNCHANGED <<app, audio, ui, file, displays>>
  BY DEF RouteEnds, RouteFails, RouteStops, RouteRefusesNull
<1>2. video \in Threads /\ video # Gone
  BY <1>1, ThreadStates DEF TrayInv, TypeOK
<1> DEFINE Running == [state: {"running"}, route: 1..MaxRoutes, routes: 1..MaxRoutes,
                       stop: BOOLEAN, refused: BOOLEAN, choice: Choices]
<1>3. video \in Running /\ video.choice \in Choices
  BY <1>1, <1>2, ThreadTypes
<1>4. ASSUME NEW v \in Running, v.choice = video.choice
      PROVE  NextRoute(v) \in Threads /\ NextRoute(v) # Gone
             /\ NextRoute(v).choice = video.choice
  <2>1. CASE v.route < v.routes /\ ~v.stop
    <3>1. v.route + 1 \in 1..MaxRoutes
      BY <2>1, RoutesAssumption
    <3>2. NextRoute(v) = [v EXCEPT !.route = @ + 1]
      BY <2>1 DEF NextRoute
    <3>3. NextRoute(v) \in Running /\ NextRoute(v).choice = v.choice
      BY <3>1, <3>2
    <3>4. NextRoute(v).state = "running"
      BY <3>3
    <3> QED BY <1>4, <3>3, <3>4, ThreadStates DEF Threads
  <2>2. CASE ~(v.route < v.routes /\ ~v.stop)
    <3>1. PICK r \in {"ok", "failed"} : NextRoute(v) = Ended(r, v.choice)
      BY <2>2 DEF NextRoute
    <3> QED BY <1>3, <1>4, <3>1, ThreadStates
  <2> QED BY <2>1, <2>2
<1>5. CASE RouteEnds \/ RouteStops
  <2>1. video' = Ended("ok", video.choice)
    BY <1>5 DEF RouteEnds, RouteStops
  <2> QED BY <1>1, <1>2, <1>3, <2>1, ThreadStates, ThreadMoves
<1>6. CASE RouteFails
  <2>1. video' = NextRoute(video)
    BY <1>6 DEF RouteFails
  <2> QED BY <1>1, <1>2, <1>3, <1>4, <2>1, ThreadMoves
<1>7. CASE RouteRefusesNull
  <2> DEFINE v == [video EXCEPT !.stop = FALSE, !.refused = TRUE]
  <2>1. video' = NextRoute(v)
    BY <1>7 DEF RouteRefusesNull
  <2>2. v \in Running /\ v.choice = video.choice
    BY <1>3
  <2> HIDE DEF v
  <2> QED BY <1>1, <1>2, <1>4, <2>1, <2>2, ThreadMoves
<1> QED BY <1>5, <1>6, <1>7

LEMMA AudioEndsStep == ASSUME TrayInv, AudioEnds PROVE TrayInv'
<1>1. audio = "running" /\ audio' \in {"ok", "failed"}
      /\ UNCHANGED <<app, video, ui, file, displays>>
  BY DEF AudioEnds
<1>2. TypeOK'
  BY <1>1 DEF TrayInv, TypeOK, AudioStates
<1>3. ui.at # "stopping" /\ ui.at # "start"
  BY <1>1 DEF TrayInv, Ending, NothingYet
<1>4. ASSUME Free
      PROVE  RightParts(app, video, audio') /\ RightConfig(app, video, audio')
  BY <1>1, <1>4 DEF TrayInv, RightParts, RightConfig
<1> QED BY <1>1, <1>2, <1>3, <1>4 DEF TrayInv, Free

LEMMA SupervisorIsASenders ==
  ASSUME TrayInv, app.parts.supervisor # None
  PROVE  app.mode = "sender" /\ ui.at # "start"
<1>1. app.mode \in Modes
  BY DEF TrayInv, TypeOK
<1>2. Free => app.mode = "sender"
  BY <1>1 DEF TrayInv, RightParts, Modes, NoParts
<1>3. ui.at \notin {"start", "gone"}
  BY DEF TrayInv, NothingYet, NoParts
<1>4. ui.at = "stopping" => app.mode = "sender"
  BY DEF TrayInv, Ending
<1>5. ui.at \in {"start", "event", "reap", "gone", "stopping"}
  BY UiStates, PlaceFacts DEF TrayInv
<1> QED BY <1>2, <1>3, <1>4, <1>5 DEF Free

LEMMA SupervisorStep == ASSUME TrayInv, SupervisorPrepares PROVE TrayInv'
<1>1. app.parts.supervisor # None /\ displays' \in {"none", "borrowed"}
      /\ UNCHANGED <<app, video, audio, ui, file>>
  BY DEF SupervisorPrepares
<1>2. TypeOK'
  BY <1>1 DEF TrayInv, TypeOK
<1>3. app.mode = "sender" /\ ui.at # "start"
  BY <1>1, SupervisorIsASenders
<1>4. ui.at = "stopping" => Ending'
  BY <1>1 DEF TrayInv, Ending, config
<1> QED BY <1>1, <1>2, <1>3, <1>4 DEF TrayInv, Free

-----------------------------------------------------------------------------
(* The loop reaps what ended. *)

LEMMA ReapStep ==
  ASSUME TrayInv, NothingToReap \/ RestartReceiver \/ RestartNotBuilt
  PROVE  TrayInv'
<1>1. Free
  BY DEF NothingToReap, RestartReceiver, RestartNotBuilt, ReapAudio, Free
<1> USE <1>1, FreeFacts
<1>2. PICK a \in Applications, v \in Threads :
        /\ ReapAudio(a) /\ video' = v
        /\ RightParts(a, v, audio) /\ RightConfig(a, v, audio) /\ a.mode = app.mode
  <2>1. CASE NothingToReap
    BY <2>1 DEF NothingToReap, TypeOK
  <2>2. CASE RestartReceiver
    <3> DEFINE a == [app EXCEPT !.waiting = TRUE, !.busy = TRUE, !.unapplied = FALSE]
    <3>1. PICK n \in 1..MaxRoutes : video' = Thread(n, config.recvChoice)
      BY <2>2 DEF RestartReceiver
    <3>2. app.mode = "receiver" /\ ReapAudio(a)
      BY <2>2 DEF RestartReceiver, ReapDue
    <3>3. app.config.recvChoice \in Choices
      BY DEF Config
    <3>4. video' \in Threads /\ video'.choice = app.config.recvChoice
      BY <3>1, <3>3, ThreadStates DEF config
    <3>5. /\ a \in Applications /\ a.mode = app.mode /\ a.parts = app.parts
          /\ a.config = app.config /\ a.diagnostics = app.diagnostics /\ a.busy = TRUE
      BY DEF Applications
    <3> HIDE DEF a
    <3>6. RightParts(a, video', audio) /\ RightConfig(a, video', audio)
      BY <3>2, <3>4, <3>5 DEF RightParts, RightConfig
    <3> QED BY <3>2, <3>4, <3>5, <3>6
  <2>3. CASE RestartNotBuilt
    <3> DEFINE a == [app EXCEPT !.waiting = TRUE]
    <3>1. app.mode = "receiver" /\ ReapAudio(a) /\ video' = Gone
      BY <2>3 DEF RestartNotBuilt, ReapDue
    <3>2. /\ a \in Applications /\ a.mode = app.mode /\ a.parts = app.parts
          /\ a.config = app.config /\ a.diagnostics = app.diagnostics /\ a.busy = app.busy
          /\ a.unapplied = app.unapplied
      BY DEF Applications
    <3> HIDE DEF a
    <3>3. RightParts(a, Gone, audio) /\ RightConfig(a, Gone, audio)
      BY <3>1, <3>2 DEF RightParts, RightConfig
    <3> QED BY <3>1, <3>2, <3>3, ThreadStates
  <2> QED BY <2>1, <2>2, <2>3
<1>3. ui' = At("event") /\ displays' = displays
  BY <1>2 DEF ReapAudio
<1>4. CASE audio \in {"ok", "failed"}
  <2> DEFINE b == [a EXCEPT !.config.recvAudio = FALSE]
  <2>1. audio' = "none" /\ app' = b /\ Save(app'.config)
    BY <1>2, <1>4 DEF ReapAudio
  <2>2. a.mode = "receiver"
    BY <1>2, <1>4 DEF RightParts, Modes
  <2>3. /\ b \in Applications /\ b.mode = a.mode /\ b.parts = a.parts
        /\ b.diagnostics = a.diagnostics /\ b.busy = a.busy /\ b.waiting = a.waiting
        /\ b.unapplied = a.unapplied
        /\ b.config = [a.config EXCEPT !.recvAudio = FALSE] /\ b.config \in Config
    BY DEF Applications, Config
  <2>4. /\ b.config.pin = a.config.pin /\ b.config.recvChoice = a.config.recvChoice
        /\ b.config.recvAudio = FALSE
    BY <2>3 DEF Applications, Config
  <2> HIDE DEF b
  <2>5. RightParts(b, v, "none") /\ RightConfig(b, v, "none")
    BY <1>2, <2>2, <2>3, <2>4 DEF RightParts, RightConfig
  <2>6. file' \in Config \cup {None}
    BY <2>1, <2>3, SavedType
  <2> QED BY <1>2, <1>3, <2>1, <2>3, <2>5, <2>6, Returns DEF TypeOK, AudioStates
<1>5. CASE audio \notin {"ok", "failed"}
  <2>1. app' = a /\ audio' = audio /\ file' = file
    BY <1>2, <1>5 DEF ReapAudio
  <2> QED BY <1>2, <1>3, <2>1, Returns DEF TypeOK
<1> QED BY <1>4, <1>5

-----------------------------------------------------------------------------
(* What a handler does once the pipeline thread has ended. *)

LEMMA DisplaysType ==
  ASSUME TypeOK, NEW c
  PROVE  /\ Kept(c) \in {"none", "borrowed", "left"}
         /\ Released(c) \subseteq {"none", "borrowed", "left"}
         /\ app.mode = "sender" => Released(c) \subseteq {"none", "left"}
BY DEF Kept, Released, TypeOK

LEMMA StoppedFacts ==
  ASSUME TrayInv, Stopped
  PROVE  /\ TypeOK /\ Ending /\ app \in Applications /\ app.config = config
         /\ config \in Config /\ audio = "none" /\ app.diagnostics \in {None, config.pin}
         /\ ui.handler \in Handlers /\ ui.loaded \in Config \cup {None}
         /\ StopFailed => app.mode # "sender"
<1>1. TypeOK /\ Ending /\ ui.at = "stopping"
  BY DEF TrayInv, Stopped
<1>2. ui \in [at: {"stopping"}, handler: Handlers, err: BOOLEAN, loaded: Config \cup {None}]
  BY <1>1, PlaceFacts DEF TypeOK
<1>3. StopFailed => app.mode # "sender"
  BY <1>1, ThreadStates DEF StopFailed, Ending
<1>4. app \in Applications /\ config \in Config
  BY <1>1 DEF TypeOK, Applications, config
<1> QED BY <1>1, <1>2, <1>3, <1>4 DEF Ending, config

LEMMA AbandonStep == ASSUME TrayInv, AbandonStart PROVE TrayInv'
<1>1. Stopped /\ StopFailed /\ ui' = At("reap")
  BY DEF AbandonStart, Continue
<1> USE <1>1, StoppedFacts
<1>2. /\ app' = Idle(config) /\ video' = Gone /\ audio' = "none" /\ file' = file
      /\ displays' \in Released(config) \cup {displays}
  BY DEF AbandonStart
<1>3. displays' \in {"none", "borrowed", "left"}
  BY <1>2, DisplaysType DEF TypeOK
<1> QED BY <1>2, <1>3, IdleIsRight, ThreadStates, Returns DEF TypeOK, AudioStates

(* A start that leads to a session of the other mode, from nothing. *)
LEMMA SendsFrom ==
  ASSUME TypeOK, audio = "none", NEW a \in Applications,
         a.diagnostics \in {None, a.config.pin}, a.waiting = FALSE, a.busy = FALSE,
         SendFrom(a), ui' = At("reap"), displays' \in {"none", "borrowed", "left"}
  PROVE  TrayInv'
<1>1. app' \in Senders(a) /\ Save(app'.config) /\ video' = Gone /\ audio' = "none"
  BY DEF SendFrom
<1>2. /\ app' \in Applications /\ app'.mode = "sender"
      /\ RightParts(app', Gone, "none") /\ RightConfig(app', Gone, "none")
  BY <1>1, SendersAreRight
<1>3. file' \in Config \cup {None}
  BY <1>1, <1>2, SavedType DEF Applications
<1> QED BY <1>1, <1>2, <1>3, ThreadStates, Returns DEF AudioStates

LEMMA ReceivesFrom ==
  ASSUME TypeOK, audio = "none", NEW a \in Applications,
         a.diagnostics \in {None, a.config.pin}, a.waiting = FALSE, a.busy = FALSE,
         a.mode = "idle", a.parts = NoParts,
         ReceiveFrom(a), ui' = At("reap"), displays' \in {"none", "borrowed", "left"}
  PROVE  TrayInv'
<1>1. CASE /\ app' \in Receivers(a) /\ Save(app'.config)
           /\ \E n \in 1..MaxRoutes : video' = Thread(n, a.config.recvChoice)
           /\ audio' = IF a.config.recvAudio THEN "running" ELSE "none"
  <2>1. PICK n \in 1..MaxRoutes : video' = Thread(n, a.config.recvChoice)
    BY <1>1
  <2>2. /\ app' \in Applications
        /\ RightParts(app', video', audio') /\ RightConfig(app', video', audio')
    BY <1>1, <2>1, ReceiversAreRight
  <2>3. file' \in Config \cup {None} /\ a.config.recvChoice \in Choices
    BY <1>1, <2>2, SavedType DEF Applications, Config
  <2>4. video' \in Threads /\ audio' \in AudioStates
    BY <1>1, <2>1, <2>3, ThreadStates DEF AudioStates
  <2> QED BY <1>1, <2>2, <2>3, <2>4, Returns
<1>2. CASE app' = a /\ video' = Gone /\ audio' = audio /\ file' = file
  <2>1. RightParts(a, Gone, "none") /\ RightConfig(a, Gone, "none")
    BY DEF RightParts, RightConfig, NoParts
  <2> QED BY <1>2, <2>1, ThreadStates, Returns DEF TypeOK, AudioStates
<1> QED BY <1>1, <1>2 DEF ReceiveFrom

LEMMA FinishStep ==
  ASSUME TrayInv,
         \/ FinishStartSender \/ FinishStartReceiver \/ FinishReloadConfig \/ FinishStop
  PROVE  TrayInv'
<1>1. Stopped /\ ui' = At("reap")
  BY DEF FinishStartSender, FinishStartReceiver, FinishReloadConfig, FinishStop, Continue
<1> USE <1>1, StoppedFacts
<1>2. ASSUME NEW c \in Config
      PROVE  /\ Idle(c) \in Applications /\ Idle(c).config = c /\ Idle(c).mode = "idle"
             /\ Idle(c).diagnostics = app.diagnostics /\ Idle(c).parts = NoParts
             /\ Idle(c).waiting = FALSE /\ Idle(c).busy = FALSE
  BY IdleIsRight DEF Idle
<1>3. CASE FinishStartSender
  <2>1. SendFrom(Idle(config)) /\ displays' = Kept(config)
    BY <1>3 DEF FinishStartSender
  <2> QED BY <1>2, <2>1, DisplaysType, SendsFrom
<1>4. CASE FinishStartReceiver
  <2>1. ReceiveFrom(Idle(config)) /\ displays' \in {"none", "borrowed", "left"}
    BY <1>4, DisplaysType DEF FinishStartReceiver
  <2> QED BY <1>2, <2>1, ReceivesFrom
<1>5. CASE FinishReloadConfig
  <2> DEFINE reloaded == Diagnosed(Idle(ui.loaded), ui.loaded)
  <2>1. ui.loaded \in Config
    BY <1>5 DEF FinishReloadConfig, Continue, Ending
  <2>2. /\ reloaded \in Applications /\ reloaded.config = ui.loaded
        /\ reloaded.diagnostics = ui.loaded.pin /\ reloaded.mode = "idle"
        /\ reloaded.parts = NoParts /\ reloaded.waiting = FALSE /\ reloaded.busy = FALSE
    BY <1>2, <2>1, DiagnosedType
  <2>3. ASSUME Loads
        PROVE  /\ Diagnosed(reloaded, file) \in Applications
               /\ Diagnosed(reloaded, file).config = file
               /\ Diagnosed(reloaded, file).diagnostics = file.pin
               /\ Diagnosed(reloaded, file).mode = "idle"
               /\ Diagnosed(reloaded, file).parts = NoParts
               /\ Diagnosed(reloaded, file).waiting = FALSE
               /\ Diagnosed(reloaded, file).busy = FALSE
    <3>1. file \in Config
      BY <2>3 DEF Loads, TypeOK
    <3> HIDE DEF reloaded
    <3> QED BY <2>2, <3>1, DiagnosedType
  <2>4. CASE /\ app' = reloaded /\ video' = Gone
             /\ UNCHANGED <<audio, file, displays>>
    <3>1. displays' \in {"none", "borrowed", "left"}
      BY <2>4 DEF TypeOK
    <3>2. RightParts(reloaded, Gone, "none") /\ RightConfig(reloaded, Gone, "none")
      BY <2>2 DEF RightParts, RightConfig, NoParts
    <3> HIDE DEF reloaded
    <3> QED BY <2>2, <2>4, <3>1, <3>2, ThreadStates, Returns DEF TypeOK, AudioStates
  <2>5. CASE Loads /\ SendFrom(Diagnosed(reloaded, file)) /\ displays' = Kept(file)
    <3>1. displays' \in {"none", "borrowed", "left"}
      BY <2>5, DisplaysType
    <3> HIDE DEF reloaded
    <3> QED BY <2>3, <2>5, <3>1, SendsFrom
  <2>6. CASE /\ app.mode = "receiver" /\ Loads
             /\ ReceiveFrom(Diagnosed(reloaded, file)) /\ displays' = displays
    <3>1. displays' \in {"none", "borrowed", "left"}
      BY <2>6 DEF TypeOK
    <3> HIDE DEF reloaded
    <3> QED BY <2>3, <2>6, <3>1, ReceivesFrom
  <2> QED BY <1>5, <2>4, <2>5, <2>6 DEF FinishReloadConfig
<1>6. CASE FinishStop
  <2> DEFINE c == [config EXCEPT !.startup = "idle"]
  <2>1. c \in Config /\ c.pin = config.pin
    BY DEF Config, Modes
  <2>2. /\ app' = Idle(c) /\ Save(app'.config) /\ video' = Gone /\ audio' = "none"
        /\ displays' \in {"none", "borrowed", "left"}
    BY <1>6, DisplaysType DEF FinishStop
  <2> HIDE DEF c
  <2>3. file' \in Config \cup {None}
    BY <1>2, <2>1, <2>2, SavedType
  <2> QED BY <2>1, <2>2, <2>3, IdleIsRight, ThreadStates, Returns DEF AudioStates
<1> QED BY <1>3, <1>4, <1>5, <1>6

LEMMA QuitStep == ASSUME TrayInv, FinishQuit PROVE TrayInv'
<1>1. Stopped /\ ui' = At("gone")
  BY DEF FinishQuit
<1> USE <1>1, StoppedFacts
<1>2. /\ app' = [Idle(config) EXCEPT !.diagnostics = None] /\ video' = Gone
      /\ audio' = "none" /\ file' = file /\ displays' \in {"none", "borrowed", "left"}
  BY DisplaysType DEF FinishQuit
<1>3. app' \in Applications
  BY <1>2, IdleIsRight DEF Applications
<1>4. TypeOK'
  BY <1>1, <1>2, <1>3, ThreadStates DEF TypeOK, Applications, AudioStates
<1>5. ui'.at = "gone"
  BY <1>1, PlaceFacts
<1>6. app'.parts = NoParts
  BY <1>2, IdleIsRight DEF Idle
<1> QED BY <1>4, <1>5, <1>6 DEF TrayInv, Free

LEMMA NextInv == TrayInv /\ [Next]_vars => TrayInv'
<1> SUFFICES ASSUME TrayInv, [Next]_vars PROVE TrayInv'
  OBVIOUS
<1>1. CASE User
  BY <1>1, MenuStep, SelectStep, QuietStep, AudioItemStep, HandEditStep DEF User
<1>2. CASE MainLoop
  BY <1>2, InitializeStep, QuietStep, ReapStep, AbandonStep, FinishStep, QuitStep DEF MainLoop
<1>3. CASE RetryDue
  BY <1>3, RetryStep
<1>4. CASE RouteEnds \/ RouteFails \/ TakesStop
  BY <1>4, RouteStep DEF TakesStop
<1>5. CASE AudioEnds
  BY <1>5, AudioEndsStep
<1>6. CASE SupervisorPrepares
  BY <1>6, SupervisorStep
<1>7. CASE UNCHANGED vars
  BY <1>7 DEF vars, TrayInv, TypeOK, Free, RightParts, RightConfig, Ending, NothingYet, config
<1> QED BY <1>1, <1>2, <1>3, <1>4, <1>5, <1>6, <1>7 DEF Next

THEOREM Invariant == Spec => []TrayInv
<1> QED BY InitInv, NextInv, PTL DEF Spec

-----------------------------------------------------------------------------
(* Every variable keeps its type: config.toml and the application's         *)
(* configuration, the session's parts, the pipeline threads and the handler *)
(* that waits.                                                              *)
THEOREM TypeCorrect == Spec => []TypeOK
<1>1. TrayInv => TypeOK
  BY DEF TrayInv
<1> QED BY <1>1, Invariant, PTL

(* Whatever the user clicks and edits, whatever fails and however often the *)
(* receiver's pipeline ends: between two handlers the session has exactly   *)
(* the parts its mode calls for (start_sender, start_receiver,              *)
(* reload_config, stop_current).                                            *)
THEOREM PartsAlwaysMatch == Spec => []PartsMatchMode
<1>1. TrayInv => PartsMatchMode
  BY DEF TrayInv, RightParts, PartsMatchMode, IdleHasNothing, SenderHasItsParts,
         ReceiverHasItsParts
<1> QED BY <1>1, Invariant, PTL

(* Between two handlers every part of the session runs with the             *)
(* configuration the application holds, whatever edit, load or save fails,  *)
(* but for the pick of a menu that a file that does not load kept from the  *)
(* session (save_config, select_gpu and its like, start_sender).            *)
THEOREM SessionFollowsConfig == Spec => []SessionMatchesConfig
<1>1. TrayInv => SessionMatchesConfig
  <2> SUFFICES ASSUME TrayInv, Free PROVE SessionMatchesConfig
    BY DEF SessionMatchesConfig
  <2> USE FreeFacts
  <2>1. ASSUME app.parts.supervisor # None
        PROVE  \E v \in InUse(config.sendChoice) :
                 app.parts.supervisor = SnapshotOf([config EXCEPT !.sendChoice = v])
    <3> DEFINE s == app.parts.supervisor
    <3>1. s \in Snapshot
      BY <2>1 DEF Applications, Parts
    <3>2. /\ s.pin = config.pin /\ s.audio = config.sendAudio
          /\ app.unapplied \/ s.choice = config.sendChoice
      BY <2>1 DEF RightConfig, config
    <3>3. s.choice \in InUse(config.sendChoice)
      BY <3>1, <3>2 DEF InUse, Snapshot
    <3>4. s = [pin |-> s.pin, audio |-> s.audio, choice |-> s.choice]
      BY <3>1 DEF Snapshot
    <3>5. SnapshotOf([config EXCEPT !.sendChoice = s.choice])
            = [pin |-> config.pin, audio |-> config.sendAudio, choice |-> s.choice]
      BY DEF SnapshotOf, config, Config
    <3> QED BY <3>2, <3>3, <3>4, <3>5
  <2>2. video # Gone => video.choice \in InUse(config.recvChoice)
    BY ThreadTypes DEF RightConfig, InUse, config, TypeOK
  <2> QED BY <2>1, <2>2 DEF SessionMatchesConfig, RightConfig, config
<1> QED BY <1>1, Invariant, PTL

LEMMA ForgetsNothing ==
  ASSUME TrayInv, [Next]_vars, Forgotten'
  PROVE  Forgotten \/ ReloadFails
<1>1. TrayInv' /\ TypeOK'
  BY NextInv DEF TrayInv
<1>2. CASE app'.mode = app.mode /\ displays' = displays
  BY <1>2 DEF Forgotten
<1>3. CASE app.mode # "sender" /\ displays' = displays
  BY <1>3 DEF Forgotten
<1>4. ASSUME NEW mode, NEW a \in Applications, a.mode = app.mode, StartMode(mode, a)
      PROVE  app'.mode = app.mode
  <2>1. app' = a \/ (app' = Diagnosed(a, file') /\ file' # None)
    BY <1>4 DEF StartMode
  <2>2. file' # None => file' \in Config
    BY <1>1 DEF TypeOK
  <2> QED BY <1>4, <2>1, <2>2, DiagnosedType
<1>5. app \in Applications /\ app.config \in Config
  BY DEF TrayInv, TypeOK, Applications
<1>6. CASE StartItem \/ InitializeTray
  <2>1. displays' = displays
    BY <1>6 DEF StartItem, InitializeTray
  <2>2. CASE StartItem
    BY <1>2, <1>4, <1>5, <2>1, <2>2 DEF StartItem
  <2>3. CASE InitializeTray
    BY <1>2, <1>4, <1>5, <2>1, <2>3, DiagnosedType DEF InitializeTray, config
  <2> QED BY <1>6, <2>2, <2>3
<1>7. CASE SelectItem
  <2>1. PICK mode \in {"sender", "receiver"}, c \in Config : Select(mode, c)
    BY <1>5, <1>7 DEF SelectItem, Config, config
  <2> DEFINE a == [app EXCEPT !.config = c, !.unapplied = (file' = None)]
             b == [app EXCEPT !.config = c]
  <2>2. a \in Applications /\ a.mode = app.mode /\ b.mode = app.mode
    BY <1>5 DEF Applications
  <2>3. StartMode(mode, a) \/ app' = b
    BY <2>1 DEF Select
  <2>4. displays' = displays
    BY <1>7 DEF SelectItem
  <2> HIDE DEF a, b
  <2> QED BY <1>2, <1>4, <2>2, <2>3, <2>4
<1>8. CASE AudioItem
  <2>1. app'.mode = app.mode
    BY <1>5, <1>8 DEF AudioItem, Applications
  <2> QED BY <1>2, <1>8, <2>1 DEF AudioItem
<1>9. CASE \/ StopItem \/ QuitItem \/ ReloadItem \/ AutostartItem \/ AudioItemNotSaved
           \/ HandEdit \/ NoEvent \/ TakesStop \/ RouteEnds \/ RouteFails \/ AudioEnds
           \/ UNCHANGED vars
  <2>1. app' = app /\ displays' = displays
    BY <1>9 DEF StopItem, QuitItem, ReloadItem, AutostartItem, AudioItemNotSaved, HandEdit,
      NoEvent, TakesStop, RouteStops, RouteRefusesNull, RouteEnds, RouteFails, AudioEnds, vars
  <2> QED BY <1>2, <2>1
<1>10. CASE NothingToReap \/ RestartReceiver \/ RestartNotBuilt \/ RetryDue
  <2>1. app'.mode = app.mode
    BY <1>5, <1>10 DEF NothingToReap, RestartReceiver, RestartNotBuilt, RetryDue, ReapAudio,
      Applications
  <2>2. displays' = displays
    BY <1>10 DEF NothingToReap, RestartReceiver, RestartNotBuilt, RetryDue, ReapAudio
  <2> QED BY <1>2, <2>1, <2>2
<1>11. CASE SupervisorPrepares
  <2>1. app'.mode = "sender"
    BY <1>11, SupervisorIsASenders DEF SupervisorPrepares
  <2> QED BY <2>1 DEF Forgotten
<1>12. CASE displays' \in Released(config)
  BY <1>3, <1>12, DisplaysType DEF Forgotten, Released, TrayInv
<1>13. CASE FinishStartReceiver \/ FinishStop \/ FinishQuit
  BY <1>12, <1>13 DEF FinishStartReceiver, FinishStop, FinishQuit
<1>14. CASE AbandonStart
  BY <1>3, <1>12, <1>14, StoppedFacts DEF AbandonStart, Continue
<1>15. ASSUME Stopped, NEW a \in Applications, SendFrom(a)
       PROVE  app'.mode = "sender"
  BY <1>15 DEF SendFrom, Senders, Applications
<1>16. CASE FinishStartSender
  BY <1>5, <1>15, <1>16, IdleIsRight DEF FinishStartSender, Continue, Forgotten, config
<1>17. CASE FinishReloadConfig
  <2>1. Stopped /\ ui.at = "stopping" /\ ui.handler = "reload_config"
    BY <1>17 DEF FinishReloadConfig, Continue, Stopped
  <2>2. CASE ~Loads
    BY <2>1, <2>2 DEF ReloadFails
  <2>3. CASE Loads /\ app.mode = "sender"
    <3>1. ui.loaded \in Config /\ file \in Config
      BY <2>1, <2>3, StoppedFacts DEF Ending, Loads, TypeOK
    <3>2. Diagnosed(Diagnosed(Idle(ui.loaded), ui.loaded), file) \in Applications
      BY <1>5, <3>1, IdleIsRight, DiagnosedType
    <3>3. SendFrom(Diagnosed(Diagnosed(Idle(ui.loaded), ui.loaded), file))
      BY <1>17, <2>3 DEF FinishReloadConfig
    <3> QED BY <1>15, <2>1, <3>2, <3>3 DEF Forgotten
  <2>4. CASE Loads /\ app.mode # "sender"
    BY <1>3, <1>17, <2>4 DEF FinishReloadConfig
  <2> QED BY <2>2, <2>3, <2>4
<1> QED BY <1>6, <1>7, <1>8, <1>9, <1>10, <1>11, <1>13, <1>14, <1>16, <1>17
        DEF Next, User, MainLoop

(* No step ends a sender session and leaves the displays it brought up      *)
(* undecided, but for a reload that cannot load the file a second time:     *)
(* the supervisor works for a sender alone, the ends of a session ask       *)
(* Released, and a sender's start that fails has failed nothing             *)
(* (end_session, release_sender_virtual_displays, reload_config).           *)
THEOREM DisplaysReturned == Spec => DisplaysAreGivenBack
<1>1. TrayInv /\ [Next]_vars => [Forgotten' => Forgotten \/ ReloadFails]_vars
  BY ForgetsNothing
<1> QED BY <1>1, Invariant, PTL DEF Spec, DisplaysAreGivenBack

=============================================================================
