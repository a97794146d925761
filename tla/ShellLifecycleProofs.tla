------------------------- MODULE ShellLifecycleProofs -------------------------
(***************************************************************************)
(* Proofs about ShellLifecycle for every assignment of the task runners to *)
(* threads and any numbers of surfaces and frames.                         *)
(*                                                                         *)
(* The inductive invariant Inv says where a task may be at which statement *)
(* of which call: an awaited task is queued, or on its way to its latch,   *)
(* or has set it, and this only from the statement that sends it to the    *)
(* one that waits for it (Tokens).  From this follows which objects exist  *)
(* at each statement (AliveAt), and that what the tasks to come use is     *)
(* there (Claims).  Tasks nobody waits for are over because a task that is *)
(* awaited was queued behind them (Barriers, Surfaces).                    *)
(*                                                                         *)
(* The steps of the system are first restated one by one, with what they   *)
(* execute (TaskStep, CallStep); each part of the invariant then has a     *)
(* lemma that says that these steps keep it, and the calls of the embedder *)
(* and the steps of the waiter come last.                                  *)
(*                                                                         *)
(* A creation that fails leaves its tasks behind, and nothing waits for    *)
(* them: from then on Abandoned holds in place of Inv.  It says what is    *)
(* left (LeftTasks, LeftStatements), which can only use the view and the   *)
(* promises, and that the destructor reaches the engine after it has       *)
(* drained its own runner.  That little is left follows from Young, a part *)
(* of Inv.                                                                 *)
(*                                                                         *)
(* A second invariant, Progress, follows what a call and its tasks wait    *)
(* for to the thread that is to provide it: that thread is another one,    *)
(* and the threads that wait do so in no circle (NobodyIsStuck).           *)
(***************************************************************************)
EXTENDS ShellLifecycle, SequenceTheorems, TLAPS

-----------------------------------------------------------------------------
(* Sequences and what they hold.                                           *)

Elements(q) == {q[i] : i \in 1..Len(q)}

\* At most one position of q holds a.
Once(q, a) == \A i, j \in 1..Len(q) : q[i] = a /\ q[j] = a => i = j

\* No member of A stands behind an a.
NoneBehind(q, a, A) == \A i, j \in 1..Len(q) : i < j /\ q[i] = a => q[j] \notin A

LEMMA NilElements == Elements(<<>>) = {}
  BY DEF Elements

LEMMA TailElements ==
  ASSUME NEW S, NEW q \in Seq(S), q # <<>>
  PROVE  /\ Tail(q) \in Seq(S) /\ Head(q) \in S /\ Head(q) \in Elements(q)
         /\ Elements(q) = {Head(q)} \cup Elements(Tail(q))
  <1>1. Len(q) \in Nat /\ Len(q) >= 1 /\ Len(Tail(q)) = Len(q) - 1 OBVIOUS
  <1>2. \A i \in 1..Len(Tail(q)) : i + 1 \in 1..Len(q) /\ Tail(q)[i] = q[i + 1]
    BY <1>1
  <1>3. \A i \in 1..Len(q) : i = 1 \/ (i - 1 \in 1..Len(Tail(q)) /\ q[i] = Tail(q)[i - 1])
    BY <1>1
  <1>4. Head(q) = q[1] /\ 1 \in 1..Len(q) BY <1>1
  <1>5. Elements(Tail(q)) \subseteq Elements(q) BY <1>2 DEF Elements
  <1>6. Head(q) \in Elements(q) BY <1>4 DEF Elements
  <1>7. ASSUME NEW x \in Elements(q) PROVE x \in {Head(q)} \cup Elements(Tail(q))
    <2>1. PICK i \in 1..Len(q) : x = q[i] BY DEF Elements
    <2>2. CASE i = 1 BY <2>1, <2>2, <1>4
    <2>3. CASE i # 1 BY <2>1, <2>3, <1>3 DEF Elements
    <2> QED BY <2>2, <2>3
  <1> QED BY <1>5, <1>6, <1>7

LEMMA AppendElements ==
  ASSUME NEW S, NEW q \in Seq(S), NEW a \in S
  PROVE  /\ Append(q, a) \in Seq(S)
         /\ Elements(Append(q, a)) = Elements(q) \cup {a}
  <1> DEFINE r == Append(q, a)
  <1>1. Len(q) \in Nat /\ Len(r) = Len(q) + 1 /\ r[Len(r)] = a OBVIOUS
  <1>2. \A i \in 1..Len(q) : i \in 1..Len(r) /\ r[i] = q[i] BY <1>1
  <1>3. \A i \in 1..Len(r) : i \in 1..Len(q) \/ i = Len(r) BY <1>1
  <1>4. Len(r) \in 1..Len(r) BY <1>1
  <1>5. r \in Seq(S) OBVIOUS
  <1> HIDE DEF r
  <1>6. Elements(r) = Elements(q) \cup {a} BY <1>1, <1>2, <1>3, <1>4 DEF Elements
  <1> QED BY <1>5, <1>6 DEF r

LEMMA ConcatElements ==
  ASSUME NEW S, NEW p \in Seq(S), NEW q \in Seq(S)
  PROVE  p \o q \in Seq(S) /\ Elements(p \o q) = Elements(p) \cup Elements(q)
  <1> DEFINE r == p \o q
  <1>1. Len(p) \in Nat /\ Len(q) \in Nat /\ Len(r) = Len(p) + Len(q) OBVIOUS
  <1>2. \A i \in 1..Len(p) : i \in 1..Len(r) /\ r[i] = p[i] BY <1>1
  <1>3. \A i \in 1..Len(q) : i + Len(p) \in 1..Len(r) /\ r[i + Len(p)] = q[i] BY <1>1
  <1>4. \A i \in 1..Len(r) : \/ i \in 1..Len(p)
                             \/ i - Len(p) \in 1..Len(q) /\ r[i] = q[i - Len(p)]
    BY <1>1
  <1>5. r \in Seq(S) OBVIOUS
  <1> HIDE DEF r
  <1>6. Elements(p) \subseteq Elements(r) BY <1>2 DEF Elements
  <1>7. Elements(q) \subseteq Elements(r) BY <1>3 DEF Elements
  <1>8. ASSUME NEW x \in Elements(r) PROVE x \in Elements(p) \cup Elements(q)
    <2>1. PICK i \in 1..Len(r) : x = r[i] BY DEF Elements
    <2> QED BY <2>1, <1>2, <1>4 DEF Elements
  <1> QED BY <1>5, <1>6, <1>7, <1>8 DEF r

LEMMA OnceTail ==
  ASSUME NEW S, NEW q \in Seq(S), q # <<>>, NEW a, Once(q, a)
  PROVE  Once(Tail(q), a) /\ (Head(q) = a => a \notin Elements(Tail(q)))
  <1>1. Len(q) \in Nat /\ Len(q) >= 1 /\ Len(Tail(q)) = Len(q) - 1 OBVIOUS
  <1>2. \A i \in 1..Len(Tail(q)) : i + 1 \in 1..Len(q) /\ Tail(q)[i] = q[i + 1] /\ i + 1 # 1
    BY <1>1
  <1>3. Head(q) = q[1] /\ 1 \in 1..Len(q) BY <1>1
  <1> QED BY <1>1, <1>2, <1>3 DEF Elements, Once

LEMMA OnceAppend ==
  ASSUME NEW S, NEW q \in Seq(S), NEW b \in S, NEW a, Once(q, a), b = a => a \notin Elements(q)
  PROVE  Once(Append(q, b), a)
  <1> DEFINE r == Append(q, b)
  <1>1. Len(q) \in Nat /\ Len(r) = Len(q) + 1 /\ r[Len(r)] = b OBVIOUS
  <1>2. \A i \in 1..Len(r) : (i \in 1..Len(q) /\ r[i] = q[i]) \/ (i = Len(r) /\ r[i] = b) BY <1>1
  <1> HIDE DEF r
  <1>3. Once(r, a) BY <1>1, <1>2 DEF Elements, Once
  <1> QED BY <1>3 DEF r

LEMMA NoneBehindTail ==
  ASSUME NEW S, NEW q \in Seq(S), q # <<>>, NEW a, NEW A, NoneBehind(q, a, A)
  PROVE  NoneBehind(Tail(q), a, A) /\ (Head(q) = a => \A b \in A : b \notin Elements(Tail(q)))
  <1>1. Len(q) \in Nat /\ Len(q) >= 1 /\ Len(Tail(q)) = Len(q) - 1 OBVIOUS
  <1>2. \A i \in 1..Len(Tail(q)) : i + 1 \in 1..Len(q) /\ Tail(q)[i] = q[i + 1] /\ 1 < i + 1
    BY <1>1
  <1>3. Head(q) = q[1] /\ 1 \in 1..Len(q) BY <1>1
  <1>4. \A i, j \in 1..Len(Tail(q)) : i < j => i + 1 < j + 1 BY <1>1
  <1> QED BY <1>1, <1>2, <1>3, <1>4 DEF Elements, NoneBehind

LEMMA NoneBehindAppend ==
  ASSUME NEW S, NEW q \in Seq(S), NEW b \in S, NEW a, NEW A, NoneBehind(q, a, A),
         b \in A => a \notin Elements(q)
  PROVE  NoneBehind(Append(q, b), a, A)
  <1> DEFINE r == Append(q, b)
  <1>1. Len(q) \in Nat /\ Len(r) = Len(q) + 1 /\ r[Len(r)] = b OBVIOUS
  <1>2. \A i \in 1..Len(r) : (i \in 1..Len(q) /\ r[i] = q[i]) \/ (i = Len(r) /\ r[i] = b) BY <1>1
  <1>3. \A i, j \in 1..Len(r) : i < j => i \in 1..Len(q) BY <1>1
  <1> HIDE DEF r
  <1>4. NoneBehind(r, a, A) BY <1>1, <1>2, <1>3 DEF Elements, NoneBehind
  <1> QED BY <1>4 DEF r

LEMMA ShortElements ==
  /\ \A a : Elements(<<a>>) = {a}
  /\ \A a, b : Elements(<<a, b>>) = {a, b}
  /\ \A a, b, c : Elements(<<a, b, c>>) = {a, b, c}
  /\ \A a, b, c, d : Elements(<<a, b, c, d>>) = {a, b, c, d}
  /\ \A a, b, c, d, e, f : Elements(<<a, b, c, d, e, f>>) = {a, b, c, d, e, f}
  BY DEF Elements

LEMMA FiveElements ==
  \A a, b, c, d, e : Elements(<<a, b, c, d, e>>) = {a, b, c, d, e}
  BY DEF Elements

-----------------------------------------------------------------------------
(* The statements and the tasks.                                           *)

LEMMA StatementParts ==
  /\ \A x : Wait(x).do = "wait" /\ Wait(x).what = x
  /\ \A x : Signal(x).do = "signal" /\ Signal(x).what = x
  /\ \A x : Make(x).do = "make" /\ Make(x).what = x
  /\ \A x : Use(x).do = "use" /\ Use(x).what = x
  /\ \A x : Drop(x).do = "drop" /\ Drop(x).what = x
  /\ \A x : Do(x).do = "do" /\ Do(x).what = x
  /\ \A x, r : Run(x, r).do = "run" /\ Run(x, r).what = x /\ Run(x, r).on = r
  /\ \A x, r : Post(x, r).do = "post" /\ Post(x, r).what = x /\ Post(x, r).on = r
  BY DEF Run, Post, Wait, Signal, Make, Use, Drop, Do

TasksOf(r) ==
  CASE r = "platform" -> {"stopRouting", "endIsolates", "dropView"}
    [] r = "raster" -> {"makeWeakFactory", "makeRasterizer", "setUpContext", "setUpSurface",
                        "tearDown", "screenshot", "draw", "dropRasterizer"}
    [] r = "ui" -> {"makeEngine", "setUpFonts", "scheduleFrame", "dropEngine"}
    [] r = "io" -> {"makeIOManager", "createSurfaceIO", "drainIO", "dropIOManager"}
Tasks == UNION {TasksOf(r) : r \in Runners}

\* What the tasks of a runner consist of.
StatementsOf(r) ==
  CASE r = "platform" ->
         {Use("engine"), Signal("isolatesEnded"), Drop("view"), Signal("viewDropped")}
    [] r = "raster" ->
         {Use("shell"), Make("rasterizer"), Signal("snapshots"), Signal("rasterizerMade"),
          Use("view"), Signal("context"), Do("setUp"), Do("tearDown"), Run("drainIO", "io"),
          Signal("screenshotTaken"), Do("testWaiting"), Do("clearWaiting"), Do("notify"),
          Drop("rasterizer"), Signal("rasterizerDropped")}
    [] r = "ui" ->
         {Use("shell"), Wait("weakIo"), Wait("unrefQueue"), Wait("snapshots"),
          Make("engine"), Signal("engineMade"), Do("scheduleFrame"), Drop("engine"),
          Signal("engineDropped"), Use("rasterizer"), Post("draw", "raster")}
    [] r = "io" ->
         {Make("io"), Signal("weakIo"), Signal("unrefQueue"), Signal("ioMade"),
          Wait("context"), Use("view"), Run("scheduleFrame", "ui"),
          Run("setUpSurface", "raster"), Signal("surfaceCreated"), Use("io"),
          Signal("surfaceDestroyed"), Drop("io"), Signal("ioDropped")}
Statements == UNION {StatementsOf(r) : r \in Runners}

LEMMA TaskTable ==
  /\ TasksOf("platform") = {"stopRouting", "endIsolates", "dropView"}
  /\ TasksOf("raster") = {"makeWeakFactory", "makeRasterizer", "setUpContext", "setUpSurface",
                          "tearDown", "screenshot", "draw", "dropRasterizer"}
  /\ TasksOf("ui") = {"makeEngine", "setUpFonts", "scheduleFrame", "dropEngine"}
  /\ TasksOf("io") = {"makeIOManager", "createSurfaceIO", "drainIO", "dropIOManager"}
  BY DEF TasksOf

LEMMA BodyTable ==
  /\ Elements(Body("makeWeakFactory")) = {Use("shell")}
  /\ Elements(Body("makeRasterizer")) =
       {Use("shell"), Make("rasterizer"), Signal("snapshots"), Signal("rasterizerMade")}
  /\ Elements(Body("setUpContext")) = {Use("view"), Signal("context")}
  /\ Elements(Body("makeIOManager")) =
       {Make("io"), Signal("weakIo"), Signal("unrefQueue"), Signal("ioMade"),
        Wait("context"), Use("view")}
  /\ Elements(Body("makeEngine")) =
       {Use("shell"), Wait("weakIo"), Wait("unrefQueue"), Wait("snapshots"),
        Make("engine"), Signal("engineMade")}
  /\ Elements(Body("stopRouting")) = {} /\ Elements(Body("setUpFonts")) = {}
  /\ Elements(Body("createSurfaceIO")) =
       {Use("view"), Run("scheduleFrame", "ui"), Signal("surfaceCreated")}
         \cup (IF PostsRasterTask THEN {Run("setUpSurface", "raster")} ELSE {})
  /\ Elements(Body("setUpSurface")) = {Do("setUp")}
  /\ Elements(Body("scheduleFrame")) = {Do("scheduleFrame")}
  /\ Elements(Body("tearDown")) = {Do("tearDown"), Run("drainIO", "io")}
  /\ Elements(Body("drainIO")) = {Use("io"), Signal("surfaceDestroyed")}
  /\ Elements(Body("screenshot")) = {Signal("screenshotTaken")}
  /\ Elements(Body("draw")) = {Do("testWaiting")}
  /\ Elements(Body("endIsolates")) = {Use("engine"), Signal("isolatesEnded")}
  /\ Elements(Body("dropEngine")) = {Drop("engine"), Signal("engineDropped")}
  /\ Elements(Body("dropRasterizer")) =
       {Drop("rasterizer"), Use("shell"), Signal("rasterizerDropped")}
  /\ Elements(Body("dropIOManager")) = {Drop("io"), Use("view"), Signal("ioDropped")}
  /\ Elements(Body("dropView")) = {Drop("view"), Signal("viewDropped")}
  <1>1. Elements(Body("makeWeakFactory")) = {Use("shell")} BY ShortElements DEF Body
  <1>2. Elements(Body("makeRasterizer")) =
          {Use("shell"), Make("rasterizer"), Signal("snapshots"), Signal("rasterizerMade")}
    BY ShortElements DEF Body
  <1>3. Elements(Body("setUpContext")) = {Use("view"), Signal("context")}
    BY ShortElements DEF Body
  <1>4. Elements(Body("makeIOManager")) =
          {Make("io"), Signal("weakIo"), Signal("unrefQueue"), Signal("ioMade"),
           Wait("context"), Use("view")}
    BY ShortElements DEF Body
  <1>5. Elements(Body("makeEngine")) =
          {Use("shell"), Wait("weakIo"), Wait("unrefQueue"), Wait("snapshots"),
           Make("engine"), Signal("engineMade")}
    BY ShortElements DEF Body
  <1>6. Elements(Body("stopRouting")) = {} /\ Elements(Body("setUpFonts")) = {}
    BY NilElements DEF Body
  <1>7. Elements(Body("createSurfaceIO")) =
          {Use("view"), Run("scheduleFrame", "ui"), Signal("surfaceCreated")}
            \cup (IF PostsRasterTask THEN {Run("setUpSurface", "raster")} ELSE {})
    <2>1. CASE PostsRasterTask
      <3>1. Body("createSurfaceIO") =
              <<Use("view"), Run("scheduleFrame", "ui"), Run("setUpSurface", "raster"),
                Signal("surfaceCreated")>> BY <2>1 DEF Body
      <3>2. Elements(Body("createSurfaceIO")) =
              {Use("view"), Run("scheduleFrame", "ui"), Run("setUpSurface", "raster"),
               Signal("surfaceCreated")} BY <3>1, ShortElements
      <3> QED BY <3>2, <2>1
    <2>2. CASE ~PostsRasterTask
      <3>1. Body("createSurfaceIO") =
              <<Use("view"), Run("scheduleFrame", "ui"), Signal("surfaceCreated")>>
        BY <2>2 DEF Body
      <3>2. Elements(Body("createSurfaceIO")) =
              {Use("view"), Run("scheduleFrame", "ui"), Signal("surfaceCreated")}
        BY <3>1, ShortElements
      <3> QED BY <3>2, <2>2
    <2> QED BY <2>1, <2>2
  <1>8. Elements(Body("setUpSurface")) = {Do("setUp")} BY ShortElements DEF Body
  <1>9. Elements(Body("scheduleFrame")) = {Do("scheduleFrame")} BY ShortElements DEF Body
  <1>10. Elements(Body("tearDown")) = {Do("tearDown"), Run("drainIO", "io")}
    BY ShortElements DEF Body
  <1>11. Elements(Body("drainIO")) = {Use("io"), Signal("surfaceDestroyed")}
    BY ShortElements DEF Body
  <1>12. Elements(Body("screenshot")) = {Signal("screenshotTaken")} BY ShortElements DEF Body
  <1>13. Elements(Body("draw")) = {Do("testWaiting")} BY ShortElements DEF Body
  <1>14. Elements(Body("endIsolates")) = {Use("engine"), Signal("isolatesEnded")}
    BY ShortElements DEF Body
  <1>15. Elements(Body("dropEngine")) = {Drop("engine"), Signal("engineDropped")}
    BY ShortElements DEF Body
  <1>16. Elements(Body("dropRasterizer")) =
           {Drop("rasterizer"), Use("shell"), Signal("rasterizerDropped")}
    BY ShortElements DEF Body
  <1>17. Elements(Body("dropIOManager")) = {Drop("io"), Use("view"), Signal("ioDropped")}
    BY ShortElements DEF Body
  <1>18. Elements(Body("dropView")) = {Drop("view"), Signal("viewDropped")}
    BY ShortElements DEF Body
  <1> QED BY <1>1, <1>2, <1>3, <1>4, <1>5, <1>6, <1>7, <1>8, <1>9, <1>10, <1>11, <1>12,
             <1>13, <1>14, <1>15, <1>16, <1>17, <1>18

LEMMA BodyHome ==
  ASSUME NEW r \in Runners, NEW a \in TasksOf(r)
  PROVE  Elements(Body(a)) \subseteq StatementsOf(r)
  <1>1. CASE r = "platform" BY <1>1, BodyTable, TaskTable DEF StatementsOf
  <1>2. CASE r = "raster" BY <1>2, BodyTable, TaskTable DEF StatementsOf
  <1>3. CASE r = "ui" BY <1>3, BodyTable, TaskTable DEF StatementsOf
  <1>4. CASE r = "io" BY <1>4, BodyTable, TaskTable DEF StatementsOf
  <1> QED BY <1>1, <1>2, <1>3, <1>4 DEF Runners

-----------------------------------------------------------------------------
(* The inductive invariant.                                                *)

Latches == {"snapshots", "weakIo", "unrefQueue", "context",
            "rasterizerMade", "engineMade", "ioMade", "surfaceCreated",
            "surfaceDestroyed", "screenshotTaken", "isolatesEnded", "engineDropped",
            "rasterizerDropped", "ioDropped", "viewDropped"}

Types ==
  /\ host \in Hosts
  /\ queue \in [Runners -> Seq(Tasks)]
  /\ todo \in [Runners -> Seq(Statements)]
  /\ signalled \subseteq Latches
  /\ alive \subseteq Objects
  /\ call \in Calls \cup {"unborn", "none"} /\ place \in 1..Len(Program(call)) + 1
  /\ changes \in 0..MaxChanges + 1 /\ frames \in 0..MaxFrames
  /\ (changes % 2 = 1 => changes <= MaxChanges)
  /\ surface \in BOOLEAN /\ wantsFrame \in BOOLEAN
  /\ waiting \in BOOLEAN /\ missed \in BOOLEAN
  /\ waiter \in {"none", "check", "checked", "asleep", "ok", "timeout"}

\* A task, and each of its statements, is on the thread of its runner.
Homes ==
  /\ \A t \in Runners : \A a \in Elements(queue[t]) :
       \E r \in Runners : a \in TasksOf(r) /\ host[r] = t
  /\ \A t \in Runners : \A s \in Elements(todo[t]) :
       \E r \in Runners : s \in StatementsOf(r) /\ host[r] = t

\* Statements with nothing behind them.
Lasts == {Signal("rasterizerMade"), Signal("engineMade"), Signal("surfaceCreated"),
          Signal("surfaceDestroyed"), Signal("screenshotTaken"), Signal("isolatesEnded"),
          Signal("engineDropped"), Signal("rasterizerDropped"), Signal("ioDropped"),
          Signal("viewDropped"), Signal("context"), Run("drainIO", "io"), Do("notify")}

\* Statements behind a task that is run in the middle of another.
AfterRun == {Run("setUpSurface", "raster"), Signal("surfaceCreated")}

\* Statements that only begin a task.
Whole(q) ==
  /\ Make("io") \in Elements(q) =>
       q = <<Make("io"), Signal("weakIo"), Signal("unrefQueue"), Signal("ioMade"),
             Wait("context"), Use("view")>>
  /\ Drop("engine") \in Elements(q) => q = <<Drop("engine"), Signal("engineDropped")>>
  /\ Drop("rasterizer") \in Elements(q) =>
       q = <<Drop("rasterizer"), Use("shell"), Signal("rasterizerDropped")>>
  /\ Drop("io") \in Elements(q) => q = <<Drop("io"), Use("view"), Signal("ioDropped")>>
  /\ Drop("view") \in Elements(q) => q = <<Drop("view"), Signal("viewDropped")>>
  /\ Do("tearDown") \in Elements(q) => q = <<Do("tearDown"), Run("drainIO", "io")>>
  /\ Do("testWaiting") \in Elements(q) => q = <<Do("testWaiting")>>
  /\ Do("clearWaiting") \in Elements(q) => q = <<Do("clearWaiting"), Do("notify")>>
  /\ Use("engine") \in Elements(q) => q = <<Use("engine"), Signal("isolatesEnded")>>
  /\ Use("io") \in Elements(q) => q = <<Use("io"), Signal("surfaceDestroyed")>>
  /\ Use("rasterizer") \in Elements(q) => q = <<Use("rasterizer"), Post("draw", "raster")>>

\* Statements with another one behind them.
Followed(q) ==
  /\ Make("rasterizer") \in Elements(q) => Signal("rasterizerMade") \in Elements(q)
  /\ Make("engine") \in Elements(q) => Signal("engineMade") \in Elements(q)
  /\ Run("scheduleFrame", "ui") \in Elements(q) => Signal("surfaceCreated") \in Elements(q)
  /\ Run("setUpSurface", "raster") \in Elements(q) => Signal("surfaceCreated") \in Elements(q)

\* What a thread may have to do: the end of a task, of two at most.
Shape(q) ==
  /\ \A i \in 1..Len(q) : q[i] \in Lasts => i = Len(q)
  /\ \A i, j \in 1..Len(q) : i < j /\ q[i].do = "run" => q[j] \in AfterRun
  /\ Once(q, Signal("ioMade"))
  /\ Whole(q)
  /\ Followed(q)

Shapes ==
  /\ \A t \in Runners : Shape(todo[t])
  /\ \A t \in Runners : Run("setUpSurface", "raster") \in Elements(todo[t]) => PostsRasterTask

Queued(a) == \E t \in Runners : a \in Elements(queue[t])
Pending(s) == \E t \in Runners : s \in Elements(todo[t])

\* The tasks that a call waits for; it waits for drainIO as the end of tearDown.
Awaited == {"makeRasterizer", "makeIOManager", "makeEngine", "createSurfaceIO",
            "tearDown", "drainIO", "screenshot", "endIsolates", "dropEngine",
            "dropRasterizer", "dropIOManager", "dropView"}

LatchOf(a) ==
  CASE a = "makeRasterizer" -> "rasterizerMade"
    [] a = "makeIOManager" -> "ioMade"
    [] a = "makeEngine" -> "engineMade"
    [] a = "createSurfaceIO" -> "surfaceCreated"
    [] a = "tearDown" -> "tornDown"
    [] a = "drainIO" -> "surfaceDestroyed"
    [] a = "screenshot" -> "screenshotTaken"
    [] a = "endIsolates" -> "isolatesEnded"
    [] a = "dropEngine" -> "engineDropped"
    [] a = "dropRasterizer" -> "rasterizerDropped"
    [] a = "dropIOManager" -> "ioDropped"
    [] a = "dropView" -> "viewDropped"

EndOf(a) == IF a = "tearDown" THEN Run("drainIO", "io") ELSE Signal(LatchOf(a))

\* The places of a call from the sending of the task to the wait for it.
InWindow(a, name, k) ==
  CASE a = "makeRasterizer" -> name = "create" /\ k \in 5..9
    [] a = "makeIOManager" -> name = "create" /\ k \in 7..10
    [] a = "makeEngine" -> name = "create" /\ k = 8
    [] a = "createSurfaceIO" -> name = "createSurface" /\ k = 3
    [] a = "tearDown" -> name = "destroySurface" /\ k = 3
    [] a = "drainIO" -> name = "destroySurface" /\ k = 3
    [] a = "screenshot" -> name = "screenshot" /\ k = 2
    [] a = "endIsolates" -> name = "destroy" /\ k = 2
    [] a = "dropEngine" -> name = "destroy" /\ k = 4
    [] a = "dropRasterizer" -> name = "destroy" /\ k = 6
    [] a = "dropIOManager" -> name = "destroy" /\ k = 8
    [] a = "dropView" -> name = "destroy" /\ k = 10

Started(a) == Queued(a) \/ Pending(EndOf(a)) \/ LatchOf(a) \in signalled

\* An awaited task is queued, or under way, or has set its latch; once.
Tokens ==
  /\ \A a \in Awaited : Started(a) => InWindow(a, call, place)
  /\ \A a \in Awaited : Queued(a) => ~Pending(EndOf(a)) /\ LatchOf(a) \notin signalled
  /\ \A a \in Awaited : Pending(EndOf(a)) => LatchOf(a) \notin signalled
  /\ \A a \in Awaited : \A t \in Runners : Once(queue[t], a)
  /\ Started("tearDown") => ~Started("drainIO")

\* The objects that exist at a place of a call.
AliveAt(A, name, k) ==
  /\ name = "unborn" => A = {}
  /\ name = "create" =>
       /\ ("shell" \in A <=> k >= 2) /\ ("view" \in A <=> k >= 4)
       /\ ("rasterizer" \in A => k >= 5)
       /\ (k >= 9 => "engine" \in A) /\ (k >= 10 => "rasterizer" \in A)
       /\ (k >= 11 => "io" \in A)
  /\ name \in {"createSurface", "destroySurface", "screenshot"} => A = Objects
  /\ name = "none" => A \in {Objects, {}}
  /\ name = "destroy" =>
       /\ ("shell" \in A <=> k <= 11)
       /\ (k <= 9 => "view" \in A) /\ (k >= 11 => "view" \notin A)
       /\ (k <= 7 => "io" \in A) /\ (k >= 9 => "io" \notin A)
       /\ (k <= 5 => "rasterizer" \in A) /\ (k >= 7 => "rasterizer" \notin A)
       /\ (k <= 3 => "engine" \in A) /\ (k >= 5 => "engine" \notin A)

\* A latch is set when its object has been made or dropped, not before.
MadeBy(object, latch) ==
  /\ latch \in signalled => object \in alive
  /\ \A t \in Runners : Signal(latch) \in Elements(todo[t]) =>
       Make(object) \in Elements(todo[t]) \/ object \in alive
DroppedBy(object, latch) ==
  /\ latch \in signalled => object \notin alive
  /\ \A t \in Runners : Signal(latch) \in Elements(todo[t]) =>
       Drop(object) \in Elements(todo[t]) \/ object \notin alive
Effects ==
  /\ MadeBy("rasterizer", "rasterizerMade")
  /\ MadeBy("engine", "engineMade")
  /\ MadeBy("io", "ioMade")
  /\ DroppedBy("engine", "engineDropped")
  /\ DroppedBy("rasterizer", "rasterizerDropped")
  /\ DroppedBy("io", "ioDropped")
  /\ DroppedBy("view", "viewDropped")

\* What a task uses.
Needs(a) ==
  CASE a \in {"makeWeakFactory", "makeRasterizer", "makeEngine", "setUpSurface"} -> {"shell"}
    [] a \in {"setUpContext", "makeIOManager", "createSurfaceIO", "dropView"} -> {"view"}
    [] a = "drainIO" -> {"io"}
    [] a \in {"endIsolates", "dropEngine"} -> {"engine"}
    [] a = "dropRasterizer" -> {"rasterizer", "shell"}
    [] a = "dropIOManager" -> {"io", "view"}
    [] a \in {"stopRouting", "setUpFonts", "tearDown", "screenshot", "draw",
              "scheduleFrame"} -> {}

\* What a statement relies on.
NeedOf(s, x) ==
  \/ s = Use(x) \/ s = Drop(x)
  \/ s = Use("rasterizer") /\ x = "engine"
  \/ s \in {Do("setUp"), Run("setUpSurface", "raster")} /\ x = "shell"
  \/ s \in {Do("clearWaiting"), Do("notify")} /\ x \in {"shell", "rasterizer"}
  \/ s = Run("drainIO", "io") /\ x = "io"

\* All that the tasks and statements to come use is there.
Claims ==
  /\ \A t \in Runners : \A a \in Elements(queue[t]) : Needs(a) \subseteq alive
  /\ \A t \in Runners : \A s \in Elements(todo[t]) :
       \A x \in Objects : NeedOf(s, x) => x \in alive

\* Whose use of the view, and of the shell, a thread is about to make.
ViewUse ==
  \A t \in Runners : Use("view") \in Elements(todo[t]) =>
    \/ Signal("context") \in Elements(todo[t])
    \/ Signal("surfaceCreated") \in Elements(todo[t])
    \/ Signal("ioDropped") \in Elements(todo[t])
    \/ t = host["io"] /\ ("io" \in alive \/ Make("io") \in Elements(todo[t]))
ShellUse ==
  \A t \in Runners : Use("shell") \in Elements(todo[t]) =>
    \/ Signal("rasterizerMade") \in Elements(todo[t])
    \/ Signal("engineMade") \in Elements(todo[t])
    \/ Signal("rasterizerDropped") \in Elements(todo[t])
    \/ todo[t] = <<Use("shell")>> /\ t = host["raster"]

\* The tasks of the raster thread that nobody waits for, but that are over when
\* the rasterizer is dropped behind them.
OldRaster == {"makeWeakFactory", "setUpContext", "setUpSurface"}
RasterGone == call \in {"destroy", "none"} /\ "rasterizer" \notin alive
Barriers ==
  /\ \A t \in Runners : NoneBehind(queue[t], "dropRasterizer", OldRaster)
  /\ \A t \in Runners : Drop("rasterizer") \in Elements(todo[t]) =>
       \A a \in OldRaster : a \notin Elements(queue[t])
  /\ \A a \in OldRaster : a \notin Elements(queue["platform"])
  /\ RasterGone =>
       /\ \A a \in OldRaster : ~Queued(a)
       /\ ~Pending(Do("setUp")) /\ ~Pending(Signal("context"))
       /\ \A t \in Runners : todo[t] # <<Use("shell")>>

\* The surface, the tasks that will set it up, and the task that takes it away.
NoSurface == ~surface /\ ~Queued("setUpSurface") /\ ~Pending(Do("setUp"))
Tearing == call = "destroySurface"
             /\ (place <= 2 \/ Queued("tearDown") \/ Pending(Do("tearDown")))
Surfaces ==
  /\ call = "createSurface" => changes % 2 = 1
  /\ call = "destroySurface" => changes % 2 = 0
  /\ changes % 2 = 0 /\ ~Tearing => NoSurface
  /\ \A t \in Runners : NoneBehind(queue[t], "tearDown", {"setUpSurface"})
  /\ \A t \in Runners : Do("tearDown") \in Elements(todo[t]) =>
       "setUpSurface" \notin Elements(queue[t])

\* Frames come after creation; the first of them wakes its waiter.
Frames ==
  /\ call \in {"unborn", "create"} =>
       ~wantsFrame /\ ~Queued("scheduleFrame") /\ ~Pending(Do("scheduleFrame"))
  /\ waiter \in {"checked", "asleep"} /\ ~waiting =>
       missed \/ \E t \in Runners : todo[t] # <<>> /\ Head(todo[t]) = Do("notify")

\* What CreateShellOnPlatformThread sends, and what its tasks consist of.
NewTasks == {"makeWeakFactory", "makeRasterizer", "setUpContext", "makeIOManager",
             "makeEngine", "stopRouting", "setUpFonts"}
NewStatements ==
  {Use("shell"), Make("rasterizer"), Signal("snapshots"), Signal("rasterizerMade"),
   Use("view"), Signal("context"), Make("io"), Signal("weakIo"), Signal("unrefQueue"),
   Signal("ioMade"), Wait("context"), Wait("weakIo"), Wait("unrefQueue"),
   Wait("snapshots"), Make("engine"), Signal("engineMade")}

\* Who has a promise to keep has the last one of its task to keep.
IOBegun ==
  {<<Make("io"), Signal("weakIo"), Signal("unrefQueue"), Signal("ioMade"), Wait("context"),
     Use("view")>>,
   <<Signal("weakIo"), Signal("unrefQueue"), Signal("ioMade"), Wait("context"), Use("view")>>,
   <<Signal("unrefQueue"), Signal("ioMade"), Wait("context"), Use("view")>>}
Promising(q) ==
  /\ Signal("snapshots") \in Elements(q) => Signal("rasterizerMade") \in Elements(q)
  /\ Signal("weakIo") \in Elements(q) \/ Signal("unrefQueue") \in Elements(q) => q \in IOBegun

\* Until a creation is over, nothing else is sent, and nobody waits for a frame.
Young ==
  call \in {"unborn", "create"} =>
    /\ waiter = "none"
    /\ \A t \in Runners : /\ Elements(queue[t]) \subseteq NewTasks
                          /\ Elements(todo[t]) \subseteq NewStatements
                          /\ Promising(todo[t])

NothingMisused == misused = {}

Inv == /\ Types /\ Homes /\ Shapes /\ Tokens
       /\ AliveAt(alive, call, place) /\ Effects
       /\ Claims /\ NothingMisused /\ ViewUse /\ ShellUse
       /\ Barriers /\ Surfaces /\ Frames /\ Young

\* What a creation that fails leaves to the other threads.
LeftTasks(name) ==
  {"makeWeakFactory", "stopRouting", "setUpFonts"}
    \cup (IF name = "noView" THEN {} ELSE {"setUpContext"})
    \cup (IF name = "noWaiter" THEN {"makeRasterizer"} ELSE {})
LeftStatements(name) ==
  {Use("shell"), Signal("context"), Wait("context"), Wait("weakIo"), Wait("unrefQueue"),
   Wait("snapshots")}
    \cup (IF name = "noView" THEN {} ELSE {Use("view")})
    \cup (IF name = "noWaiter"
          THEN {Make("rasterizer"), Signal("snapshots"), Signal("rasterizerMade")} ELSE {})

\* After a creation that failed the other threads go on with what it left them,
\* and the platform thread comes as far as the engine that is not there.
Abandoned ==
  /\ host \in Hosts
  /\ queue \in [Runners -> Seq(Tasks)] /\ todo \in [Runners -> Seq(Statements)]
  /\ \A t \in Runners : host[t] # t => queue[t] = <<>> /\ todo[t] = <<>>
  /\ \A t \in Runners \ {"platform"} : /\ Elements(queue[t]) \subseteq LeftTasks(call)
                                       /\ Elements(todo[t]) \subseteq LeftStatements(call)
  /\ call \in Failures
  /\ \/ place = 1 /\ todo["platform"] = <<>>
     \/ place = 2 /\ (Crashed \/ todo["platform"] = Body("endIsolates"))
  /\ alive \subseteq Objects /\ "shell" \in alive /\ "engine" \notin alive
  /\ misused \subseteq Mishaps(call)
  /\ changes \in 0..MaxChanges + 1 /\ frames \in 0..MaxFrames
  /\ surface \in BOOLEAN /\ wantsFrame \in BOOLEAN
  /\ waiting \in BOOLEAN /\ missed \in BOOLEAN
  /\ waiter = "none"

-----------------------------------------------------------------------------
(* Tables of what is defined by cases.                                     *)

LEMMA LatchTable ==
  /\ LatchOf("makeRasterizer") = "rasterizerMade" /\ LatchOf("makeIOManager") = "ioMade"
  /\ LatchOf("makeEngine") = "engineMade" /\ LatchOf("createSurfaceIO") = "surfaceCreated"
  /\ LatchOf("tearDown") = "tornDown" /\ LatchOf("drainIO") = "surfaceDestroyed"
  /\ LatchOf("screenshot") = "screenshotTaken" /\ LatchOf("endIsolates") = "isolatesEnded"
  /\ LatchOf("dropEngine") = "engineDropped"
  /\ LatchOf("dropRasterizer") = "rasterizerDropped"
  /\ LatchOf("dropIOManager") = "ioDropped" /\ LatchOf("dropView") = "viewDropped"
  BY DEF LatchOf

LEMMA EndTable ==
  /\ EndOf("makeRasterizer") = Signal("rasterizerMade")
  /\ EndOf("makeIOManager") = Signal("ioMade")
  /\ EndOf("makeEngine") = Signal("engineMade")
  /\ EndOf("createSurfaceIO") = Signal("surfaceCreated")
  /\ EndOf("tearDown") = Run("drainIO", "io")
  /\ EndOf("drainIO") = Signal("surfaceDestroyed")
  /\ EndOf("screenshot") = Signal("screenshotTaken")
  /\ EndOf("endIsolates") = Signal("isolatesEnded")
  /\ EndOf("dropEngine") = Signal("engineDropped")
  /\ EndOf("dropRasterizer") = Signal("rasterizerDropped")
  /\ EndOf("dropIOManager") = Signal("ioDropped")
  /\ EndOf("dropView") = Signal("viewDropped")
  BY LatchTable DEF EndOf

\* An awaited task ends as no other task does.
LEMMA EndInBody ==
  ASSUME NEW a \in Awaited, NEW b \in Tasks, EndOf(a) \in Elements(Body(b))
  PROVE  a = b
  <1> DEFINE e == EndOf(a)
  <1>1. /\ e.what # "tornDown"
        /\ e.do = "signal" => e.what = LatchOf(a)
        /\ e.do = "run" => e.what = "drainIO" /\ a = "tearDown"
        /\ e.do \in {"signal", "run"}
    BY EndTable, LatchTable, StatementParts DEF Awaited
  <1>2. e.do = "run" => b \in {"tearDown", "createSurfaceIO"}
    BY BodyTable, StatementParts, TaskTable DEF Tasks, Runners
  <1> QED BY EndTable, BodyTable, StatementParts, TaskTable DEF Awaited, Tasks, Runners

LEMMA BodySeq ==
  ASSUME NEW a \in Tasks
  PROVE  Body(a) \in Seq(Statements)
  <1>1. \A s : (s \in StatementsOf("platform") \/ s \in StatementsOf("raster")
                \/ s \in StatementsOf("ui") \/ s \in StatementsOf("io")) => s \in Statements
    BY DEF Statements, Runners
  <1>2. CASE a \in TasksOf("platform")
    <2>1. \A s \in StatementsOf("platform") : s \in Statements BY <1>1
    <2> QED BY <1>2, <2>1, TaskTable DEF Body, StatementsOf
  <1>3. CASE a \in TasksOf("raster")
    <2>1. \A s \in StatementsOf("raster") : s \in Statements BY <1>1
    <2> QED BY <1>3, <2>1, TaskTable DEF Body, StatementsOf
  <1>4. CASE a \in TasksOf("ui")
    <2>1. \A s \in StatementsOf("ui") : s \in Statements BY <1>1
    <2> QED BY <1>4, <2>1, TaskTable DEF Body, StatementsOf
  <1>5. CASE a \in TasksOf("io")
    <2>1. \A s \in StatementsOf("io") : s \in Statements BY <1>1
    <2> QED BY <1>5, <2>1, TaskTable DEF Body, StatementsOf
  <1> QED BY <1>2, <1>3, <1>4, <1>5 DEF Tasks, Runners

LEMMA ProgramTable ==
  /\ Len(Program("create")) = 12
  /\ Program("create")[1] = Make("shell")
  /\ Program("create")[2] = Run("makeWeakFactory", "raster")
  /\ Program("create")[3] = Make("view")
  /\ Program("create")[4] = Run("makeRasterizer", "raster")
  /\ Program("create")[5] = Run("setUpContext", "raster")
  /\ Program("create")[6] = Run("makeIOManager", "io")
  /\ Program("create")[7] = Run("makeEngine", "ui")
  /\ Program("create")[8] = Wait("engineMade")
  /\ Program("create")[9] = Wait("rasterizerMade")
  /\ Program("create")[10] = Wait("ioMade")
  /\ Program("create")[11] = Post("stopRouting", "platform")
  /\ Program("create")[12] = Run("setUpFonts", "ui")
  /\ Len(Program("createSurface")) = IF PostsRasterTask THEN 3 ELSE 4
  /\ Program("createSurface")[1] = Use("rasterizer")
  /\ Program("createSurface")[2] = Run("createSurfaceIO", "io")
  /\ Program("createSurface")[3] = Wait("surfaceCreated")
  /\ ~PostsRasterTask => Program("createSurface")[4] = Do("setUp")
  /\ Len(Program("destroySurface")) = 4
  /\ Program("destroySurface")[1] = Use("rasterizer")
  /\ Program("destroySurface")[2] = Run("tearDown", "raster")
  /\ Program("destroySurface")[3] = Wait("surfaceDestroyed")
  /\ Program("destroySurface")[4] = Use("rasterizer")
  /\ Len(Program("screenshot")) = 2
  /\ Program("screenshot")[1] = Run("screenshot", "raster")
  /\ Program("screenshot")[2] = Wait("screenshotTaken")
  /\ Len(Program("destroy")) = 11
  /\ Program("destroy")[1] = Run("endIsolates", "platform")
  /\ Program("destroy")[2] = Wait("isolatesEnded")
  /\ Program("destroy")[3] = Run("dropEngine", "ui")
  /\ Program("destroy")[4] = Wait("engineDropped")
  /\ Program("destroy")[5] = Run("dropRasterizer", "raster")
  /\ Program("destroy")[6] = Wait("rasterizerDropped")
  /\ Program("destroy")[7] = Run("dropIOManager", "io")
  /\ Program("destroy")[8] = Wait("ioDropped")
  /\ Program("destroy")[9] = Run("dropView", "platform")
  /\ Program("destroy")[10] = Wait("viewDropped")
  /\ Program("destroy")[11] = Drop("shell")
  /\ Len(Program("none")) = 0 /\ Len(Program("unborn")) = 0
  <1>1. /\ Len(Program("create")) = 12
        /\ Program("create")[1] = Make("shell")
        /\ Program("create")[2] = Run("makeWeakFactory", "raster")
        /\ Program("create")[3] = Make("view")
        /\ Program("create")[4] = Run("makeRasterizer", "raster")
        /\ Program("create")[5] = Run("setUpContext", "raster")
        /\ Program("create")[6] = Run("makeIOManager", "io")
        /\ Program("create")[7] = Run("makeEngine", "ui")
        /\ Program("create")[8] = Wait("engineMade")
        /\ Program("create")[9] = Wait("rasterizerMade")
        /\ Program("create")[10] = Wait("ioMade")
        /\ Program("create")[11] = Post("stopRouting", "platform")
        /\ Program("create")[12] = Run("setUpFonts", "ui")
    BY DEF Program, Failures, CreateShell
  <1>2. /\ Len(Program("createSurface")) = IF PostsRasterTask THEN 3 ELSE 4
        /\ Program("createSurface")[1] = Use("rasterizer")
        /\ Program("createSurface")[2] = Run("createSurfaceIO", "io")
        /\ Program("createSurface")[3] = Wait("surfaceCreated")
        /\ ~PostsRasterTask => Program("createSurface")[4] = Do("setUp")
    <2>1. Program("createSurface") = CreateSurface BY DEF Program, Failures
    <2>2. CASE PostsRasterTask
      <3>1. Program("createSurface") =
             <<Use("rasterizer"), Run("createSurfaceIO", "io"), Wait("surfaceCreated")>>
        BY <2>1, <2>2 DEF CreateSurface
      <3> QED BY <3>1, <2>2
    <2>3. CASE ~PostsRasterTask
      <3>1. Program("createSurface") =
             <<Use("rasterizer"), Run("createSurfaceIO", "io"), Wait("surfaceCreated"),
               Do("setUp")>>
        BY <2>1, <2>3 DEF CreateSurface
      <3> QED BY <3>1, <2>3
    <2> QED BY <2>2, <2>3
  <1>3. /\ Len(Program("destroySurface")) = 4
        /\ Program("destroySurface")[1] = Use("rasterizer")
        /\ Program("destroySurface")[2] = Run("tearDown", "raster")
        /\ Program("destroySurface")[3] = Wait("surfaceDestroyed")
        /\ Program("destroySurface")[4] = Use("rasterizer")
    BY DEF Program, Failures, DestroySurface
  <1>4. /\ Len(Program("screenshot")) = 2
        /\ Program("screenshot")[1] = Run("screenshot", "raster")
        /\ Program("screenshot")[2] = Wait("screenshotTaken")
    BY DEF Program, Failures, TakeScreenshot
  <1>5. /\ Len(Program("destroy")) = 11
        /\ Program("destroy")[1] = Run("endIsolates", "platform")
        /\ Program("destroy")[2] = Wait("isolatesEnded")
        /\ Program("destroy")[3] = Run("dropEngine", "ui")
        /\ Program("destroy")[4] = Wait("engineDropped")
        /\ Program("destroy")[5] = Run("dropRasterizer", "raster")
        /\ Program("destroy")[6] = Wait("rasterizerDropped")
        /\ Program("destroy")[7] = Run("dropIOManager", "io")
        /\ Program("destroy")[8] = Wait("ioDropped")
        /\ Program("destroy")[9] = Run("dropView", "platform")
        /\ Program("destroy")[10] = Wait("viewDropped")
        /\ Program("destroy")[11] = Drop("shell")
    BY DEF Program, Failures, DestroyShell
  <1>6. Len(Program("none")) = 0 /\ Len(Program("unborn")) = 0 BY DEF Program, Failures
  <1> QED BY <1>1, <1>2, <1>3, <1>4, <1>5, <1>6

\* The statements of the calls, by their kinds.
WaitAt(name, k, l) ==
  \/ name = "create" /\ k = 8 /\ l = "engineMade"
  \/ name = "create" /\ k = 9 /\ l = "rasterizerMade"
  \/ name = "create" /\ k = 10 /\ l = "ioMade"
  \/ name = "createSurface" /\ k = 3 /\ l = "surfaceCreated"
  \/ name = "destroySurface" /\ k = 3 /\ l = "surfaceDestroyed"
  \/ name = "screenshot" /\ k = 2 /\ l = "screenshotTaken"
  \/ name = "destroy" /\ k = 2 /\ l = "isolatesEnded"
  \/ name = "destroy" /\ k = 4 /\ l = "engineDropped"
  \/ name = "destroy" /\ k = 6 /\ l = "rasterizerDropped"
  \/ name = "destroy" /\ k = 8 /\ l = "ioDropped"
  \/ name = "destroy" /\ k = 10 /\ l = "viewDropped"
RunAt(name, k, a, r) ==
  \/ name = "create" /\ k = 2 /\ a = "makeWeakFactory" /\ r = "raster"
  \/ name = "create" /\ k = 4 /\ a = "makeRasterizer" /\ r = "raster"
  \/ name = "create" /\ k = 5 /\ a = "setUpContext" /\ r = "raster"
  \/ name = "create" /\ k = 6 /\ a = "makeIOManager" /\ r = "io"
  \/ name = "create" /\ k = 7 /\ a = "makeEngine" /\ r = "ui"
  \/ name = "create" /\ k = 12 /\ a = "setUpFonts" /\ r = "ui"
  \/ name = "createSurface" /\ k = 2 /\ a = "createSurfaceIO" /\ r = "io"
  \/ name = "destroySurface" /\ k = 2 /\ a = "tearDown" /\ r = "raster"
  \/ name = "screenshot" /\ k = 1 /\ a = "screenshot" /\ r = "raster"
  \/ name = "destroy" /\ k = 1 /\ a = "endIsolates" /\ r = "platform"
  \/ name = "destroy" /\ k = 3 /\ a = "dropEngine" /\ r = "ui"
  \/ name = "destroy" /\ k = 5 /\ a = "dropRasterizer" /\ r = "raster"
  \/ name = "destroy" /\ k = 7 /\ a = "dropIOManager" /\ r = "io"
  \/ name = "destroy" /\ k = 9 /\ a = "dropView" /\ r = "platform"
UseAt(name, k, s) ==
  \/ name = "create" /\ k = 1 /\ s = Make("shell")
  \/ name = "create" /\ k = 3 /\ s = Make("view")
  \/ name = "createSurface" /\ k = 1 /\ s = Use("rasterizer")
  \/ name = "destroySurface" /\ k \in {1, 4} /\ s = Use("rasterizer")
  \/ name = "destroy" /\ k = 11 /\ s = Drop("shell")

LEMMA ProgramCases ==
  ASSUME NEW name \in Calls \cup {"unborn", "none"}, NEW k \in 1..Len(Program(name))
  PROVE  \/ \E l : Program(name)[k] = Wait(l) /\ WaitAt(name, k, l)
         \/ \E a, r : Program(name)[k] = Run(a, r) /\ RunAt(name, k, a, r)
         \/ UseAt(name, k, Program(name)[k])
         \/ name = "create" /\ k = 11 /\ Program(name)[k] = Post("stopRouting", "platform")
         \/ name = "createSurface" /\ k = 4 /\ Program(name)[k] = Do("setUp")
  <1>1. CASE name = "create"
    <2>1. k \in 1..12 BY <1>1, ProgramTable
    <2>2. CASE k \in {1, 3} BY <1>1, <2>2, ProgramTable DEF UseAt
    <2>3. CASE k \in {2, 4, 5, 6, 7, 12} BY <1>1, <2>3, ProgramTable DEF RunAt
    <2>4. CASE k \in {8, 9, 10} BY <1>1, <2>4, ProgramTable DEF WaitAt
    <2>5. CASE k = 11 BY <1>1, <2>5, ProgramTable
    <2> QED BY <2>1, <2>2, <2>3, <2>4, <2>5
  <1>2. CASE name = "createSurface"
    <2>1. k \in 1..4 /\ (k = 4 => ~PostsRasterTask)
      <3>1. CASE PostsRasterTask
        <4>1. Len(Program(name)) = 3 BY <1>2, <3>1, ProgramTable
        <4> QED BY <4>1
      <3>2. CASE ~PostsRasterTask
        <4>1. Len(Program(name)) = 4 BY <1>2, <3>2, ProgramTable
        <4> QED BY <4>1, <3>2
      <3> QED BY <3>1, <3>2
    <2>2. CASE k = 1 BY <1>2, <2>2, ProgramTable DEF UseAt
    <2>3. CASE k = 2 BY <1>2, <2>3, ProgramTable DEF RunAt
    <2>4. CASE k = 3 BY <1>2, <2>4, ProgramTable DEF WaitAt
    <2>5. CASE k = 4 BY <1>2, <2>1, <2>5, ProgramTable
    <2> QED BY <2>1, <2>2, <2>3, <2>4, <2>5
  <1>3. CASE name = "destroySurface"
    <2>1. k \in 1..4 BY <1>3, ProgramTable
    <2>2. CASE k \in {1, 4} BY <1>3, <2>2, ProgramTable DEF UseAt
    <2>3. CASE k = 2 BY <1>3, <2>3, ProgramTable DEF RunAt
    <2>4. CASE k = 3 BY <1>3, <2>4, ProgramTable DEF WaitAt
    <2> QED BY <2>1, <2>2, <2>3, <2>4
  <1>4. CASE name = "screenshot"
    <2>1. k \in 1..2 BY <1>4, ProgramTable
    <2>2. CASE k = 1 BY <1>4, <2>2, ProgramTable DEF RunAt
    <2>3. CASE k = 2 BY <1>4, <2>3, ProgramTable DEF WaitAt
    <2> QED BY <2>1, <2>2, <2>3
  <1>5. CASE name = "destroy"
    <2>1. k \in 1..11 BY <1>5, ProgramTable
    <2>2. CASE k \in {1, 3, 5, 7, 9} BY <1>5, <2>2, ProgramTable DEF RunAt
    <2>3. CASE k \in {2, 4, 6, 8, 10} BY <1>5, <2>3, ProgramTable DEF WaitAt
    <2>4. CASE k = 11 BY <1>5, <2>4, ProgramTable DEF UseAt
    <2> QED BY <2>1, <2>2, <2>3, <2>4
  <1>6. CASE name \in {"unborn", "none"} BY <1>6, ProgramTable
  <1> QED BY <1>1, <1>2, <1>3, <1>4, <1>5, <1>6 DEF Calls

-----------------------------------------------------------------------------
(* The shape of what a thread has to do.                                   *)

\* The last statement of a task leaves nothing.
LEMMA LastAlone ==
  ASSUME NEW q \in Seq(Statements), q # <<>>, Shape(q), Head(q) \in Lasts
  PROVE  Tail(q) = <<>> /\ Elements(q) = {Head(q)}
  <1>1. Head(q) = q[1] /\ Len(q) \in Nat /\ 1 \in 1..Len(q) OBVIOUS
  <1>2. Len(q) = 1 BY <1>1 DEF Shape
  <1>3. Tail(q) = <<>>
    <2>1. Tail(q) \in Seq(Statements) /\ Len(Tail(q)) = 0 BY <1>2
    <2> QED BY <2>1, EmptySeq
  <1> QED BY <1>3, TailElements, NilElements

\* Behind a task run in the middle of another are AfterRun only.
LEMMA BehindRun ==
  ASSUME NEW q \in Seq(Statements), q # <<>>, Shape(q), Head(q).do = "run"
  PROVE  Elements(Tail(q)) \subseteq AfterRun
  <1>1. Head(q) = q[1] /\ Len(q) \in Nat /\ 1 \in 1..Len(q) /\ Len(Tail(q)) = Len(q) - 1 OBVIOUS
  <1>2. \A i \in 1..Len(Tail(q)) : i + 1 \in 1..Len(q) /\ Tail(q)[i] = q[i + 1] /\ 1 < i + 1
    BY <1>1
  <1>3. \A i \in 1..Len(Tail(q)) : Tail(q)[i] \in AfterRun BY <1>1, <1>2 DEF Shape
  <1> QED BY <1>3 DEF Elements

LEMMA FirstOfWhole ==
  ASSUME NEW q, Elements(Tail(q)) \subseteq Elements(q), NEW a, NEW b, NEW c, a # b, a # c,
         a \in Elements(q) => q = <<a>> \/ q = <<a, b>> \/ q = <<a, b, c>>
  PROVE  a \notin Elements(Tail(q))
  <1>1. CASE a \notin Elements(q) BY <1>1
  <1>2. CASE q = <<a>>
    <2>1. Tail(<<a>>) = <<>> OBVIOUS
    <2> QED BY <1>2, <2>1, NilElements
  <1>3. CASE q = <<a, b>>
    <2>1. Tail(<<a, b>>) = <<b>> OBVIOUS
    <2>2. Elements(<<b>>) = {b} BY ShortElements
    <2> QED BY <1>3, <2>1, <2>2
  <1>4. CASE q = <<a, b, c>>
    <2>1. Tail(<<a, b, c>>) = <<b, c>> OBVIOUS
    <2>2. Elements(<<b, c>>) = {b, c} BY ShortElements
    <2> QED BY <1>4, <2>1, <2>2
  <1> QED BY <1>1, <1>2, <1>3, <1>4

LEMMA WholeTail ==
  ASSUME NEW q \in Seq(Statements), q # <<>>, Whole(q)
  PROVE  /\ Elements(Tail(q)) \cap
              {Make("io"), Drop("engine"), Drop("rasterizer"), Drop("io"), Drop("view"),
               Do("tearDown"), Do("testWaiting"), Do("clearWaiting"), Use("engine"),
               Use("io"), Use("rasterizer")} = {}
         /\ Whole(Tail(q))
  <1>0. Elements(Tail(q)) \subseteq Elements(q) BY TailElements
  <1>1. Make("io") \notin Elements(Tail(q))
    <2>1. Tail(<<Make("io"), Signal("weakIo"), Signal("unrefQueue"), Signal("ioMade"),
                 Wait("context"), Use("view")>>)
            = <<Signal("weakIo"), Signal("unrefQueue"), Signal("ioMade"),
                Wait("context"), Use("view")>> OBVIOUS
    <2>2. Make("io") \notin Elements(<<Signal("weakIo"), Signal("unrefQueue"),
                                       Signal("ioMade"), Wait("context"), Use("view")>>)
      BY StatementParts DEF Elements
    <2> QED BY <1>0, <2>1, <2>2 DEF Whole
  <1>2. Drop("engine") \notin Elements(Tail(q))
    <2>1. Drop("engine") # Signal("engineDropped") BY StatementParts
    <2> QED BY <1>0, <2>1, FirstOfWhole DEF Whole
  <1>3. Drop("rasterizer") \notin Elements(Tail(q))
    <2>1. Drop("rasterizer") # Use("shell") /\ Drop("rasterizer") # Signal("rasterizerDropped")
      BY StatementParts
    <2> QED BY <1>0, <2>1, FirstOfWhole DEF Whole
  <1>4. Drop("io") \notin Elements(Tail(q))
    <2>1. Drop("io") # Use("view") /\ Drop("io") # Signal("ioDropped") BY StatementParts
    <2> QED BY <1>0, <2>1, FirstOfWhole DEF Whole
  <1>5. Drop("view") \notin Elements(Tail(q))
    <2>1. Drop("view") # Signal("viewDropped") BY StatementParts
    <2> QED BY <1>0, <2>1, FirstOfWhole DEF Whole
  <1>6. Do("tearDown") \notin Elements(Tail(q))
    <2>1. Do("tearDown") # Run("drainIO", "io") BY StatementParts
    <2> QED BY <1>0, <2>1, FirstOfWhole DEF Whole
  <1>7. Do("testWaiting") \notin Elements(Tail(q))
    <2>1. Do("testWaiting") # Do("notify") BY StatementParts
    <2> QED BY <1>0, <2>1, FirstOfWhole DEF Whole
  <1>8. Do("clearWaiting") \notin Elements(Tail(q))
    <2>1. Do("clearWaiting") # Do("notify") BY StatementParts
    <2> QED BY <1>0, <2>1, FirstOfWhole DEF Whole
  <1>9. Use("engine") \notin Elements(Tail(q))
    <2>1. Use("engine") # Signal("isolatesEnded") BY StatementParts
    <2> QED BY <1>0, <2>1, FirstOfWhole DEF Whole
  <1>10. Use("io") \notin Elements(Tail(q))
    <2>1. Use("io") # Signal("surfaceDestroyed") BY StatementParts
    <2> QED BY <1>0, <2>1, FirstOfWhole DEF Whole
  <1>11. Use("rasterizer") \notin Elements(Tail(q))
    <2>1. Use("rasterizer") # Post("draw", "raster") BY StatementParts
    <2> QED BY <1>0, <2>1, FirstOfWhole DEF Whole
  <1>12. Whole(Tail(q))
    BY <1>1, <1>2, <1>3, <1>4, <1>5, <1>6, <1>7, <1>8, <1>9, <1>10, <1>11 DEF Whole
  <1> QED BY <1>1, <1>2, <1>3, <1>4, <1>5, <1>6, <1>7, <1>8, <1>9, <1>10, <1>11, <1>12

LEMMA ShapeTail ==
  ASSUME NEW q \in Seq(Statements), q # <<>>, Shape(q)
  PROVE  Shape(Tail(q))
  <1>1. Head(q) = q[1] /\ Len(q) \in Nat /\ 1 \in 1..Len(q) /\ Len(Tail(q)) = Len(q) - 1 OBVIOUS
  <1>2. \A i \in 1..Len(Tail(q)) : i + 1 \in 1..Len(q) /\ Tail(q)[i] = q[i + 1]
    BY <1>1
  <1>3. \A i \in 1..Len(Tail(q)) : Tail(q)[i] \in Lasts => i = Len(Tail(q))
    <2> DEFINE m == Len(Tail(q))
    <2>1. m \in Nat /\ Len(q) = m + 1 BY <1>1
    <2> HIDE DEF m
    <2>2. \A i \in 1..m : i + 1 = m + 1 => i = m BY <2>1
    <2>3. \A i \in 1..m : i + 1 = Len(q) => i = m BY <2>1, <2>2
    <2> QED BY <1>2, <2>3 DEF Shape, m
  <1>4. \A i, j \in 1..Len(Tail(q)) :
          i < j /\ Tail(q)[i].do = "run" => Tail(q)[j] \in AfterRun
    <2>1. \A i, j \in 1..Len(Tail(q)) : i < j => i + 1 < j + 1 BY <1>1
    <2> QED BY <1>2, <2>1 DEF Shape
  <1>5. Once(Tail(q), Signal("ioMade")) BY OnceTail DEF Shape
  <1>6. Whole(Tail(q)) BY WholeTail DEF Shape
  <1>7. Followed(Tail(q))
    <2>1. Elements(q) = {Head(q)} \cup Elements(Tail(q)) BY TailElements
    <2>2. Head(q) \in Lasts => Elements(Tail(q)) = {} BY LastAlone, NilElements
    <2>3. Signal("rasterizerMade") \in Lasts /\ Signal("engineMade") \in Lasts
            /\ Signal("surfaceCreated") \in Lasts BY DEF Lasts
    <2>4. Followed(q) BY DEF Shape
    <2> QED BY <2>1, <2>2, <2>3, <2>4 DEF Followed
  <1> QED BY <1>3, <1>4, <1>5, <1>6, <1>7 DEF Shape

\* A statement of a task that may run in the middle of another.
LEMMA ShapeCons ==
  ASSUME NEW q \in Seq(Statements), Shape(q), Elements(q) \subseteq AfterRun,
         NEW s \in {Do("scheduleFrame"), Do("setUp")}
  PROVE  Shape(<<s>> \o q)
  <1> DEFINE r == <<s>> \o q
  <1>0. s \in Statements BY DEF Statements, StatementsOf, Runners
  <1>1. r \in Seq(Statements) /\ Elements(r) = {s} \cup Elements(q)
    <2> DEFINE p == <<s>>
    <2>1. p \in Seq(Statements) /\ Elements(p) = {s} BY <1>0, ShortElements
    <2> HIDE DEF p
    <2>2. p \o q \in Seq(Statements) /\ Elements(p \o q) = {s} \cup Elements(q)
      BY <2>1, ConcatElements
    <2> QED BY <2>2 DEF p
  <1>2. Len(q) \in Nat /\ Len(r) = Len(q) + 1 /\ r[1] = s BY <1>0
  <1>3. \A i \in 1..Len(r) : i = 1 \/ (i - 1 \in 1..Len(q) /\ r[i] = q[i - 1]) BY <1>0, <1>2
  <1>4. s \notin Lasts /\ s.do # "run" /\ s # Signal("ioMade") BY StatementParts DEF Lasts
  <1> HIDE DEF r
  <1>5. \A i \in 1..Len(r) : r[i] \in Lasts => i = Len(r)
    BY <1>2, <1>3, <1>4 DEF Shape
  <1>6. \A i, j \in 1..Len(r) : i < j /\ r[i].do = "run" => r[j] \in AfterRun
    <2> TAKE i, j \in 1..Len(r)
    <2> HAVE i < j /\ r[i].do = "run"
    <2>1. i # 1 /\ j # 1 BY <1>2, <1>4
    <2>2. i - 1 \in 1..Len(q) /\ r[i] = q[i - 1] /\ j - 1 \in 1..Len(q) /\ r[j] = q[j - 1]
      BY <1>3, <2>1
    <2>3. i - 1 < j - 1 BY <1>2
    <2> QED BY <2>2, <2>3 DEF Shape
  <1>7. Once(r, Signal("ioMade"))
    <2>1. \A i, j \in 1..Len(r) : i # 1 /\ j # 1 /\ i - 1 = j - 1 => i = j BY <1>2
    <2> QED BY <1>2, <1>3, <1>4, <2>1 DEF Shape, Once
  <1>8. Elements(r) \subseteq {Do("scheduleFrame"), Do("setUp")} \cup AfterRun BY <1>1
  <1>9. Whole(r) BY <1>8, StatementParts DEF Whole, AfterRun
  <1>10. Followed(r)
    <2>1. Followed(q) BY DEF Shape
    <2> QED BY <2>1, <1>1, <1>8, StatementParts DEF Followed, AfterRun
  <1>11. Shape(r) BY <1>5, <1>6, <1>7, <1>9, <1>10 DEF Shape
  <1> QED BY <1>11 DEF r

\* Every task, alone, has the shape of what a thread may have to do.
LEMMA ShapeBody ==
  ASSUME NEW a \in Tasks
  PROVE  Shape(Body(a))
  <1>1. CASE a = "makeWeakFactory"
    <2>1. Body(a) = <<Use("shell")>> BY <1>1 DEF Body
    <2> QED BY <2>1, <1>1, BodyTable, StatementParts DEF Shape, Whole, Followed, Lasts, Once
  <1>2. CASE a = "makeRasterizer"
    <2>1. Body(a) = <<Use("shell"), Make("rasterizer"), Signal("snapshots"),
                      Signal("rasterizerMade")>> BY <1>2 DEF Body
    <2> QED BY <2>1, <1>2, BodyTable, StatementParts DEF Shape, Whole, Followed, Lasts, Once
  <1>3. CASE a = "setUpContext"
    <2>1. Body(a) = <<Use("view"), Signal("context")>> BY <1>3 DEF Body
    <2> QED BY <2>1, <1>3, BodyTable, StatementParts DEF Shape, Whole, Followed, Lasts, Once
  <1>4. CASE a = "makeIOManager"
    <2>1. Body(a) = <<Make("io"), Signal("weakIo"), Signal("unrefQueue"), Signal("ioMade"),
                      Wait("context"), Use("view")>> BY <1>4 DEF Body
    <2> QED BY <2>1, <1>4, BodyTable, StatementParts DEF Shape, Whole, Followed, Lasts, Once
  <1>5. CASE a = "makeEngine"
    <2>1. Body(a) = <<Use("shell"), Wait("weakIo"), Wait("unrefQueue"), Wait("snapshots"),
                      Make("engine"), Signal("engineMade")>> BY <1>5 DEF Body
    <2> QED BY <2>1, <1>5, BodyTable, StatementParts DEF Shape, Whole, Followed, Lasts, Once
  <1>6. CASE a \in {"stopRouting", "setUpFonts"}
    <2>1. Body(a) = <<>> BY <1>6 DEF Body
    <2> QED BY <2>1, NilElements DEF Shape, Whole, Followed, Once
  <1>7. CASE a = "createSurfaceIO"
    <2>1. CASE PostsRasterTask
      <3>1. Body(a) = <<Use("view"), Run("scheduleFrame", "ui"),
                        Run("setUpSurface", "raster"), Signal("surfaceCreated")>>
        BY <1>7, <2>1 DEF Body
      <3> QED BY <3>1, ShortElements, StatementParts
               DEF Shape, Whole, Followed, Lasts, Once, AfterRun
    <2>2. CASE ~PostsRasterTask
      <3>1. Body(a) = <<Use("view"), Run("scheduleFrame", "ui"), Signal("surfaceCreated")>>
        BY <1>7, <2>2 DEF Body
      <3> QED BY <3>1, ShortElements, StatementParts
               DEF Shape, Whole, Followed, Lasts, Once, AfterRun
    <2> QED BY <2>1, <2>2
  <1>8. CASE a = "setUpSurface"
    <2>1. Body(a) = <<Do("setUp")>> BY <1>8 DEF Body
    <2> QED BY <2>1, <1>8, BodyTable, StatementParts DEF Shape, Whole, Followed, Lasts, Once
  <1>9. CASE a = "scheduleFrame"
    <2>1. Body(a) = <<Do("scheduleFrame")>> BY <1>9 DEF Body
    <2> QED BY <2>1, <1>9, BodyTable, StatementParts DEF Shape, Whole, Followed, Lasts, Once
  <1>10. CASE a = "tearDown"
    <2>1. Body(a) = <<Do("tearDown"), Run("drainIO", "io")>> BY <1>10 DEF Body
    <2> QED BY <2>1, <1>10, BodyTable, StatementParts DEF Shape, Whole, Followed, Lasts, Once
  <1>11. CASE a = "drainIO"
    <2>1. Body(a) = <<Use("io"), Signal("surfaceDestroyed")>> BY <1>11 DEF Body
    <2> QED BY <2>1, <1>11, BodyTable, StatementParts DEF Shape, Whole, Followed, Lasts, Once
  <1>12. CASE a = "screenshot"
    <2>1. Body(a) = <<Signal("screenshotTaken")>> BY <1>12 DEF Body
    <2> QED BY <2>1, <1>12, BodyTable, StatementParts DEF Shape, Whole, Followed, Lasts, Once
  <1>13. CASE a = "draw"
    <2>1. Body(a) = <<Do("testWaiting")>> BY <1>13 DEF Body
    <2> QED BY <2>1, <1>13, BodyTable, StatementParts DEF Shape, Whole, Followed, Lasts, Once
  <1>14. CASE a = "endIsolates"
    <2>1. Body(a) = <<Use("engine"), Signal("isolatesEnded")>> BY <1>14 DEF Body
    <2> QED BY <2>1, <1>14, BodyTable, StatementParts DEF Shape, Whole, Followed, Lasts, Once
  <1>15. CASE a = "dropEngine"
    <2>1. Body(a) = <<Drop("engine"), Signal("engineDropped")>> BY <1>15 DEF Body
    <2> QED BY <2>1, <1>15, BodyTable, StatementParts DEF Shape, Whole, Followed, Lasts, Once
  <1>16. CASE a = "dropRasterizer"
    <2>1. Body(a) = <<Drop("rasterizer"), Use("shell"), Signal("rasterizerDropped")>>
      BY <1>16 DEF Body
    <2> QED BY <2>1, <1>16, BodyTable, StatementParts DEF Shape, Whole, Followed, Lasts, Once
  <1>17. CASE a = "dropIOManager"
    <2>1. Body(a) = <<Drop("io"), Use("view"), Signal("ioDropped")>> BY <1>17 DEF Body
    <2> QED BY <2>1, <1>17, BodyTable, StatementParts DEF Shape, Whole, Followed, Lasts, Once
  <1>18. CASE a = "dropView"
    <2>1. Body(a) = <<Drop("view"), Signal("viewDropped")>> BY <1>18 DEF Body
    <2> QED BY <2>1, <1>18, BodyTable, StatementParts DEF Shape, Whole, Followed, Lasts, Once
  <1> QED BY <1>1, <1>2, <1>3, <1>4, <1>5, <1>6, <1>7, <1>8, <1>9, <1>10, <1>11, <1>12,
             <1>13, <1>14, <1>15, <1>16, <1>17, <1>18, TaskTable DEF Tasks, Runners

LEMMA ShapeFrames ==
  /\ FirstFrame \in Seq(Statements) /\ Shape(FirstFrame)
  /\ Elements(FirstFrame) = {Do("clearWaiting"), Do("notify")}
  /\ LET q == <<Use("rasterizer"), Post("draw", "raster")>> IN
       /\ q \in Seq(Statements) /\ Shape(q)
       /\ Elements(q) = {Use("rasterizer"), Post("draw", "raster")}
  <1>1. FirstFrame = <<Do("clearWaiting"), Do("notify")>> BY DEF FirstFrame
  <1>2. {Do("clearWaiting"), Do("notify"), Use("rasterizer"), Post("draw", "raster")}
          \subseteq Statements
    BY DEF Statements, StatementsOf, Runners
  <1>3. Shape(FirstFrame)
    BY <1>1, ShortElements, StatementParts DEF Shape, Whole, Followed, Lasts, Once
  <1>4. Shape(<<Use("rasterizer"), Post("draw", "raster")>>)
    BY ShortElements, StatementParts DEF Shape, Whole, Followed, Lasts, Once
  <1> QED BY <1>1, <1>2, <1>3, <1>4, ShortElements

LEMMA ShapeInline ==
  ASSUME NEW q \in Seq(Statements), q # <<>>, Shape(q), NEW a, NEW r,
         Head(q) = Run(a, r), Head(q) \in Statements
  PROVE  /\ \/ a = "drainIO" /\ r = "io" /\ Tail(q) = <<>>
            \/ a = "scheduleFrame" /\ r = "ui"
            \/ a = "setUpSurface" /\ r = "raster"
         /\ Elements(Tail(q)) \subseteq AfterRun
         /\ Body(a) \o Tail(q) \in Seq(Statements)
         /\ Elements(Body(a) \o Tail(q)) = Elements(Body(a)) \cup Elements(Tail(q))
         /\ Shape(Body(a) \o Tail(q))
  <1>0. Tail(q) \in Seq(Statements) BY TailElements
  <1>1. \/ a = "drainIO" /\ r = "io"
        \/ a = "scheduleFrame" /\ r = "ui"
        \/ a = "setUpSurface" /\ r = "raster"
    BY StatementParts DEF Statements, StatementsOf, Runners
  <1>2. Elements(Tail(q)) \subseteq AfterRun BY BehindRun, StatementParts
  <1>3. a = "drainIO" => Tail(q) = <<>> BY <1>1, LastAlone DEF Lasts
  <1>4. a \in Tasks BY <1>1, TaskTable DEF Tasks, Runners
  <1>5. Body(a) \in Seq(Statements) BY <1>4, BodySeq
  <1>6. /\ Body(a) \o Tail(q) \in Seq(Statements)
        /\ Elements(Body(a) \o Tail(q)) = Elements(Body(a)) \cup Elements(Tail(q))
    BY <1>0, <1>5, ConcatElements
  <1>7. Shape(Tail(q)) BY ShapeTail
  <1>8. Shape(Body(a) \o Tail(q))
    <2>1. CASE a = "drainIO"
      <3>1. Body(a) \o Tail(q) = Body(a) BY <2>1, <1>3, <1>5, ConcatEmptySeq
      <3> QED BY <3>1, <1>4, ShapeBody
    <2>2. CASE a = "scheduleFrame"
      <3>1. Body(a) = <<Do("scheduleFrame")>> BY <2>2 DEF Body
      <3> QED BY <3>1, <1>0, <1>2, <1>7, ShapeCons
    <2>3. CASE a = "setUpSurface"
      <3>1. Body(a) = <<Do("setUp")>> BY <2>3 DEF Body
      <3> QED BY <3>1, <1>0, <1>2, <1>7, ShapeCons
    <2> QED BY <1>1, <2>1, <2>2, <2>3
  <1> QED BY <1>1, <1>2, <1>3, <1>6, <1>8

-----------------------------------------------------------------------------
(* The steps of the system, each with what it executes.                    *)

\* Thread t executes statement s of a task.
Executes(t, s) ==
  /\ todo[t] # <<>> /\ Head(todo[t]) = s
  /\ todo' = [todo EXCEPT ![t] = Tail(@)]
  /\ UNCHANGED <<host, callVars>>

\* The call goes on with its statement s.
Proceeds(s) ==
  /\ todo["platform"] = <<>>
  /\ place \in 1..Len(Program(call)) /\ Program(call)[place] = s
  /\ place' = place + 1
  /\ UNCHANGED <<host, call, changes>>

Sends(r, a) ==
  /\ queue' = [queue EXCEPT ![host[r]] = Append(@, a)]
  /\ UNCHANGED <<signalled, objectVars, frameVars, waitVars>>
Sets(l) ==
  /\ signalled' = signalled \cup {l}
  /\ UNCHANGED <<queue, objectVars, frameVars, waitVars>>
Passes(l) ==
  /\ l \in signalled /\ signalled' = signalled \ {l}
  /\ UNCHANGED <<queue, objectVars, frameVars, waitVars>>
Touches(s) ==
  /\ \/ \E x \in Objects : s = Make(x) /\ alive' = alive \cup {x} /\ UNCHANGED misused
     \/ \E x \in Objects : s = Use(x) /\ UNCHANGED alive /\ misused' = misused \cup ({x} \ alive)
     \/ \E x \in Objects : /\ s = Drop(x) /\ alive' = alive \ {x}
                           /\ misused' = misused \cup ({x} \ alive)
  /\ surface' = (surface /\ "rasterizer" \in alive')
  /\ UNCHANGED <<queue, signalled, wantsFrame, frames, waitVars>>
Has(e) ==
  /\ surface' = CASE e = "setUp" -> surface \/ "rasterizer" \in alive
                  [] e = "tearDown" -> FALSE
                  [] OTHER -> surface
  /\ wantsFrame' = (wantsFrame \/ (e = "scheduleFrame" /\ "engine" \in alive))
  /\ waiting' = CASE e = "setUp" -> TRUE
                  [] e = "clearWaiting" -> FALSE
                  [] OTHER -> waiting
  /\ misused' = IF e \in {"setUp", "clearWaiting", "notify"}
                THEN misused \cup ({"shell"} \ alive) ELSE misused
  /\ waiter' = IF e = "notify" /\ waiter = "asleep" THEN "check" ELSE waiter
  /\ missed' = (missed \/ (e = "notify" /\ waiter = "checked"))
  /\ UNCHANGED <<queue, signalled, alive, frames>>
Begins(t, q) ==
  /\ todo' = [todo EXCEPT ![t] = q]
  /\ UNCHANGED <<host, queue, signalled, objectVars, frameVars, waitVars>>

\* A statement of a task: another task is sent, or run at once.
SendStep(t) ==
  \E a \in Tasks, r \in Runners : \E s \in {Run(a, r), Post(a, r)} :
    /\ Executes(t, s) /\ Sends(r, a)
    /\ \/ a = "drainIO" /\ r = "io" /\ s = Run(a, r) /\ host[r] # t
       \/ a = "scheduleFrame" /\ r = "ui" /\ s = Run(a, r)
       \/ a = "setUpSurface" /\ r = "raster" /\ s = Run(a, r)
       \/ a = "draw" /\ r = "raster" /\ s = Post(a, r)
InlineStep(t) ==
  \E a \in Tasks, r \in Runners :
    /\ todo[t] # <<>> /\ Head(todo[t]) = Run(a, r) /\ host[r] = t
    /\ Begins(t, Body(a) \o Tail(todo[t])) /\ UNCHANGED callVars
SetStep(t) == \E l \in Latches : Executes(t, Signal(l)) /\ Sets(l)
PassStep(t) == \E l \in {"weakIo", "unrefQueue", "snapshots", "context"} :
                 Executes(t, Wait(l)) /\ Passes(l)
TouchStep(t) ==
  \E s \in {Make(x) : x \in {"rasterizer", "engine", "io"}} \cup {Use(x) : x \in Objects}
             \cup {Drop(x) : x \in {"engine", "rasterizer", "io", "view"}} :
    Executes(t, s) /\ Touches(s)
DoStep(t) ==
  \E e \in {"setUp", "tearDown", "testWaiting", "clearWaiting", "notify", "scheduleFrame"} :
    Executes(t, Do(e)) /\ Has(e)
FrameStep(t) ==
  /\ todo[t] # <<>> /\ Head(todo[t]) = Do("testWaiting") /\ "rasterizer" \in alive
  /\ Begins(t, FirstFrame \o Tail(todo[t])) /\ UNCHANGED callVars

\* The same for a statement of the call.
CallSends ==
  \E a \in Tasks, r \in Runners :
    /\ \/ Proceeds(Run(a, r)) /\ RunAt(call, place, a, r) /\ host[r] # "platform"
       \/ Proceeds(Post(a, r)) /\ a = "stopRouting" /\ r = "platform"
            /\ call = "create" /\ place = 11
    /\ Sends(r, a) /\ UNCHANGED todo
CallRuns ==
  \E a \in Tasks, r \in Runners :
    /\ Proceeds(Run(a, r)) /\ RunAt(call, place, a, r) /\ host[r] = "platform"
    /\ Begins("platform", Body(a))
CallWaits == \E l : Proceeds(Wait(l)) /\ WaitAt(call, place, l) /\ Passes(l) /\ UNCHANGED todo
CallTouches == \E s : Proceeds(s) /\ UseAt(call, place, s) /\ Touches(s) /\ UNCHANGED todo
CallSetsUp ==
  /\ Proceeds(Do("setUp")) /\ call = "createSurface" /\ place = 4
  /\ Has("setUp") /\ UNCHANGED todo

TaskStep(t) == SendStep(t) \/ InlineStep(t) \/ SetStep(t) \/ PassStep(t) \/ TouchStep(t)
                 \/ DoStep(t) \/ FrameStep(t)
CallStep == CallSends \/ CallRuns \/ CallWaits \/ CallTouches \/ CallSetsUp

LEMMA HostFacts ==
  ASSUME host \in Hosts
  PROVE  /\ host["platform"] = "platform"
         /\ \A r \in Runners : host[r] \in Runners /\ host[host[r]] = host[r]
  <1>1. host \in [Runners -> Runners] /\ Rank[host["platform"]] <= Rank["platform"]
          /\ \A r \in Runners : host[host[r]] = host[r]
    BY DEF Hosts, Runners
  <1>2. host["platform"] \in Runners BY <1>1 DEF Runners
  <1>3. host["platform"] = "platform" BY <1>1, <1>2 DEF Rank, Runners
  <1> QED BY <1>1, <1>3

LEMMA StatementCases ==
  ASSUME NEW s \in Statements
  PROVE  \/ s \in {Run("drainIO", "io"), Run("scheduleFrame", "ui"),
                   Run("setUpSurface", "raster")}
         \/ s = Post("draw", "raster")
         \/ \E l \in {"weakIo", "unrefQueue", "snapshots", "context"} : s = Wait(l)
         \/ \E l \in Latches : s = Signal(l)
         \/ \E x \in {"rasterizer", "engine", "io"} : s = Make(x)
         \/ \E x \in Objects : s = Use(x)
         \/ \E x \in {"engine", "rasterizer", "io", "view"} : s = Drop(x)
         \/ \E e \in {"setUp", "tearDown", "testWaiting", "clearWaiting", "notify",
                      "scheduleFrame"} : s = Do(e)
  <1>1. CASE s \in StatementsOf("platform") BY <1>1 DEF StatementsOf, Latches, Objects
  <1>2. CASE s \in StatementsOf("raster") BY <1>2 DEF StatementsOf, Latches, Objects
  <1>3. CASE s \in StatementsOf("ui") BY <1>3 DEF StatementsOf, Latches, Objects
  <1>4. CASE s \in StatementsOf("io") BY <1>4 DEF StatementsOf, Latches, Objects
  <1> QED BY <1>1, <1>2, <1>3, <1>4 DEF Statements, Runners

\* What a thread executes of its tasks.
LEMMA TaskStepCases ==
  ASSUME Types, NEW t \in Runners, todo[t] # <<>>,
         Communicate(t) \/ UseObject(t) \/ Affect(t)
  PROVE  TaskStep(t)
  <1> DEFINE s == Head(todo[t])
  <1>1. todo[t] \in Seq(Statements) /\ todo \in [Runners -> Seq(Statements)] BY DEF Types
  <1>2. s \in Statements /\ Tail(todo[t]) \in Seq(Statements) BY <1>1, TailElements
  <1>3. Statement(t) = s BY DEF Statement
  <1>4. Continue(t) => todo' = [todo EXCEPT ![t] = Tail(@)] /\ UNCHANGED place
    <2>1. <<>> \o Tail(todo[t]) = Tail(todo[t]) BY <1>2, ConcatEmptySeq
    <2> QED BY <2>1 DEF Continue, ContinueWith
  <1> HIDE DEF s
  <1>5. CASE Communicate(t)
    <2>0. UNCHANGED <<host, objectVars, call, changes, frameVars, waitVars>>
      BY <1>5 DEF Communicate, TouchesLocals, objectVars, Types, Calls, Failures
    <2>1. CASE s.do = "run" /\ RunNowOrPostTask(t, s) /\ UNCHANGED signalled
      <3>1. PICK a \in Tasks, r \in Runners : 
              /\ s = Run(a, r)
              /\ \/ a = "drainIO" /\ r = "io"
                 \/ a = "scheduleFrame" /\ r = "ui"
                 \/ a = "setUpSurface" /\ r = "raster"
        BY <2>1, <1>2, StatementCases, StatementParts, TaskTable DEF Tasks, Runners
      <3>2. s.what = a /\ s.on = r BY <3>1, StatementParts
      <3>3. CASE host[r] = t
        <4>1. ContinueWith(t, Body(a)) /\ UNCHANGED queue
          BY <2>1, <3>2, <3>3 DEF RunNowOrPostTask
        <4>2. todo' = [todo EXCEPT ![t] = Body(a) \o Tail(todo[t])] /\ UNCHANGED place
          BY <4>1 DEF ContinueWith
        <4>3. InlineStep(t)
          BY <4>1, <4>2, <3>1, <3>3, <2>0, <2>1 DEF InlineStep, Begins, callVars, s
        <4> QED BY <4>3 DEF TaskStep
      <3>4. CASE host[r] # t
        <4>1. Continue(t) /\ queue' = [queue EXCEPT ![host[r]] = Append(@, a)]
          BY <2>1, <3>2, <3>4 DEF RunNowOrPostTask
        <4>2. Executes(t, s) /\ Sends(r, a)
          BY <4>1, <1>4, <2>0, <2>1 DEF Executes, Sends, callVars, s
        <4>3. SendStep(t) BY <4>2, <3>1, <3>4 DEF SendStep
        <4> QED BY <4>3 DEF TaskStep
      <3> QED BY <3>3, <3>4
    <2>2. CASE /\ s.do = "post" /\ Continue(t) /\ UNCHANGED signalled
               /\ queue' = [queue EXCEPT ![host[s.on]] = Append(@, s.what)]
      <3>1. s = Post("draw", "raster") BY <2>2, <1>2, StatementCases, StatementParts
      <3>2. s.what = "draw" /\ s.on = "raster" BY <3>1, StatementParts
      <3>3. Executes(t, s) /\ Sends("raster", "draw")
        BY <2>2, <3>2, <1>4, <2>0 DEF Executes, Sends, callVars, s
      <3>4. "draw" \in Tasks /\ "raster" \in Runners BY TaskTable DEF Tasks, Runners
      <3>5. SendStep(t) BY <3>3, <3>1, <3>4 DEF SendStep
      <3> QED BY <3>5 DEF TaskStep
    <2>3. CASE /\ s.do = "wait" /\ s.what \in signalled /\ Continue(t) /\ UNCHANGED queue
               /\ signalled' = signalled \ {s.what}
      <3>1. PICK l \in {"weakIo", "unrefQueue", "snapshots", "context"} : s = Wait(l)
        BY <2>3, <1>2, StatementCases, StatementParts
      <3>2. s.what = l BY <3>1, StatementParts
      <3>3. Executes(t, Wait(l)) /\ Passes(l)
        BY <2>3, <3>1, <3>2, <1>4, <2>0 DEF Executes, Passes, callVars, s
      <3>4. PassStep(t) BY <3>3 DEF PassStep
      <3> QED BY <3>4 DEF TaskStep
    <2>4. CASE /\ s.do = "signal" /\ Continue(t) /\ UNCHANGED queue
               /\ signalled' = signalled \cup {s.what}
      <3>1. PICK l \in Latches : s = Signal(l)
        BY <2>4, <1>2, StatementCases, StatementParts
      <3>2. s.what = l BY <3>1, StatementParts
      <3>3. Executes(t, Signal(l)) /\ Sets(l)
        BY <2>4, <3>1, <3>2, <1>4, <2>0 DEF Executes, Sets, callVars, s
      <3>4. SetStep(t) BY <3>3 DEF SetStep
      <3> QED BY <3>4 DEF TaskStep
    <2> QED BY <1>5, <1>3, <2>1, <2>2, <2>3, <2>4 DEF Communicate
  <1>6. CASE UseObject(t)
    <2>0. /\ Continue(t)
          /\ surface' = (surface /\ "rasterizer" \in alive')
          /\ UNCHANGED <<host, queue, signalled, call, changes, wantsFrame, frames, waitVars>>
          /\ \/ s.do = "make" /\ alive' = alive \cup {s.what} /\ UNCHANGED misused
             \/ s.do = "use" /\ misused' = misused \cup ({s.what} \ alive) /\ UNCHANGED alive
             \/ /\ s.do = "drop" /\ alive' = alive \ {s.what}
                /\ misused' = misused \cup ({s.what} \ alive)
      BY <1>6, <1>3 DEF UseObject
    <2>1. Executes(t, s) BY <2>0, <1>4 DEF Executes, callVars, s
    <2>2. CASE s.do = "make"
      <3>1. PICK x \in {"rasterizer", "engine", "io"} : s = Make(x)
        BY <2>2, <1>2, StatementCases, StatementParts
      <3>2. Touches(s) BY <2>0, <2>2, <3>1, StatementParts DEF Touches, Objects
      <3>3. TouchStep(t) BY <2>1, <3>1, <3>2 DEF TouchStep
      <3> QED BY <3>3 DEF TaskStep
    <2>3. CASE s.do = "use"
      <3>1. PICK x \in Objects : s = Use(x)
        BY <2>3, <1>2, StatementCases, StatementParts
      <3>2. Touches(s) BY <2>0, <2>3, <3>1, StatementParts DEF Touches
      <3>3. TouchStep(t) BY <2>1, <3>1, <3>2 DEF TouchStep
      <3> QED BY <3>3 DEF TaskStep
    <2>4. CASE s.do = "drop"
      <3>1. PICK x \in {"engine", "rasterizer", "io", "view"} : s = Drop(x)
        BY <2>4, <1>2, StatementCases, StatementParts
      <3>2. Touches(s) BY <2>0, <2>4, <3>1, StatementParts DEF Touches, Objects
      <3>3. TouchStep(t) BY <2>1, <3>1, <3>2 DEF TouchStep
      <3> QED BY <3>3 DEF TaskStep
    <2> QED BY <2>0, <2>2, <2>3, <2>4
  <1>7. CASE Affect(t)
    <2>1. s.do = "do" BY <1>7, <1>3 DEF Affect
    <2>2. PICK e \in {"setUp", "tearDown", "testWaiting", "clearWaiting", "notify",
                      "scheduleFrame"} : s = Do(e)
      BY <2>1, <1>2, StatementCases, StatementParts
    <2>3. s.what = e BY <2>2, StatementParts
    <2>4. Has(e) /\ UNCHANGED <<host, call, changes>>
      BY <1>7, <1>3, <2>3 DEF Affect, Has
    <2>5. ContinueWith(t, IF e = "testWaiting" /\ "rasterizer" \in alive /\ waiting
                          THEN FirstFrame ELSE <<>>)
      BY <1>7, <1>3, <2>3 DEF Affect
    <2>6. CASE e = "testWaiting" /\ "rasterizer" \in alive /\ waiting
      <3>1. todo' = [todo EXCEPT ![t] = FirstFrame \o Tail(todo[t])] /\ UNCHANGED place
        BY <2>5, <2>6 DEF ContinueWith
      <3>2. UNCHANGED <<queue, signalled, objectVars, frameVars, waitVars>>
        BY <2>4, <2>6 DEF Types, Has, objectVars, frameVars, waitVars
      <3>3. FrameStep(t) BY <3>1, <3>2, <2>2, <2>4, <2>6 DEF FrameStep, Begins, callVars, s
      <3> QED BY <3>3 DEF TaskStep
    <2>7. CASE ~(e = "testWaiting" /\ "rasterizer" \in alive /\ waiting)
      <3>1. Continue(t) BY <2>5, <2>7 DEF Continue
      <3>2. Executes(t, Do(e)) BY <3>1, <1>4, <2>2, <2>4 DEF Executes, callVars, s
      <3>3. DoStep(t) BY <3>2, <2>4 DEF DoStep
      <3> QED BY <3>3 DEF TaskStep
    <2> QED BY <2>6, <2>7
  <1> QED BY <1>5, <1>6, <1>7

\* What the platform thread executes of its call.
LEMMA CallStepCases ==
  ASSUME Types, NEW t \in Runners, todo[t] = <<>>,
         Communicate(t) \/ UseObject(t) \/ Affect(t)
  PROVE  CallStep
  <1> DEFINE s == Program(call)[place]
  <1>1. host["platform"] = "platform" BY HostFacts DEF Types
  <1>2. t = "platform" /\ place <= Len(Program(call))
    BY <1>1 DEF Communicate, UseObject, Affect, CanExecute
  <1>3. place \in 1..Len(Program(call))
    <2>1. Len(Program(call)) \in Nat
      <3>1. CASE PostsRasterTask BY <3>1, ProgramTable DEF Types, Calls
      <3>2. CASE ~PostsRasterTask BY <3>2, ProgramTable DEF Types, Calls
      <3> QED BY <3>1, <3>2
    <2> QED BY <1>2, <2>1 DEF Types
  <1>4. Statement(t) = s BY DEF Statement
  <1>5. \A q : ContinueWith(t, q) =>
                 todo' = [todo EXCEPT !["platform"] = q] /\ place' = place + 1
    BY <1>2 DEF ContinueWith
  <1>6. Continue(t) => UNCHANGED todo /\ place' = place + 1
    <2>1. [todo EXCEPT !["platform"] = <<>>] = todo BY <1>2 DEF Types
    <2> QED BY <1>5, <2>1 DEF Continue
  <1>7. \/ \E l : s = Wait(l) /\ WaitAt(call, place, l)
        \/ \E a, r : s = Run(a, r) /\ RunAt(call, place, a, r)
        \/ UseAt(call, place, s)
        \/ call = "create" /\ place = 11 /\ s = Post("stopRouting", "platform")
        \/ call = "createSurface" /\ place = 4 /\ s = Do("setUp")
    BY <1>3, ProgramCases DEF Types
  <1>8. UseAt(call, place, s) => s.do \in {"make", "use", "drop"}
    BY StatementParts DEF UseAt
  <1> DEFINE Goes == UNCHANGED <<host, call, changes>> /\ place' = place + 1 => Proceeds(s)
  <1>9. Goes BY <1>2, <1>3 DEF Proceeds
  <1> HIDE DEF s, Goes
  <1>10. CASE Communicate(t)
    <2>0. UNCHANGED <<host, objectVars, call, changes, frameVars, waitVars>>
      BY <1>10 DEF Communicate, TouchesLocals, objectVars, Types, Calls, Failures
    <2>1. CASE s.do = "run" /\ RunNowOrPostTask(t, s) /\ UNCHANGED signalled
      <3>1. PICK a, r : s = Run(a, r) /\ RunAt(call, place, a, r)
        BY <2>1, <1>7, <1>8, StatementParts
      <3>2. s.what = a /\ s.on = r BY <3>1, StatementParts
      <3>3. a \in Tasks /\ r \in Runners BY <3>1, TaskTable DEF RunAt, Tasks, Runners
      <3>4. CASE host[r] = t
        <4>1. ContinueWith(t, Body(a)) /\ UNCHANGED queue
          BY <2>1, <3>2, <3>4 DEF RunNowOrPostTask
        <4>2. Proceeds(Run(a, r)) BY <4>1, <1>5, <1>9, <2>0, <3>1 DEF Goes
        <4>3. Begins("platform", Body(a)) BY <4>1, <1>5, <2>0, <2>1 DEF Begins
        <4>4. CallRuns BY <4>2, <4>3, <3>1, <3>3, <3>4, <1>2 DEF CallRuns
        <4> QED BY <4>4 DEF CallStep
      <3>5. CASE host[r] # t
        <4>1. Continue(t) /\ queue' = [queue EXCEPT ![host[r]] = Append(@, a)]
          BY <2>1, <3>2, <3>5 DEF RunNowOrPostTask
        <4>2. Proceeds(Run(a, r)) BY <4>1, <1>6, <1>9, <2>0, <3>1 DEF Goes
        <4>3. Sends(r, a) /\ UNCHANGED todo BY <4>1, <1>6, <2>0, <2>1 DEF Sends
        <4>4. CallSends BY <4>2, <4>3, <3>1, <3>3, <3>5, <1>2 DEF CallSends
        <4> QED BY <4>4 DEF CallStep
      <3> QED BY <3>4, <3>5
    <2>2. CASE /\ s.do = "post" /\ Continue(t) /\ UNCHANGED signalled
               /\ queue' = [queue EXCEPT ![host[s.on]] = Append(@, s.what)]
      <3>1. s = Post("stopRouting", "platform") /\ call = "create" /\ place = 11
        BY <2>2, <1>7, <1>8, StatementParts
      <3>2. s.what = "stopRouting" /\ s.on = "platform" BY <3>1, StatementParts
      <3>3. Sends("platform", "stopRouting") /\ UNCHANGED todo
        BY <2>2, <3>2, <1>6, <2>0 DEF Sends
      <3>4. Proceeds(Post("stopRouting", "platform"))
        BY <2>2, <1>6, <1>9, <2>0, <3>1 DEF Goes
      <3>5. "stopRouting" \in Tasks /\ "platform" \in Runners
        BY TaskTable DEF Tasks, Runners
      <3>6. CallSends BY <3>1, <3>3, <3>4, <3>5 DEF CallSends
      <3> QED BY <3>6 DEF CallStep
    <2>3. CASE /\ s.do = "wait" /\ s.what \in signalled /\ Continue(t) /\ UNCHANGED queue
               /\ signalled' = signalled \ {s.what}
      <3>1. PICK l : s = Wait(l) /\ WaitAt(call, place, l)
        BY <2>3, <1>7, <1>8, StatementParts
      <3>2. s.what = l BY <3>1, StatementParts
      <3>3. Proceeds(Wait(l)) BY <2>3, <1>6, <1>9, <2>0, <3>1 DEF Goes
      <3>4. Passes(l) /\ UNCHANGED todo BY <2>3, <3>2, <1>6, <2>0 DEF Passes
      <3>5. CallWaits BY <3>1, <3>3, <3>4 DEF CallWaits
      <3> QED BY <3>5 DEF CallStep
    <2>4. CASE s.do = "signal" BY <2>4, <1>7, <1>8, StatementParts
    <2> QED BY <1>10, <1>4, <2>1, <2>2, <2>3, <2>4 DEF Communicate
  <1>11. CASE UseObject(t)
    <2>0. /\ Continue(t)
          /\ surface' = (surface /\ "rasterizer" \in alive')
          /\ UNCHANGED <<host, queue, signalled, call, changes, wantsFrame, frames, waitVars>>
          /\ \/ s.do = "make" /\ alive' = alive \cup {s.what} /\ UNCHANGED misused
             \/ s.do = "use" /\ misused' = misused \cup ({s.what} \ alive) /\ UNCHANGED alive
             \/ /\ s.do = "drop" /\ alive' = alive \ {s.what}
                /\ misused' = misused \cup ({s.what} \ alive)
      BY <1>11, <1>4 DEF UseObject
    <2>1. UseAt(call, place, s) BY <2>0, <1>7, StatementParts
    <2>2. Proceeds(s) /\ UNCHANGED todo BY <2>0, <1>6, <1>9 DEF Goes
    <2>3. s \in {Make("shell"), Make("view"), Use("rasterizer"), Drop("shell")}
      BY <2>1 DEF UseAt
    <2>4. Touches(s) BY <2>0, <2>3, StatementParts DEF Touches, Objects
    <2>5. CallTouches BY <2>1, <2>2, <2>4 DEF CallTouches
    <2> QED BY <2>5 DEF CallStep
  <1>12. CASE Affect(t)
    <2>1. s.do = "do" BY <1>12, <1>4 DEF Affect
    <2>2. s = Do("setUp") /\ call = "createSurface" /\ place = 4
      BY <2>1, <1>7, <1>8, StatementParts
    <2>3. s.what = "setUp" BY <2>2, StatementParts
    <2>4. Has("setUp") /\ UNCHANGED <<host, call, changes>>
      BY <1>12, <1>4, <2>3 DEF Affect, Has
    <2>5. Continue(t) BY <1>12, <1>4, <2>3 DEF Affect, Continue
    <2>6. CallSetsUp BY <2>2, <2>4, <2>5, <1>6, <1>9 DEF CallSetsUp, Goes
    <2> QED BY <2>6 DEF CallStep
  <1> QED BY <1>10, <1>11, <1>12

-----------------------------------------------------------------------------
(* What the steps do to the queues and to what threads have to do.         *)

LEMMA ExecutesDelta ==
  ASSUME Types, NEW t \in Runners, NEW s, Executes(t, s)
  PROVE  /\ todo' \in [Runners -> Seq(Statements)]
         /\ \A u \in Runners : u # t => todo'[u] = todo[u]
         /\ todo[t] \in Seq(Statements) /\ todo[t] # <<>> /\ Head(todo[t]) = s
         /\ todo'[t] = Tail(todo[t])
         /\ s \in Statements /\ s \in Elements(todo[t])
         /\ Elements(todo[t]) = {s} \cup Elements(todo'[t])
         /\ \A u \in Runners : Elements(todo'[u]) \subseteq Elements(todo[u])
  <1>1. todo \in [Runners -> Seq(Statements)] BY DEF Types
  <1>2. todo[t] \in Seq(Statements) /\ todo[t] # <<>> /\ Head(todo[t]) = s
    BY <1>1 DEF Executes
  <1>3. /\ Tail(todo[t]) \in Seq(Statements) /\ s \in Statements /\ s \in Elements(todo[t])
        /\ Elements(todo[t]) = {s} \cup Elements(Tail(todo[t]))
    BY <1>2, TailElements
  <1>4. todo'[t] = Tail(todo[t]) /\ \A u \in Runners : u # t => todo'[u] = todo[u]
    BY <1>1 DEF Executes
  <1>5. todo' \in [Runners -> Seq(Statements)] BY <1>1, <1>3 DEF Executes
  <1> QED BY <1>2, <1>3, <1>4, <1>5

LEMMA BeginsDelta ==
  ASSUME Types, NEW t \in Runners, NEW q \in Seq(Statements), todo' = [todo EXCEPT ![t] = q]
  PROVE  /\ todo' \in [Runners -> Seq(Statements)]
         /\ \A u \in Runners : u # t => todo'[u] = todo[u]
         /\ todo'[t] = q
  BY DEF Types

LEMMA SendsDelta ==
  ASSUME Types, NEW r \in Runners, NEW a \in Tasks, Sends(r, a)
  PROVE  /\ queue' \in [Runners -> Seq(Tasks)] /\ host[r] \in Runners
         /\ \A u \in Runners : u # host[r] => queue'[u] = queue[u]
         /\ queue[host[r]] \in Seq(Tasks)
         /\ queue'[host[r]] = Append(queue[host[r]], a)
         /\ Elements(queue'[host[r]]) = Elements(queue[host[r]]) \cup {a}
         /\ \A u \in Runners : Elements(queue[u]) \subseteq Elements(queue'[u])
  <1>1. queue \in [Runners -> Seq(Tasks)] /\ host[r] \in Runners BY HostFacts DEF Types
  <1>2. queue[host[r]] \in Seq(Tasks) BY <1>1
  <1>3. /\ Append(queue[host[r]], a) \in Seq(Tasks)
        /\ Elements(Append(queue[host[r]], a)) = Elements(queue[host[r]]) \cup {a}
    BY <1>2, AppendElements
  <1>4. /\ queue'[host[r]] = Append(queue[host[r]], a)
        /\ \A u \in Runners : u # host[r] => queue'[u] = queue[u]
    BY <1>1 DEF Sends
  <1>5. queue' \in [Runners -> Seq(Tasks)] BY <1>1, <1>3 DEF Sends
  <1> QED BY <1>1, <1>2, <1>3, <1>4, <1>5

LEMMA StartDelta ==
  ASSUME Types, NEW t \in Runners, StartTask(t)
  PROVE  /\ queue' \in [Runners -> Seq(Tasks)] /\ todo' \in [Runners -> Seq(Statements)]
         /\ \A u \in Runners : u # t => queue'[u] = queue[u] /\ todo'[u] = todo[u]
         /\ queue[t] \in Seq(Tasks) /\ queue[t] # <<>> /\ queue'[t] = Tail(queue[t])
         /\ Head(queue[t]) \in Tasks /\ Head(queue[t]) \in Elements(queue[t])
         /\ Elements(queue[t]) = {Head(queue[t])} \cup Elements(queue'[t])
         /\ \A u \in Runners : Elements(queue'[u]) \subseteq Elements(queue[u])
         /\ todo[t] = <<>> /\ todo'[t] = Body(Head(queue[t]))
         /\ UNCHANGED <<host, signalled, objectVars, callVars, frameVars, waitVars>>
  <1>1. queue \in [Runners -> Seq(Tasks)] /\ todo \in [Runners -> Seq(Statements)]
    BY DEF Types
  <1>2. queue[t] \in Seq(Tasks) /\ queue[t] # <<>> BY <1>1 DEF StartTask
  <1>3. /\ Tail(queue[t]) \in Seq(Tasks) /\ Head(queue[t]) \in Tasks
        /\ Head(queue[t]) \in Elements(queue[t])
        /\ Elements(queue[t]) = {Head(queue[t])} \cup Elements(Tail(queue[t]))
    BY <1>2, TailElements
  <1>4. Body(Head(queue[t])) \in Seq(Statements) BY <1>3, BodySeq
  <1>5. /\ queue' = [queue EXCEPT ![t] = Tail(@)]
        /\ todo' = [todo EXCEPT ![t] = Body(Head(queue[t]))]
        /\ todo[t] = <<>>
        /\ UNCHANGED <<host, signalled, objectVars, callVars, frameVars, waitVars>>
    BY DEF StartTask
  <1>6. queue'[t] = Tail(queue[t]) /\ todo'[t] = Body(Head(queue[t])) BY <1>1, <1>5
  <1>7. \A u \in Runners : u # t => queue'[u] = queue[u] /\ todo'[u] = todo[u]
    BY <1>1, <1>5
  <1>8. queue' \in [Runners -> Seq(Tasks)] /\ todo' \in [Runners -> Seq(Statements)]
    BY <1>1, <1>3, <1>4, <1>5
  <1> QED BY <1>2, <1>3, <1>5, <1>6, <1>7, <1>8

\* A task is run at once; another, of one statement, may be behind it.
LEMMA InlineDelta ==
  ASSUME Types, Shapes, NEW t \in Runners, InlineStep(t)
  PROVE  \E a \in Tasks, r \in Runners :
           /\ \/ a = "drainIO" /\ r = "io" /\ Tail(todo[t]) = <<>>
              \/ a = "scheduleFrame" /\ r = "ui"
              \/ a = "setUpSurface" /\ r = "raster"
           /\ a \in TasksOf(r) /\ host[r] = t
           /\ todo' \in [Runners -> Seq(Statements)]
           /\ \A u \in Runners : u # t => todo'[u] = todo[u]
           /\ todo[t] \in Seq(Statements) /\ todo[t] # <<>> /\ Head(todo[t]) = Run(a, r)
           /\ Run(a, r) \in Elements(todo[t])
           /\ Elements(todo[t]) = {Run(a, r)} \cup Elements(Tail(todo[t]))
           /\ Elements(Tail(todo[t])) \subseteq AfterRun
           /\ Elements(todo'[t]) = Elements(Body(a)) \cup Elements(Tail(todo[t]))
           /\ Shape(todo'[t])
           /\ todo'[t] = Body(a) \o Tail(todo[t])
           /\ UNCHANGED <<host, queue, signalled, objectVars, callVars, frameVars, waitVars>>
  <1>1. PICK a \in Tasks, r \in Runners :
          /\ todo[t] # <<>> /\ Head(todo[t]) = Run(a, r) /\ host[r] = t
          /\ Begins(t, Body(a) \o Tail(todo[t])) /\ UNCHANGED callVars
    BY DEF InlineStep
  <1>2. todo[t] \in Seq(Statements) /\ Shape(todo[t]) BY DEF Types, Shapes
  <1>3. /\ Head(todo[t]) \in Statements /\ Run(a, r) \in Elements(todo[t])
        /\ Elements(todo[t]) = {Run(a, r)} \cup Elements(Tail(todo[t]))
    BY <1>1, <1>2, TailElements
  <1>4. /\ \/ a = "drainIO" /\ r = "io" /\ Tail(todo[t]) = <<>>
           \/ a = "scheduleFrame" /\ r = "ui"
           \/ a = "setUpSurface" /\ r = "raster"
        /\ Elements(Tail(todo[t])) \subseteq AfterRun
        /\ Body(a) \o Tail(todo[t]) \in Seq(Statements)
        /\ Elements(Body(a) \o Tail(todo[t])) = Elements(Body(a)) \cup Elements(Tail(todo[t]))
        /\ Shape(Body(a) \o Tail(todo[t]))
    BY <1>1, <1>2, <1>3, ShapeInline
  <1>5. a \in TasksOf(r) BY <1>4, TaskTable
  <1>6. todo' = [todo EXCEPT ![t] = Body(a) \o Tail(todo[t])]
          /\ UNCHANGED <<host, queue, signalled, objectVars, callVars, frameVars, waitVars>>
    BY <1>1 DEF Begins
  <1>7. /\ todo' \in [Runners -> Seq(Statements)]
        /\ \A u \in Runners : u # t => todo'[u] = todo[u]
        /\ todo'[t] = Body(a) \o Tail(todo[t])
    BY <1>4, <1>6, BeginsDelta
  <1> QED BY <1>1, <1>2, <1>3, <1>4, <1>5, <1>6, <1>7

\* The first frame: the flag is found set.
LEMMA FrameDelta ==
  ASSUME Types, Shapes, NEW t \in Runners, FrameStep(t)
  PROVE  /\ todo' \in [Runners -> Seq(Statements)]
         /\ \A u \in Runners : u # t => todo'[u] = todo[u]
         /\ Elements(todo[t]) = {Do("testWaiting")} /\ Do("testWaiting") \in Elements(todo[t])
         /\ todo'[t] = <<Do("clearWaiting"), Do("notify")>>
         /\ Elements(todo'[t]) = {Do("clearWaiting"), Do("notify")}
         /\ Shape(todo'[t]) /\ "rasterizer" \in alive
         /\ UNCHANGED <<host, queue, signalled, objectVars, callVars, frameVars, waitVars>>
  <1>1. todo[t] \in Seq(Statements) /\ Shape(todo[t]) BY DEF Types, Shapes
  <1>2. todo[t] # <<>> /\ Head(todo[t]) = Do("testWaiting") BY DEF FrameStep
  <1>3. Do("testWaiting") \in Elements(todo[t]) BY <1>1, <1>2, TailElements
  <1>4. todo[t] = <<Do("testWaiting")>> BY <1>1, <1>3 DEF Shape, Whole
  <1>5. Elements(todo[t]) = {Do("testWaiting")} /\ Tail(todo[t]) = <<>>
    BY <1>4, ShortElements
  <1>6. FirstFrame \o Tail(todo[t]) = FirstFrame BY <1>5, ShapeFrames, ConcatEmptySeq
  <1>7. todo' = [todo EXCEPT ![t] = FirstFrame] BY <1>6 DEF FrameStep, Begins
  <1>8. /\ todo' \in [Runners -> Seq(Statements)]
        /\ \A u \in Runners : u # t => todo'[u] = todo[u]
        /\ todo'[t] = FirstFrame
    BY <1>7, ShapeFrames, BeginsDelta
  <1>9. "rasterizer" \in alive
          /\ UNCHANGED <<host, queue, signalled, objectVars, callVars, frameVars, waitVars>>
    BY DEF FrameStep, Begins
  <1> QED BY <1>3, <1>5, <1>8, <1>9, ShapeFrames DEF FirstFrame

LEMMA DrawDelta ==
  ASSUME Types, OnAnimatorDraw
  PROVE  LET t == host["ui"] IN
         /\ t \in Runners
         /\ todo' \in [Runners -> Seq(Statements)]
         /\ \A u \in Runners : u # t => todo'[u] = todo[u]
         /\ todo[t] = <<>>
         /\ Elements(todo'[t]) = {Use("rasterizer"), Post("draw", "raster")}
         /\ Shape(todo'[t]) /\ wantsFrame /\ "engine" \in alive
         /\ UNCHANGED <<host, queue, signalled, objectVars, callVars, surface, waitVars>>
  <1> DEFINE q == <<Use("rasterizer"), Post("draw", "raster")>>
  <1>1. host["ui"] \in Runners BY HostFacts DEF Types, Runners
  <1>2. /\ todo' = [todo EXCEPT ![host["ui"]] = q] /\ todo[host["ui"]] = <<>>
        /\ wantsFrame /\ "engine" \in alive
        /\ UNCHANGED <<host, queue, signalled, objectVars, callVars, surface, waitVars>>
    BY DEF OnAnimatorDraw
  <1>3. /\ q \in Seq(Statements) /\ Shape(q)
        /\ Elements(q) = {Use("rasterizer"), Post("draw", "raster")}
    BY ShapeFrames
  <1> HIDE DEF q
  <1>4. /\ todo' \in [Runners -> Seq(Statements)]
        /\ \A u \in Runners : u # host["ui"] => todo'[u] = todo[u]
        /\ todo'[host["ui"]] = q
    BY <1>1, <1>2, <1>3, BeginsDelta
  <1> QED BY <1>1, <1>2, <1>3, <1>4

\* A task of the call is run at once.
LEMMA CallRunsDelta ==
  ASSUME Types, CallRuns
  PROVE  \E a \in Tasks, r \in Runners :
           /\ Proceeds(Run(a, r)) /\ RunAt(call, place, a, r)
           /\ host[r] = "platform" /\ a \in TasksOf(r)
           /\ todo["platform"] = <<>>
           /\ todo' \in [Runners -> Seq(Statements)]
           /\ \A u \in Runners : u # "platform" => todo'[u] = todo[u]
           /\ todo'["platform"] = Body(a)
           /\ UNCHANGED <<host, queue, signalled, objectVars, call, changes, frameVars, waitVars>>
  <1>1. PICK a \in Tasks, r \in Runners :
          /\ Proceeds(Run(a, r)) /\ RunAt(call, place, a, r) /\ host[r] = "platform"
          /\ Begins("platform", Body(a))
    BY DEF CallRuns
  <1>2. a \in TasksOf(r) BY <1>1, TaskTable DEF RunAt
  <1>3. Body(a) \in Seq(Statements) BY BodySeq
  <1>4. "platform" \in Runners BY DEF Runners
  <1>5. /\ todo' \in [Runners -> Seq(Statements)]
        /\ \A u \in Runners : u # "platform" => todo'[u] = todo[u]
        /\ todo'["platform"] = Body(a)
    BY <1>1, <1>3, <1>4, BeginsDelta DEF Begins
  <1> QED BY <1>1, <1>2, <1>5 DEF Begins, Proceeds

LEMMA PlainDelta ==
  ASSUME NEW t \in Runners, SetStep(t) \/ PassStep(t) \/ TouchStep(t) \/ DoStep(t)
  PROVE  UNCHANGED <<host, queue, callVars>> /\ \E s : Executes(t, s)
  BY DEF SetStep, PassStep, TouchStep, DoStep, Executes, Sets, Passes, Touches, Has

LEMMA PlainCallDelta ==
  ASSUME CallWaits \/ CallTouches \/ CallSetsUp
  PROVE  /\ UNCHANGED <<host, queue, todo, call, changes>>
         /\ place \in 1..Len(Program(call)) /\ place' = place + 1
  BY DEF CallWaits, CallTouches, CallSetsUp, Passes, Touches, Has, Proceeds

LEMMA SendStepDelta ==
  ASSUME Types, NEW t \in Runners, SendStep(t)
  PROVE  \E a \in Tasks, r \in Runners, s \in Statements :
           /\ Executes(t, s) /\ Sends(r, a) /\ a \in TasksOf(r)
           /\ \/ a = "drainIO" /\ r = "io" /\ s = Run(a, r) /\ host[r] # t
              \/ a = "scheduleFrame" /\ r = "ui" /\ s = Run(a, r)
              \/ a = "setUpSurface" /\ r = "raster" /\ s = Run(a, r)
              \/ a = "draw" /\ r = "raster" /\ s = Post(a, r)
           /\ UNCHANGED <<host, callVars, signalled, objectVars, frameVars, waitVars>>
  <1>1. PICK a \in Tasks, r \in Runners : \E s \in {Run(a, r), Post(a, r)} :
          /\ Executes(t, s) /\ Sends(r, a)
          /\ \/ a = "drainIO" /\ r = "io" /\ s = Run(a, r) /\ host[r] # t
             \/ a = "scheduleFrame" /\ r = "ui" /\ s = Run(a, r)
             \/ a = "setUpSurface" /\ r = "raster" /\ s = Run(a, r)
             \/ a = "draw" /\ r = "raster" /\ s = Post(a, r)
    BY DEF SendStep
  <1>2. PICK s : /\ Executes(t, s) /\ Sends(r, a)
                 /\ \/ a = "drainIO" /\ r = "io" /\ s = Run(a, r) /\ host[r] # t
                    \/ a = "scheduleFrame" /\ r = "ui" /\ s = Run(a, r)
                    \/ a = "setUpSurface" /\ r = "raster" /\ s = Run(a, r)
                    \/ a = "draw" /\ r = "raster" /\ s = Post(a, r)
    BY <1>1
  <1>3. s \in Statements BY <1>2, ExecutesDelta
  <1>4. a \in TasksOf(r) BY <1>2, TaskTable
  <1>5. UNCHANGED <<host, callVars, signalled, objectVars, frameVars, waitVars>>
    BY <1>2 DEF Executes, Sends
  <1> QED BY <1>2, <1>3, <1>4, <1>5

LEMMA CallSendsDelta ==
  ASSUME Types, CallSends
  PROVE  \E a \in Tasks, r \in Runners :
           /\ Sends(r, a) /\ a \in TasksOf(r) /\ todo["platform"] = <<>>
           /\ \/ Proceeds(Run(a, r)) /\ RunAt(call, place, a, r) /\ host[r] # "platform"
              \/ a = "stopRouting" /\ r = "platform" /\ call = "create" /\ place = 11
           /\ place \in 1..Len(Program(call)) /\ place' = place + 1
           /\ UNCHANGED <<host, todo, call, changes, signalled, objectVars, frameVars, waitVars>>
  <1>1. PICK a \in Tasks, r \in Runners :
          /\ \/ Proceeds(Run(a, r)) /\ RunAt(call, place, a, r) /\ host[r] # "platform"
             \/ Proceeds(Post(a, r)) /\ a = "stopRouting" /\ r = "platform"
                  /\ call = "create" /\ place = 11
          /\ Sends(r, a) /\ UNCHANGED todo
    BY DEF CallSends
  <1>2. a \in TasksOf(r) BY <1>1, TaskTable DEF RunAt
  <1>3. UNCHANGED <<host, todo, call, changes, signalled, objectVars, frameVars, waitVars>>
    BY <1>1 DEF Proceeds, Sends
  <1>4. place \in 1..Len(Program(call)) /\ place' = place + 1 /\ todo["platform"] = <<>>
    BY <1>1 DEF Proceeds
  <1> QED BY <1>1, <1>2, <1>3, <1>4

LEMMA SendsElements ==
  ASSUME Types, NEW r \in Runners, NEW a \in Tasks, Sends(r, a)
  PROVE  \A u \in Runners : \A b \in Elements(queue'[u]) :
           b \in Elements(queue[u]) \/ (u = host[r] /\ b = a)
  <1>1. /\ \A u \in Runners : u # host[r] => queue'[u] = queue[u]
        /\ Elements(queue'[host[r]]) = Elements(queue[host[r]]) \cup {a}
    BY SendsDelta
  <1> TAKE u \in Runners
  <1>2. CASE u = host[r] BY <1>1, <1>2
  <1>3. CASE u # host[r] BY <1>1, <1>3
  <1> QED BY <1>2, <1>3

-----------------------------------------------------------------------------
(* Tasks and statements stay on their threads, in their shapes.            *)

LEMMA HomesStep ==
  ASSUME Types, Homes, Shapes, NEW t \in Runners,
         TaskStep(t) \/ StartTask(t) \/ CallStep \/ OnAnimatorDraw
  PROVE  Homes'
  <1> DEFINE TaskHome(u, a) == \E r \in Runners : a \in TasksOf(r) /\ host[r] = u
  <1> DEFINE StatementHome(u, s) == \E r \in Runners : s \in StatementsOf(r) /\ host[r] = u
  <1>0. /\ \A u \in Runners : \A a \in Elements(queue[u]) : TaskHome(u, a)
        /\ \A u \in Runners : \A s \in Elements(todo[u]) : StatementHome(u, s)
    BY DEF Homes
  <1>1. SUFFICES ASSUME UNCHANGED host
                 PROVE  /\ \A u \in Runners : \A a \in Elements(queue'[u]) : TaskHome(u, a)
                        /\ \A u \in Runners : \A s \in Elements(todo'[u]) : StatementHome(u, s)
    <2>1. UNCHANGED host
      BY SendStepDelta, InlineDelta, PlainDelta, FrameDelta, StartDelta, CallSendsDelta,
         CallRunsDelta, PlainCallDelta, DrawDelta DEF TaskStep, CallStep
    <2> QED BY <2>1 DEF Homes
  <1> HIDE DEF TaskHome, StatementHome
  <1>2. CASE SendStep(t)
    <2>1. PICK a \in Tasks, r \in Runners, s \in Statements :
            Executes(t, s) /\ Sends(r, a) /\ a \in TasksOf(r)
      BY <1>2, SendStepDelta
    <2>2. TaskHome(host[r], a) BY <2>1 DEF TaskHome
    <2>3. \A u \in Runners : \A b \in Elements(queue'[u]) :
            b \in Elements(queue[u]) \/ (u = host[r] /\ b = a)
      BY <2>1, SendsElements
    <2>4. \A u \in Runners : Elements(todo'[u]) \subseteq Elements(todo[u])
      BY <2>1, ExecutesDelta
    <2> QED BY <2>2, <2>3, <2>4, <1>0
  <1>3. CASE InlineStep(t)
    <2>1. PICK a \in Tasks, r \in Runners :
           /\ a \in TasksOf(r) /\ host[r] = t
           /\ \A u \in Runners : u # t => todo'[u] = todo[u]
           /\ Elements(todo[t]) = {Run(a, r)} \cup Elements(Tail(todo[t]))
           /\ Elements(todo'[t]) = Elements(Body(a)) \cup Elements(Tail(todo[t]))
           /\ UNCHANGED queue
      BY <1>3, InlineDelta
    <2>2. \A s \in Elements(Body(a)) : StatementHome(t, s)
      BY <2>1, BodyHome DEF StatementHome
    <2> QED BY <2>1, <2>2, <1>0
  <1>4. CASE SetStep(t) \/ PassStep(t) \/ TouchStep(t) \/ DoStep(t)
    <2>1. UNCHANGED queue /\ \E s : Executes(t, s) BY <1>4, PlainDelta
    <2> QED BY <2>1, <1>0, ExecutesDelta
  <1>5. CASE FrameStep(t)
    <2>1. StatementHome(t, Do("testWaiting")) BY <1>5, <1>0, FrameDelta
    <2>2. PICK r \in Runners : Do("testWaiting") \in StatementsOf(r) /\ host[r] = t
      BY <2>1 DEF StatementHome
    <2>3. r = "raster" BY <2>2, StatementParts DEF StatementsOf, Runners
    <2>4. {Do("clearWaiting"), Do("notify")} \subseteq StatementsOf(r)
      BY <2>3 DEF StatementsOf
    <2>5. StatementHome(t, Do("clearWaiting")) /\ StatementHome(t, Do("notify"))
      BY <2>2, <2>4 DEF StatementHome
    <2> QED BY <2>5, <1>5, <1>0, FrameDelta
  <1>6. CASE StartTask(t)
    <2>1. PICK r \in Runners : Head(queue[t]) \in TasksOf(r) /\ host[r] = t
      BY <1>6, <1>0, StartDelta DEF TaskHome
    <2>2. \A s \in Elements(Body(Head(queue[t]))) : StatementHome(t, s)
      BY <2>1, BodyHome DEF StatementHome
    <2> QED BY <2>2, <1>6, <1>0, StartDelta
  <1>7. CASE CallSends
    <2>1. PICK a \in Tasks, r \in Runners :
            Sends(r, a) /\ a \in TasksOf(r) /\ UNCHANGED todo
      BY <1>7, CallSendsDelta
    <2>2. TaskHome(host[r], a) BY <2>1 DEF TaskHome
    <2>3. \A u \in Runners : \A b \in Elements(queue'[u]) :
            b \in Elements(queue[u]) \/ (u = host[r] /\ b = a)
      BY <2>1, SendsElements
    <2> QED BY <2>1, <2>2, <2>3, <1>0
  <1>8. CASE CallRuns
    <2>1. PICK a \in Tasks, r \in Runners :
           /\ host[r] = "platform" /\ a \in TasksOf(r)
           /\ \A u \in Runners : u # "platform" => todo'[u] = todo[u]
           /\ todo'["platform"] = Body(a)
           /\ UNCHANGED queue
      BY <1>8, CallRunsDelta
    <2>2. \A s \in Elements(Body(a)) : StatementHome("platform", s)
      BY <2>1, BodyHome DEF StatementHome
    <2> QED BY <2>1, <2>2, <1>0
  <1>9. CASE CallWaits \/ CallTouches \/ CallSetsUp BY <1>9, <1>0, PlainCallDelta
  <1>10. CASE OnAnimatorDraw
    <2>1. {Use("rasterizer"), Post("draw", "raster")} \subseteq StatementsOf("ui")
      BY DEF StatementsOf
    <2>2. \A s \in {Use("rasterizer"), Post("draw", "raster")} :
            StatementHome(host["ui"], s)
      BY <2>1 DEF StatementHome, Runners
    <2> QED BY <2>2, <1>10, <1>0, DrawDelta
  <1> QED BY <1>2, <1>3, <1>4, <1>5, <1>6, <1>7, <1>8, <1>9, <1>10 DEF TaskStep, CallStep

LEMMA ShapesStep ==
  ASSUME Types, Homes, Shapes, NEW t \in Runners,
         TaskStep(t) \/ StartTask(t) \/ CallStep \/ OnAnimatorDraw
  PROVE  Shapes'
  <1> DEFINE s0 == Run("setUpSurface", "raster")
  <1>0. /\ \A u \in Runners : Shape(todo[u])
        /\ \A u \in Runners : s0 \in Elements(todo[u]) => PostsRasterTask
    BY DEF Shapes
  <1>1. SUFFICES ASSUME UNCHANGED host
                 PROVE  /\ \A u \in Runners : Shape(todo'[u])
                        /\ \A u \in Runners : s0 \in Elements(todo'[u]) => PostsRasterTask
    <2>1. UNCHANGED host
      BY SendStepDelta, InlineDelta, PlainDelta, FrameDelta, StartDelta, CallSendsDelta,
         CallRunsDelta, PlainCallDelta, DrawDelta DEF TaskStep, CallStep
    <2> QED BY <2>1 DEF Shapes, PostsRasterTask
  <1>2. \A a \in Tasks : s0 \in Elements(Body(a)) => PostsRasterTask
    BY BodyTable, TaskTable, StatementParts DEF Tasks, Runners
  <1> HIDE DEF s0
  <1>3. ASSUME NEW s, Executes(t, s)
        PROVE  /\ \A u \in Runners : Shape(todo'[u])
               /\ \A u \in Runners : s0 \in Elements(todo'[u]) => PostsRasterTask
    BY <1>3, <1>0, ExecutesDelta, ShapeTail
  <1>4. CASE SendStep(t) BY <1>4, <1>3, SendStepDelta
  <1>5. CASE InlineStep(t)
    <2>1. PICK a \in Tasks, r \in Runners :
           /\ a \in TasksOf(r)
           /\ \A u \in Runners : u # t => todo'[u] = todo[u]
           /\ Elements(todo[t]) = {Run(a, r)} \cup Elements(Tail(todo[t]))
           /\ Elements(todo'[t]) = Elements(Body(a)) \cup Elements(Tail(todo[t]))
           /\ Shape(todo'[t])
           /\ UNCHANGED queue
      BY <1>5, InlineDelta
    <2> QED BY <2>1, <1>0, <1>2
  <1>6. CASE SetStep(t) \/ PassStep(t) \/ TouchStep(t) \/ DoStep(t)
    BY <1>6, <1>3, PlainDelta
  <1>7. CASE FrameStep(t)
    <2>1. s0 \notin {Do("clearWaiting"), Do("notify")} BY StatementParts DEF s0
    <2> QED BY <2>1, <1>7, <1>0, FrameDelta
  <1>8. CASE StartTask(t) BY <1>8, <1>0, <1>2, StartDelta, ShapeBody
  <1>9. CASE CallSends BY <1>9, <1>0, CallSendsDelta
  <1>10. CASE CallRuns
    <2>1. PICK a \in Tasks :
           /\ \A u \in Runners : u # "platform" => todo'[u] = todo[u]
           /\ todo'["platform"] = Body(a)
      BY <1>10, CallRunsDelta
    <2> QED BY <2>1, <1>0, <1>2, ShapeBody
  <1>11. CASE CallWaits \/ CallTouches \/ CallSetsUp BY <1>11, <1>0, PlainCallDelta
  <1>12. CASE OnAnimatorDraw
    <2>1. s0 \notin {Use("rasterizer"), Post("draw", "raster")} BY StatementParts DEF s0
    <2> QED BY <2>1, <1>12, <1>0, DrawDelta
  <1> QED BY <1>4, <1>5, <1>6, <1>7, <1>8, <1>9, <1>10, <1>11, <1>12 DEF TaskStep, CallStep

-----------------------------------------------------------------------------
(* The variables keep their types.                                         *)

LEMMA ProgramLength ==
  ASSUME Types
  PROVE  Len(Program(call)) \in Nat
  <1>1. CASE PostsRasterTask BY <1>1, ProgramTable DEF Types, Calls
  <1>2. CASE ~PostsRasterTask BY <1>2, ProgramTable DEF Types, Calls
  <1> QED BY <1>1, <1>2

LEMMA ProgramSame ==
  ASSUME UNCHANGED <<host, call>>
  PROVE  Program(call)' = Program(call)
  BY DEF Program, Failures, CreateSurface, PostsRasterTask

\* What is in the flags, the latches and the objects.
Flags ==
  /\ signalled \subseteq Latches /\ alive \subseteq Objects
  /\ surface \in BOOLEAN /\ wantsFrame \in BOOLEAN
  /\ waiting \in BOOLEAN /\ missed \in BOOLEAN
  /\ waiter \in {"none", "check", "checked", "asleep", "ok", "timeout"}

LEMMA FlagsStep ==
  ASSUME Types, Shapes, NEW t \in Runners,
         TaskStep(t) \/ StartTask(t) \/ CallStep \/ OnAnimatorDraw
  PROVE  Flags'
  <1>0. Flags BY DEF Types, Flags
  <1>1. CASE UNCHANGED <<signalled, alive, surface, wantsFrame, waiting, missed, waiter>>
    BY <1>0, <1>1 DEF Flags
  <1>2. ASSUME NEW l \in Latches, Sets(l) PROVE Flags'
    BY <1>0, <1>2 DEF Flags, Sets, objectVars, frameVars, waitVars
  <1>3. ASSUME NEW l, Passes(l) PROVE Flags'
    BY <1>0, <1>3 DEF Flags, Passes, objectVars, frameVars, waitVars
  <1>4. ASSUME NEW s, Touches(s) PROVE Flags'
    <2>1. alive' \subseteq Objects BY <1>0, <1>4 DEF Flags, Touches
    <2>2. surface' \in BOOLEAN BY <1>0, <1>4 DEF Flags, Touches
    <2> QED BY <2>1, <2>2, <1>0, <1>4 DEF Flags, Touches, waitVars
  <1>5. ASSUME NEW e, Has(e) PROVE Flags'
    <2>1. surface' \in BOOLEAN /\ waiting' \in BOOLEAN /\ wantsFrame' \in BOOLEAN
            /\ missed' \in BOOLEAN
      BY <1>0, <1>5 DEF Flags, Has
    <2>2. waiter' \in {"none", "check", "checked", "asleep", "ok", "timeout"}
      BY <1>0, <1>5 DEF Flags, Has
    <2> QED BY <2>1, <2>2, <1>0, <1>5 DEF Flags, Has
  <1>6. CASE OnAnimatorDraw
    <2>1. wantsFrame' \in BOOLEAN /\ UNCHANGED <<signalled, objectVars, surface, waitVars>>
      BY <1>6 DEF OnAnimatorDraw
    <2> QED BY <2>1, <1>0 DEF Flags, objectVars, waitVars
  <1>7. CASE SendStep(t) \/ InlineStep(t) \/ FrameStep(t) \/ StartTask(t) \/ CallSends \/ CallRuns
    <2>1. UNCHANGED <<signalled, objectVars, frameVars, waitVars>>
      BY <1>7, SendStepDelta, InlineDelta, FrameDelta, StartDelta, CallSendsDelta, CallRunsDelta
    <2> QED BY <2>1, <1>1 DEF objectVars, frameVars, waitVars
  <1>8. CASE SetStep(t) \/ PassStep(t) \/ TouchStep(t) \/ DoStep(t)
    BY <1>8, <1>2, <1>3, <1>4, <1>5 DEF SetStep, PassStep, TouchStep, DoStep
  <1>9. CASE CallWaits \/ CallTouches \/ CallSetsUp
    BY <1>9, <1>3, <1>4, <1>5 DEF CallWaits, CallTouches, CallSetsUp
  <1> QED BY <1>6, <1>7, <1>8, <1>9 DEF TaskStep, CallStep

LEMMA TypesStep ==
  ASSUME Types, Shapes, NEW t \in Runners,
         TaskStep(t) \/ StartTask(t) \/ CallStep \/ OnAnimatorDraw
  PROVE  Types'
  <1>1. Flags' BY FlagsStep
  <1>2. /\ UNCHANGED <<host, call, changes>>
        /\ UNCHANGED place \/ (place \in 1..Len(Program(call)) /\ place' = place + 1)
    <2>1. CASE SendStep(t) BY <2>1, SendStepDelta DEF callVars
    <2>2. CASE InlineStep(t) BY <2>2, InlineDelta DEF callVars
    <2>3. CASE SetStep(t) \/ PassStep(t) \/ TouchStep(t) \/ DoStep(t)
      BY <2>3, PlainDelta DEF callVars
    <2>4. CASE FrameStep(t) BY <2>4, FrameDelta DEF callVars
    <2>5. CASE StartTask(t) BY <2>5, StartDelta DEF callVars
    <2>6. CASE CallSends BY <2>6, CallSendsDelta
    <2>7. CASE CallRuns BY <2>7, CallRunsDelta DEF Proceeds
    <2>8. CASE CallWaits \/ CallTouches \/ CallSetsUp BY <2>8, PlainCallDelta
    <2>9. CASE OnAnimatorDraw BY <2>9, DrawDelta DEF callVars
    <2> QED BY <2>1, <2>2, <2>3, <2>4, <2>5, <2>6, <2>7, <2>8, <2>9 DEF TaskStep, CallStep
  <1>3. place' \in 1..Len(Program(call)') + 1
    BY <1>2, ProgramLength, ProgramSame DEF Types
  <1>4. queue' \in [Runners -> Seq(Tasks)]
    <2>1. CASE SendStep(t) BY <2>1, SendStepDelta, SendsDelta
    <2>2. CASE CallSends BY <2>2, CallSendsDelta, SendsDelta
    <2>3. CASE StartTask(t) BY <2>3, StartDelta
    <2>4. CASE UNCHANGED queue BY <2>4 DEF Types
    <2> QED BY <2>1, <2>2, <2>3, <2>4, InlineDelta, PlainDelta, FrameDelta, CallRunsDelta,
               PlainCallDelta, DrawDelta DEF TaskStep, CallStep
  <1>5. todo' \in [Runners -> Seq(Statements)]
    <2>1. CASE SendStep(t) BY <2>1, SendStepDelta, ExecutesDelta
    <2>2. CASE InlineStep(t) BY <2>2, InlineDelta
    <2>3. CASE SetStep(t) \/ PassStep(t) \/ TouchStep(t) \/ DoStep(t)
      BY <2>3, PlainDelta, ExecutesDelta
    <2>4. CASE FrameStep(t) BY <2>4, FrameDelta
    <2>5. CASE StartTask(t) BY <2>5, StartDelta
    <2>6. CASE CallRuns BY <2>6, CallRunsDelta
    <2>7. CASE UNCHANGED todo BY <2>7 DEF Types
    <2>8. CASE OnAnimatorDraw BY <2>8, DrawDelta
    <2> QED BY <2>1, <2>2, <2>3, <2>4, <2>5, <2>6, <2>7, <2>8, CallSendsDelta, PlainCallDelta
               DEF TaskStep, CallStep
  <1>6. frames' \in 0..MaxFrames
    <2>1. CASE OnAnimatorDraw
      BY <2>1, ShellLifecycleAssumption DEF OnAnimatorDraw, Types
    <2>2. CASE UNCHANGED frames BY <2>2 DEF Types
    <2>3. CASE SetStep(t) \/ PassStep(t) \/ TouchStep(t) \/ DoStep(t)
      BY <2>2, <2>3 DEF SetStep, PassStep, TouchStep, DoStep, Sets, Passes, Touches, Has,
                        frameVars
    <2>4. CASE CallWaits \/ CallTouches \/ CallSetsUp
      BY <2>2, <2>4 DEF CallWaits, CallTouches, CallSetsUp, Passes, Touches, Has, frameVars
    <2>5. CASE SendStep(t) \/ InlineStep(t) \/ FrameStep(t) \/ StartTask(t) \/ CallSends \/ CallRuns
      <3>1. UNCHANGED frameVars
        BY <2>5, SendStepDelta, InlineDelta, FrameDelta, StartDelta, CallSendsDelta,
           CallRunsDelta
      <3> QED BY <3>1, <2>2 DEF frameVars
    <2> QED BY <2>1, <2>3, <2>4, <2>5 DEF TaskStep, CallStep
  <1> QED BY <1>1, <1>2, <1>3, <1>4, <1>5, <1>6 DEF Types, Flags
-----------------------------------------------------------------------------
(* What the invariant says of the tasks and statements to come.            *)

\* An awaited task, its end or its latch is seen in its window only.
LEMMA Windows ==
  ASSUME Tokens, NEW a \in Awaited
  PROVE  /\ Queued(a) => InWindow(a, call, place)
         /\ \A t \in Runners : EndOf(a) \in Elements(todo[t]) => InWindow(a, call, place)
         /\ \A t \in Runners : a \in Elements(queue[t]) => InWindow(a, call, place)
         /\ LatchOf(a) \in signalled => InWindow(a, call, place)
  BY DEF Tokens, Started, Queued, Pending

LEMMA WindowTable ==
  /\ InWindow("makeRasterizer", call, place) => call = "create" /\ place \in 5..9
  /\ InWindow("makeIOManager", call, place) => call = "create" /\ place \in 7..10
  /\ InWindow("makeEngine", call, place) => call = "create" /\ place = 8
  /\ InWindow("createSurfaceIO", call, place) => call = "createSurface" /\ place = 3
  /\ InWindow("tearDown", call, place) => call = "destroySurface" /\ place = 3
  /\ InWindow("drainIO", call, place) => call = "destroySurface" /\ place = 3
  /\ InWindow("screenshot", call, place) => call = "screenshot" /\ place = 2
  /\ InWindow("endIsolates", call, place) => call = "destroy" /\ place = 2
  /\ InWindow("dropEngine", call, place) => call = "destroy" /\ place = 4
  /\ InWindow("dropRasterizer", call, place) => call = "destroy" /\ place = 6
  /\ InWindow("dropIOManager", call, place) => call = "destroy" /\ place = 8
  /\ InWindow("dropView", call, place) => call = "destroy" /\ place = 10
  BY DEF InWindow

LEMMA TaskWindows ==
  ASSUME Tokens
  PROVE  /\ Queued("makeRasterizer") => call = "create" /\ place \in 5..9
         /\ Queued("makeIOManager") => call = "create" /\ place \in 7..10
         /\ Queued("makeEngine") => call = "create" /\ place = 8
         /\ Queued("createSurfaceIO") => call = "createSurface" /\ place = 3
         /\ Queued("tearDown") => call = "destroySurface" /\ place = 3
         /\ Queued("drainIO") => call = "destroySurface" /\ place = 3
         /\ Queued("endIsolates") => call = "destroy" /\ place = 2
         /\ Queued("dropEngine") => call = "destroy" /\ place = 4
         /\ Queued("dropRasterizer") => call = "destroy" /\ place = 6
         /\ Queued("dropIOManager") => call = "destroy" /\ place = 8
         /\ Queued("dropView") => call = "destroy" /\ place = 10
  BY Windows, WindowTable DEF Awaited

LEMMA LatchWindows ==
  ASSUME Tokens
  PROVE  /\ "rasterizerMade" \in signalled => call = "create" /\ place \in 5..9
         /\ "ioMade" \in signalled => call = "create" /\ place \in 7..10
         /\ "engineMade" \in signalled => call = "create" /\ place = 8
         /\ "engineDropped" \in signalled => call = "destroy" /\ place = 4
         /\ "rasterizerDropped" \in signalled => call = "destroy" /\ place = 6
         /\ "ioDropped" \in signalled => call = "destroy" /\ place = 8
         /\ "viewDropped" \in signalled => call = "destroy" /\ place = 10
  BY Windows, WindowTable, LatchTable DEF Awaited

\* The calls in which a thread has a statement to execute.
LEMMA StatementWindows ==
  ASSUME Tokens, Shapes, NEW t \in Runners
  PROVE  LET q == Elements(todo[t]) IN
         /\ Signal("rasterizerMade") \in q => call = "create" /\ place \in 5..9
         /\ Signal("ioMade") \in q => call = "create" /\ place \in 7..10
         /\ Signal("engineMade") \in q => call = "create" /\ place = 8
         /\ Signal("surfaceCreated") \in q => call = "createSurface" /\ place = 3
         /\ Signal("surfaceDestroyed") \in q => call = "destroySurface" /\ place = 3
         /\ Signal("isolatesEnded") \in q => call = "destroy" /\ place = 2
         /\ Signal("engineDropped") \in q => call = "destroy" /\ place = 4
         /\ Signal("rasterizerDropped") \in q => call = "destroy" /\ place = 6
         /\ Signal("ioDropped") \in q => call = "destroy" /\ place = 8
         /\ Signal("viewDropped") \in q => call = "destroy" /\ place = 10
         /\ Make("rasterizer") \in q => call = "create" /\ place \in 5..9
         /\ Make("io") \in q => call = "create" /\ place \in 7..10
         /\ Make("engine") \in q => call = "create" /\ place = 8
         /\ Run("scheduleFrame", "ui") \in q => call = "createSurface" /\ place = 3
         /\ Run("setUpSurface", "raster") \in q => call = "createSurface" /\ place = 3
         /\ Run("drainIO", "io") \in q => call = "destroySurface" /\ place = 3
         /\ Do("tearDown") \in q => call = "destroySurface" /\ place = 3
         /\ Use("io") \in q => call = "destroySurface" /\ place = 3
         /\ Use("engine") \in q => call = "destroy" /\ place = 2
         /\ Drop("engine") \in q => call = "destroy" /\ place = 4
         /\ Drop("rasterizer") \in q => call = "destroy" /\ place = 6
         /\ Drop("io") \in q => call = "destroy" /\ place = 8
         /\ Drop("view") \in q => call = "destroy" /\ place = 10
  <1> DEFINE q == Elements(todo[t])
  <1>1. /\ Signal("rasterizerMade") \in q => call = "create" /\ place \in 5..9
        /\ Signal("ioMade") \in q => call = "create" /\ place \in 7..10
        /\ Signal("engineMade") \in q => call = "create" /\ place = 8
        /\ Signal("surfaceCreated") \in q => call = "createSurface" /\ place = 3
        /\ Signal("surfaceDestroyed") \in q => call = "destroySurface" /\ place = 3
        /\ Signal("isolatesEnded") \in q => call = "destroy" /\ place = 2
        /\ Signal("engineDropped") \in q => call = "destroy" /\ place = 4
        /\ Signal("rasterizerDropped") \in q => call = "destroy" /\ place = 6
        /\ Signal("ioDropped") \in q => call = "destroy" /\ place = 8
        /\ Signal("viewDropped") \in q => call = "destroy" /\ place = 10
        /\ Run("drainIO", "io") \in q => call = "destroySurface" /\ place = 3
    BY Windows, WindowTable, EndTable DEF Awaited
  <1>2. /\ Make("rasterizer") \in q => Signal("rasterizerMade") \in q
        /\ Make("engine") \in q => Signal("engineMade") \in q
        /\ Run("scheduleFrame", "ui") \in q => Signal("surfaceCreated") \in q
        /\ Run("setUpSurface", "raster") \in q => Signal("surfaceCreated") \in q
    BY DEF Shapes, Shape, Followed
  <1>3. /\ Make("io") \in q => Signal("ioMade") \in q
        /\ Do("tearDown") \in q => Run("drainIO", "io") \in q
        /\ Use("io") \in q => Signal("surfaceDestroyed") \in q
        /\ Use("engine") \in q => Signal("isolatesEnded") \in q
        /\ Drop("engine") \in q => Signal("engineDropped") \in q
        /\ Drop("rasterizer") \in q => Signal("rasterizerDropped") \in q
        /\ Drop("io") \in q => Signal("ioDropped") \in q
        /\ Drop("view") \in q => Signal("viewDropped") \in q
    <2>1. Whole(todo[t]) BY DEF Shapes, Shape
    <2>2. Make("io") \in q => Signal("ioMade") \in q
      <3>1. Signal("ioMade") \in
              Elements(<<Make("io"), Signal("weakIo"), Signal("unrefQueue"), Signal("ioMade"),
                         Wait("context"), Use("view")>>) BY ShortElements
      <3> QED BY <3>1, <2>1 DEF Whole
    <2>3. /\ Do("tearDown") \in q => Run("drainIO", "io") \in q
          /\ Use("io") \in q => Signal("surfaceDestroyed") \in q
          /\ Use("engine") \in q => Signal("isolatesEnded") \in q
      BY <2>1, ShortElements DEF Whole
    <2>4. /\ Drop("engine") \in q => Signal("engineDropped") \in q
          /\ Drop("rasterizer") \in q => Signal("rasterizerDropped") \in q
          /\ Drop("io") \in q => Signal("ioDropped") \in q
          /\ Drop("view") \in q => Signal("viewDropped") \in q
      BY <2>1, ShortElements DEF Whole
    <2> QED BY <2>2, <2>3, <2>4
  <1> HIDE DEF q
  <1>4. /\ Make("rasterizer") \in q => call = "create" /\ place \in 5..9
        /\ Make("io") \in q => call = "create" /\ place \in 7..10
        /\ Make("engine") \in q => call = "create" /\ place = 8
        /\ Run("scheduleFrame", "ui") \in q => call = "createSurface" /\ place = 3
        /\ Run("setUpSurface", "raster") \in q => call = "createSurface" /\ place = 3
    BY <1>1, <1>2, <1>3
  <1>5. /\ Do("tearDown") \in q => call = "destroySurface" /\ place = 3
        /\ Use("io") \in q => call = "destroySurface" /\ place = 3
        /\ Use("engine") \in q => call = "destroy" /\ place = 2
        /\ Drop("engine") \in q => call = "destroy" /\ place = 4
        /\ Drop("rasterizer") \in q => call = "destroy" /\ place = 6
        /\ Drop("io") \in q => call = "destroy" /\ place = 8
        /\ Drop("view") \in q => call = "destroy" /\ place = 10
    BY <1>1, <1>3
  <1> QED BY <1>1, <1>4, <1>5 DEF q

\* A task belongs to one runner.
LEMMA TaskRunner ==
  ASSUME NEW r \in Runners, NEW u \in Runners, NEW a \in TasksOf(r), a \in TasksOf(u)
  PROVE  r = u
  BY TaskTable DEF Runners

\* So do the statements that only one runner's tasks have.
LEMMA StatementRunner ==
  ASSUME NEW r \in Runners, NEW s \in StatementsOf(r)
  PROVE  /\ s \in {Drop("engine"), Use("rasterizer"), Make("engine"), Signal("engineMade"),
                   Signal("engineDropped"), Do("scheduleFrame"), Post("draw", "raster")}
              => r = "ui"
         /\ s \in {Drop("rasterizer"), Make("rasterizer"), Do("setUp"), Do("tearDown"),
                   Do("testWaiting"), Do("clearWaiting"), Do("notify"), Signal("context"),
                   Signal("rasterizerMade"), Signal("rasterizerDropped"),
                   Signal("screenshotTaken"), Run("drainIO", "io")} => r = "raster"
         /\ s \in {Drop("io"), Make("io"), Use("io"), Signal("ioMade"), Signal("ioDropped"),
                   Signal("surfaceCreated"), Signal("surfaceDestroyed"),
                   Run("setUpSurface", "raster"), Run("scheduleFrame", "ui")} => r = "io"
         /\ s \in {Drop("view"), Use("engine"), Signal("isolatesEnded"),
                   Signal("viewDropped")} => r = "platform"
         /\ s # Drop("shell")
         /\ s = Use("shell") => r \in {"raster", "ui"}
  <1>1. CASE r = "platform" BY <1>1, StatementParts DEF StatementsOf
  <1>2. CASE r = "raster" BY <1>2, StatementParts DEF StatementsOf
  <1>3. CASE r = "ui" BY <1>3, StatementParts DEF StatementsOf
  <1>4. CASE r = "io" BY <1>4, StatementParts DEF StatementsOf
  <1> QED BY <1>1, <1>2, <1>3, <1>4 DEF Runners

LEMMA StatementThread ==
  ASSUME Homes, NEW t \in Runners, NEW s \in Elements(todo[t])
  PROVE  /\ s \in {Drop("engine"), Use("rasterizer"), Make("engine"), Signal("engineMade"),
                   Signal("engineDropped"), Do("scheduleFrame"), Post("draw", "raster")}
              => t = host["ui"]
         /\ s \in {Drop("rasterizer"), Make("rasterizer"), Do("setUp"), Do("tearDown"),
                   Do("testWaiting"), Do("clearWaiting"), Do("notify"), Signal("context"),
                   Signal("rasterizerMade"), Signal("rasterizerDropped"),
                   Signal("screenshotTaken"), Run("drainIO", "io")} => t = host["raster"]
         /\ s \in {Drop("io"), Make("io"), Use("io"), Signal("ioMade"), Signal("ioDropped"),
                   Signal("surfaceCreated"), Signal("surfaceDestroyed"),
                   Run("setUpSurface", "raster"), Run("scheduleFrame", "ui")} => t = host["io"]
         /\ s \in {Drop("view"), Use("engine"), Signal("isolatesEnded"),
                   Signal("viewDropped")} => t = host["platform"]
         /\ s # Drop("shell")
         /\ s = Use("shell") => t \in {host["raster"], host["ui"]}
  <1>1. PICK r \in Runners : s \in StatementsOf(r) /\ host[r] = t BY DEF Homes
  <1> QED BY <1>1, StatementRunner

LEMMA TaskThread ==
  ASSUME Homes, NEW r \in Runners, NEW a \in TasksOf(r), NEW t \in Runners,
         a \in Elements(queue[t])
  PROVE  t = host[r]
  <1>1. PICK u \in Runners : a \in TasksOf(u) /\ host[u] = t BY DEF Homes
  <1> QED BY <1>1, TaskRunner

LEMMA EndThread ==
  ASSUME Homes, NEW a \in Awaited, NEW t \in Runners, EndOf(a) \in Elements(todo[t]),
         NEW u \in Runners, EndOf(a) \in Elements(todo[u])
  PROVE  t = u
  <1>1. EndOf(a) \in {Signal("engineMade"), Signal("engineDropped")}
          => t = host["ui"] /\ u = host["ui"] BY StatementThread
  <1>2. EndOf(a) \in {Signal("rasterizerMade"), Signal("rasterizerDropped"),
                      Signal("screenshotTaken"), Run("drainIO", "io")}
          => t = host["raster"] /\ u = host["raster"] BY StatementThread
  <1>3. EndOf(a) \in {Signal("ioMade"), Signal("ioDropped"), Signal("surfaceCreated"),
                      Signal("surfaceDestroyed")}
          => t = host["io"] /\ u = host["io"] BY StatementThread
  <1>4. EndOf(a) \in {Signal("isolatesEnded"), Signal("viewDropped")}
          => t = host["platform"] /\ u = host["platform"] BY StatementThread
  <1> QED BY <1>1, <1>2, <1>3, <1>4, EndTable DEF Awaited
-----------------------------------------------------------------------------
(* Awaited tasks are sent once, in their windows, and set their latches.   *)

LEMMA WindowsOf ==
  ASSUME NEW name, NEW k
  PROVE  /\ InWindow("makeRasterizer", name, k) <=> name = "create" /\ k \in 5..9
         /\ InWindow("makeIOManager", name, k) <=> name = "create" /\ k \in 7..10
         /\ InWindow("makeEngine", name, k) <=> name = "create" /\ k = 8
         /\ InWindow("createSurfaceIO", name, k) <=> name = "createSurface" /\ k = 3
         /\ InWindow("tearDown", name, k) <=> name = "destroySurface" /\ k = 3
         /\ InWindow("drainIO", name, k) <=> name = "destroySurface" /\ k = 3
         /\ InWindow("screenshot", name, k) <=> name = "screenshot" /\ k = 2
         /\ InWindow("endIsolates", name, k) <=> name = "destroy" /\ k = 2
         /\ InWindow("dropEngine", name, k) <=> name = "destroy" /\ k = 4
         /\ InWindow("dropRasterizer", name, k) <=> name = "destroy" /\ k = 6
         /\ InWindow("dropIOManager", name, k) <=> name = "destroy" /\ k = 8
         /\ InWindow("dropView", name, k) <=> name = "destroy" /\ k = 10
  BY DEF InWindow

LEMMA RunWindows ==
  ASSUME NEW name, NEW k \in Int, NEW a, NEW r, RunAt(name, k, a, r)
  PROVE  /\ a \in Awaited => ~InWindow(a, name, k) /\ InWindow(a, name, k + 1)
         /\ a \notin {"drainIO", "scheduleFrame", "setUpSurface", "draw", "stopRouting"}
         /\ \A b \in Awaited : InWindow(b, name, k) => InWindow(b, name, k + 1)
         /\ a = "tearDown" => ~InWindow("drainIO", name, k)
  <1>1. /\ a \in Awaited => ~InWindow(a, name, k) /\ InWindow(a, name, k + 1)
        /\ a \notin {"drainIO", "scheduleFrame", "setUpSurface", "draw", "stopRouting"}
    BY WindowsOf DEF RunAt, Awaited
  <1>2. \/ name = "create" /\ k \in {2, 4, 5, 6, 7, 12}
        \/ name \in {"createSurface", "destroySurface"} /\ k = 2
        \/ name = "screenshot" /\ k = 1
        \/ name = "destroy" /\ k \in {1, 3, 5, 7, 9}
    BY DEF RunAt
  <1>3. \A b \in Awaited : InWindow(b, name, k) => InWindow(b, name, k + 1)
    BY <1>2, WindowsOf DEF Awaited
  <1>4. a = "tearDown" => ~InWindow("drainIO", name, k) BY WindowsOf DEF RunAt
  <1> QED BY <1>1, <1>3, <1>4

LEMMA WaitWindows ==
  ASSUME NEW name, NEW k \in Int, NEW l, WaitAt(name, k, l)
  PROVE  /\ \A b \in Awaited : InWindow(b, name, k) =>
              LatchOf(b) = l \/ InWindow(b, name, k + 1) \/ b = "tearDown"
         /\ InWindow("tearDown", name, k) => l = LatchOf("drainIO")
  BY LatchTable, WindowsOf DEF WaitAt, Awaited

LEMMA UseWindows ==
  ASSUME NEW name, NEW k \in Int,
         \/ \E s : UseAt(name, k, s)
         \/ name = "create" /\ k = 11
         \/ name = "createSurface" /\ k = 4
         \/ name \in {"none", "unborn"}
         \/ k = 1
  PROVE  \A b \in Awaited : ~InWindow(b, name, k)
  <1>1. \/ name = "create" /\ k \in {1, 3, 11}
        \/ name \in {"createSurface", "destroySurface"} /\ k \in {1, 4}
        \/ name = "destroy" /\ k = 11
        \/ name \in {"none", "unborn"}
        \/ k = 1
    BY DEF UseAt
  <1> TAKE b \in Awaited
  <1> QED BY <1>1, WindowsOf DEF Awaited

\* Nothing new: the windows that matter are not left.
LEMMA TokensKept ==
  ASSUME Tokens,
         \A a \in Awaited : /\ Queued(a)' => Queued(a)
                            /\ Pending(EndOf(a))' => Pending(EndOf(a))
                            /\ (LatchOf(a) \in signalled' => LatchOf(a) \in signalled),
         \A a \in Awaited : Started(a)' => InWindow(a, call', place'),
         \A a \in Awaited : \A t \in Runners : Once(queue'[t], a)
  PROVE  Tokens'
  <1>1. \A a \in Awaited : Started(a)' => Started(a) BY DEF Started
  <1>2. {"tearDown", "drainIO"} \subseteq Awaited BY DEF Awaited
  <1> QED BY <1>1, <1>2 DEF Tokens

\* Task b, or its end, or its latch, is new: it was not to be seen before.
LEMMA TokensNew ==
  ASSUME Tokens, NEW b \in Awaited,
         \A a \in Awaited : a # b =>
            /\ Queued(a)' => Queued(a)
            /\ Pending(EndOf(a))' => Pending(EndOf(a))
            /\ LatchOf(a) \in signalled' => LatchOf(a) \in signalled,
         Queued(b)' => ~Pending(EndOf(b))' /\ LatchOf(b) \notin signalled',
         Pending(EndOf(b))' => LatchOf(b) \notin signalled',
         \A a \in Awaited : Started(a)' => InWindow(a, call', place'),
         \A a \in Awaited : \A t \in Runners : Once(queue'[t], a),
         b = "tearDown" => ~Started("drainIO")',
         b = "drainIO" => ~Started("tearDown")'
  PROVE  Tokens'
  <1>1. \A a \in Awaited : a # b /\ Started(a)' => Started(a) BY DEF Started
  <1>2. {"tearDown", "drainIO"} \subseteq Awaited BY DEF Awaited
  <1>3. Started("tearDown")' => ~Started("drainIO")' BY <1>1, <1>2 DEF Tokens
  <1> QED BY <1>3 DEF Tokens

\* A statement of a task is executed: a task that ends does so once.
LEMMA EndExecuted ==
  ASSUME Types, Homes, Shapes, NEW t \in Runners, NEW s, Executes(t, s)
  PROVE  /\ \A a \in Awaited : Pending(EndOf(a))' => Pending(EndOf(a)) /\ EndOf(a) # s
         /\ \A a \in Awaited : EndOf(a) = s => Pending(EndOf(a)) /\ ~Pending(EndOf(a))'
  <1>1. \A a \in Awaited : Pending(EndOf(a))' => Pending(EndOf(a))
    BY ExecutesDelta DEF Pending
  <1>2. ASSUME NEW a \in Awaited, EndOf(a) = s PROVE Pending(EndOf(a)) /\ ~Pending(EndOf(a))'
    <2>1. EndOf(a) \in Elements(todo[t]) BY <1>2, ExecutesDelta
    <2>2. EndOf(a) \notin Elements(Tail(todo[t]))
      <3>1. todo[t] \in Seq(Statements) /\ todo[t] # <<>> /\ Head(todo[t]) = EndOf(a)
              /\ Shape(todo[t])
        BY <1>2, ExecutesDelta DEF Shapes
      <3>2. CASE EndOf(a) \in Lasts BY <3>1, <3>2, LastAlone, NilElements
      <3>3. CASE EndOf(a) = Signal("ioMade") BY <3>1, <3>3, OnceTail DEF Shape
      <3> QED BY <3>2, <3>3, EndTable DEF Awaited, Lasts
    <2>3. ASSUME NEW u \in Runners, EndOf(a) \in Elements(todo'[u]) PROVE FALSE
      <3>1. EndOf(a) \in Elements(todo[u]) BY <2>3, ExecutesDelta
      <3>2. u = t BY <2>1, <3>1, EndThread
      <3> QED BY <3>2, <2>2, <2>3, ExecutesDelta
    <2> QED BY <2>1, <2>3 DEF Pending
  <1> QED BY <1>1, <1>2

LEMMA OnceSent ==
  ASSUME Types, Tokens, NEW r \in Runners, NEW b \in Tasks, Sends(r, b),
         b \in Awaited => ~Queued(b)
  PROVE  /\ \A a \in Awaited : \A t \in Runners : Once(queue'[t], a)
         /\ \A a \in Awaited : Queued(a)' => Queued(a) \/ a = b
  <1>1. ASSUME NEW a \in Awaited, NEW t \in Runners PROVE Once(queue'[t], a)
    <2>1. Once(queue[t], a) BY DEF Tokens
    <2>2. CASE t # host[r] BY <2>1, <2>2, SendsDelta
    <2>3. CASE t = host[r]
      <3>1. b = a => a \notin Elements(queue[t]) BY DEF Queued
      <3>2. Once(Append(queue[t], b), a)
        BY <2>1, <2>3, <3>1, SendsDelta, OnceAppend
      <3> QED BY <3>2, <2>3, SendsDelta
    <2> QED BY <2>2, <2>3
  <1>2. \A a \in Awaited : Queued(a)' => Queued(a) \/ a = b
    BY SendsElements DEF Queued
  <1> QED BY <1>1, <1>2
LEMMA TokensSendStep ==
  ASSUME Types, Homes, Shapes, Tokens, NEW t \in Runners, SendStep(t)
  PROVE  Tokens'
  <1>1. PICK a \in Tasks, r \in Runners, s \in Statements :
          /\ Executes(t, s) /\ Sends(r, a)
          /\ \/ a = "drainIO" /\ r = "io" /\ s = Run(a, r)
             \/ a = "scheduleFrame" /\ r = "ui" /\ s = Run(a, r)
             \/ a = "setUpSurface" /\ r = "raster" /\ s = Run(a, r)
             \/ a = "draw" /\ r = "raster" /\ s = Post(a, r)
          /\ UNCHANGED <<callVars, signalled>>
    BY SendStepDelta
  <1>2. \A b \in Awaited : Pending(EndOf(b))' => Pending(EndOf(b)) /\ EndOf(b) # s
    BY <1>1, EndExecuted
  <1>3. CASE a = "drainIO"
    <2>1. s = EndOf("tearDown") /\ "tearDown" \in Awaited /\ "drainIO" \in Awaited
      BY <1>1, <1>3, EndTable DEF Awaited
    <2>2. Pending(EndOf("tearDown")) /\ ~Pending(EndOf("tearDown"))'
      BY <1>1, <2>1, EndExecuted
    <2>3. /\ Started("tearDown") /\ ~Started("drainIO") /\ ~Queued("tearDown")
          /\ LatchOf("tearDown") \notin signalled
          /\ InWindow("tearDown", call, place)
      BY <2>1, <2>2 DEF Tokens, Started
    <2>4. InWindow("drainIO", call, place) BY <2>3, WindowsOf
    <2>5. ~Queued("drainIO") /\ ~Pending(EndOf("drainIO")) /\ LatchOf("drainIO") \notin signalled
      BY <2>3 DEF Started
    <2>6. /\ \A b \in Awaited : \A u \in Runners : Once(queue'[u], b)
          /\ \A b \in Awaited : Queued(b)' => Queued(b) \/ b = "drainIO"
      BY <1>1, <1>3, <2>5, OnceSent
    <2>7. \A b \in Awaited : LatchOf(b) \in signalled' => LatchOf(b) \in signalled BY <1>1
    <2>8. ~Started("tearDown")' BY <2>1, <2>2, <2>3, <2>6, <2>7 DEF Started
    <2>9. \A b \in Awaited : Started(b)' => InWindow(b, call', place')
      <3>1. \A b \in Awaited : Started(b)' => Started(b) \/ b = "drainIO"
        BY <1>2, <2>6, <2>7 DEF Started
      <3> QED BY <3>1, <2>4, <1>1 DEF Tokens, callVars
    <2> QED BY <1>2, <2>1, <2>5, <2>6, <2>7, <2>8, <2>9, TokensNew
  <1>4. CASE a # "drainIO"
    <2>1. a \notin Awaited BY <1>1, <1>4 DEF Awaited
    <2>2. /\ \A b \in Awaited : \A u \in Runners : Once(queue'[u], b)
          /\ \A b \in Awaited : Queued(b)' => Queued(b)
      BY <1>1, <2>1, OnceSent
    <2>3. \A b \in Awaited : LatchOf(b) \in signalled' => LatchOf(b) \in signalled BY <1>1
    <2>4. \A b \in Awaited : Started(b)' => InWindow(b, call', place')
      BY <1>1, <1>2, <2>2, <2>3 DEF Tokens, Started, callVars
    <2> QED BY <1>2, <2>2, <2>3, <2>4, TokensKept
  <1> QED BY <1>3, <1>4

LEMMA TokensInlineStep ==
  ASSUME Types, Homes, Shapes, Tokens, NEW t \in Runners, InlineStep(t)
  PROVE  Tokens'
  <1>1. PICK a \in Tasks, r \in Runners :
           /\ \/ a = "drainIO" /\ r = "io" /\ Tail(todo[t]) = <<>>
              \/ a = "scheduleFrame" /\ r = "ui"
              \/ a = "setUpSurface" /\ r = "raster"
           /\ \A u \in Runners : u # t => todo'[u] = todo[u]
           /\ Run(a, r) \in Elements(todo[t])
           /\ Elements(todo[t]) = {Run(a, r)} \cup Elements(Tail(todo[t]))
           /\ Elements(todo'[t]) = Elements(Body(a)) \cup Elements(Tail(todo[t]))
           /\ UNCHANGED <<queue, signalled, callVars>>
    BY InlineDelta
  <1>2. \A b \in Awaited : \A u \in Runners : EndOf(b) \in Elements(todo'[u]) =>
          EndOf(b) \in Elements(todo[u]) \/ (b = a /\ a = "drainIO")
    <2>1. \A b \in Awaited : EndOf(b) \in Elements(Body(a)) => b = a BY EndInBody
    <2>2. a \in Awaited => a = "drainIO" BY <1>1 DEF Awaited
    <2> QED BY <1>1, <2>1, <2>2
  <1>3. \A b \in Awaited : /\ Pending(EndOf(b))' => Pending(EndOf(b)) \/ (b = a /\ a = "drainIO")
                           /\ Queued(b)' => Queued(b)
                           /\ LatchOf(b) \in signalled' => LatchOf(b) \in signalled
    BY <1>1, <1>2 DEF Pending, Queued
  <1>4. \A b \in Awaited : \A u \in Runners : Once(queue'[u], b) BY <1>1 DEF Tokens
  <1>5. CASE a = "drainIO"
    <2>1. Run(a, r) = EndOf("tearDown") /\ "tearDown" \in Awaited /\ "drainIO" \in Awaited
      BY <1>1, <1>5, EndTable DEF Awaited
    <2>2. Pending(EndOf("tearDown")) /\ ~Pending(EndOf("tearDown"))'
      <3>1. ASSUME NEW u \in Runners, EndOf("tearDown") \in Elements(todo'[u]) PROVE FALSE
        <4>1. EndOf("tearDown") \in Elements(todo[u]) BY <3>1, <1>2, <2>1, <1>5
        <4>2. u = t BY <1>1, <2>1, <4>1, EndThread
        <4>3. EndOf("tearDown") \in Elements(Body("drainIO"))
          BY <1>1, <1>5, <3>1, <4>2, NilElements
        <4> QED BY <4>3, <2>1, EndInBody, <1>5
      <3> QED BY <3>1, <1>1, <2>1 DEF Pending
    <2>3. /\ Started("tearDown") /\ ~Started("drainIO") /\ ~Queued("tearDown")
          /\ LatchOf("tearDown") \notin signalled
          /\ InWindow("tearDown", call, place)
      BY <2>1, <2>2 DEF Tokens, Started
    <2>4. InWindow("drainIO", call, place) BY <2>3, WindowsOf
    <2>5. ~Queued("drainIO") /\ LatchOf("drainIO") \notin signalled
      BY <2>3 DEF Started
    <2>6. ~Queued("drainIO")' /\ LatchOf("drainIO") \notin signalled'
      BY <1>3, <2>1, <2>5
    <2>8. ~Started("tearDown")' BY <1>3, <2>1, <2>2, <2>3 DEF Started
    <2>9. \A b \in Awaited : Started(b)' => InWindow(b, call', place')
      <3>1. \A b \in Awaited : Started(b)' => Started(b) \/ b = "drainIO"
        BY <1>3 DEF Started
      <3> QED BY <3>1, <2>4, <1>1 DEF Tokens, callVars
    <2> QED BY <1>3, <1>4, <1>5, <2>1, <2>6, <2>8, <2>9, TokensNew
  <1>6. CASE a # "drainIO"
    <2>1. \A b \in Awaited : Started(b)' => InWindow(b, call', place')
      BY <1>1, <1>3, <1>6 DEF Tokens, Started, callVars
    <2> QED BY <1>3, <1>4, <1>6, <2>1, TokensKept
  <1> QED BY <1>5, <1>6

LEMMA TokensPlainStep ==
  ASSUME Types, Homes, Shapes, Tokens, NEW t \in Runners,
         SetStep(t) \/ PassStep(t) \/ TouchStep(t) \/ DoStep(t)
  PROVE  Tokens'
  <1>1. UNCHANGED <<queue, callVars>> BY PlainDelta
  <1>2. \A b \in Awaited : \A u \in Runners : Once(queue'[u], b) BY <1>1 DEF Tokens
  <1>3. \A b \in Awaited : Queued(b)' => Queued(b) BY <1>1 DEF Queued
  <1>4. CASE PassStep(t) \/ TouchStep(t) \/ DoStep(t)
    <2>1. signalled' \subseteq signalled
      BY <1>4 DEF PassStep, TouchStep, DoStep, Passes, Touches, Has
    <2>2. PICK s : Executes(t, s) BY <1>4, PlainDelta
    <2>3. \A b \in Awaited : Pending(EndOf(b))' => Pending(EndOf(b)) BY <2>2, EndExecuted
    <2>4. \A b \in Awaited : Started(b)' => InWindow(b, call', place')
      BY <1>1, <1>3, <2>1, <2>3 DEF Tokens, Started, callVars
    <2> QED BY <1>2, <1>3, <2>1, <2>3, <2>4, TokensKept
  <1>5. CASE SetStep(t)
    <2>1. PICK l \in Latches : Executes(t, Signal(l)) /\ Sets(l) BY <1>5 DEF SetStep
    <2>2. \A b \in Awaited : Pending(EndOf(b))' => Pending(EndOf(b)) BY <2>1, EndExecuted
    <2>3. signalled' = signalled \cup {l} BY <2>1 DEF Sets
    <2>4. CASE \E a \in Awaited : EndOf(a) = Signal(l)
      <3>1. PICK a \in Awaited : EndOf(a) = Signal(l) BY <2>4
      <3>2. a # "tearDown" /\ LatchOf(a) = l /\ \A b \in Awaited : LatchOf(b) = l => a = b
        BY <3>1, EndTable, LatchTable, StatementParts DEF Awaited
      <3>3. Pending(EndOf(a)) /\ ~Pending(EndOf(a))' BY <2>1, <3>1, EndExecuted
      <3>4. Started(a) /\ ~Queued(a) BY <3>3 DEF Started, Tokens
      <3>5. ~Queued(a)' BY <1>3, <3>4
      <3>6. \A b \in Awaited : Started(b)' => Started(b)
        BY <1>3, <2>2, <2>3, <3>2, <3>4 DEF Started
      <3>7. \A b \in Awaited : Started(b)' => InWindow(b, call', place')
        BY <1>1, <3>6 DEF Tokens, callVars
      <3>8. a = "drainIO" => ~Started("tearDown")'
        BY <3>4, <3>6 DEF Tokens, Awaited
      <3> QED BY <1>2, <1>3, <2>2, <2>3, <3>2, <3>3, <3>5, <3>7, <3>8, TokensNew
    <2>5. CASE \A a \in Awaited : EndOf(a) # Signal(l)
      <3>1. \A b \in Awaited : LatchOf(b) # l
        BY <2>1, <2>5, EndTable, LatchTable DEF Awaited, Latches
      <3>2. \A b \in Awaited : LatchOf(b) \in signalled' => LatchOf(b) \in signalled
        BY <2>3, <3>1
      <3>3. \A b \in Awaited : Started(b)' => InWindow(b, call', place')
        BY <1>1, <1>3, <2>2, <3>2 DEF Tokens, Started, callVars
      <3> QED BY <1>2, <1>3, <2>2, <3>2, <3>3, TokensKept
    <2> QED BY <2>4, <2>5
  <1> QED BY <1>4, <1>5
LEMMA TokensStartTask ==
  ASSUME Types, Homes, Shapes, Tokens, NEW t \in Runners, StartTask(t)
  PROVE  Tokens'
  <1>0. PICK a \in Tasks : a = Head(queue[t]) BY StartDelta
  <1>1. /\ \A u \in Runners : u # t => queue'[u] = queue[u] /\ todo'[u] = todo[u]
        /\ queue[t] \in Seq(Tasks) /\ queue[t] # <<>> /\ queue'[t] = Tail(queue[t])
        /\ a = Head(queue[t]) /\ a \in Elements(queue[t])
        /\ \A u \in Runners : Elements(queue'[u]) \subseteq Elements(queue[u])
        /\ todo'[t] = Body(a)
        /\ UNCHANGED <<signalled, callVars>>
    BY <1>0, StartDelta
  <1>2. \A b \in Awaited : \A u \in Runners : Once(queue'[u], b)
    <2> TAKE b \in Awaited
    <2>1. Once(Tail(queue[t]), b) BY <1>1, OnceTail DEF Tokens
    <2> TAKE u \in Runners
    <2>2. Once(queue[u], b) BY DEF Tokens
    <2> QED BY <1>1, <2>1, <2>2
  <1>3. a \in Awaited => ~Queued(a)'
    <2> SUFFICES ASSUME a \in Awaited, NEW u \in Runners, a \in Elements(queue'[u])
                 PROVE  FALSE
      BY DEF Queued
    <2>1. PICK r \in Runners : a \in TasksOf(r) BY <1>1 DEF Tasks
    <2>2. u = host[r] /\ t = host[r]
      <3>1. a \in Elements(queue[u]) BY <1>1
      <3> QED BY <1>1, <2>1, <3>1, TaskThread
    <2>3. a \in Elements(Tail(queue[t])) BY <1>1, <2>2
    <2>4. Once(queue[t], a) BY DEF Tokens
    <2> QED BY <1>1, <2>3, <2>4, OnceTail
  <1>4. \A b \in Awaited : Queued(b)' => Queued(b) BY <1>1 DEF Queued
  <1>5. \A b \in Awaited : Pending(EndOf(b))' => Pending(EndOf(b)) \/ b = a
    <2>1. \A b \in Awaited : EndOf(b) \in Elements(Body(a)) => b = a BY <1>1, EndInBody
    <2> QED BY <1>1, <2>1 DEF Pending
  <1>6. Queued(a) BY <1>1 DEF Queued
  <1>7. \A b \in Awaited : LatchOf(b) \in signalled' => LatchOf(b) \in signalled BY <1>1
  <1>8. \A b \in Awaited : Started(b)' => Started(b)
    BY <1>4, <1>5, <1>6, <1>7 DEF Started
  <1>9. \A b \in Awaited : Started(b)' => InWindow(b, call', place')
    BY <1>1, <1>8 DEF Tokens, callVars
  <1>10. CASE a \in Awaited
    <2>1. LatchOf(a) \notin signalled' BY <1>1, <1>6, <1>10 DEF Tokens
    <2>2. /\ a = "tearDown" => ~Started("drainIO")'
          /\ a = "drainIO" => ~Started("tearDown")'
      BY <1>6, <1>8 DEF Started, Tokens, Awaited
    <2> QED BY <1>2, <1>3, <1>4, <1>5, <1>7, <1>9, <1>10, <2>1, <2>2, TokensNew
  <1>11. CASE a \notin Awaited BY <1>2, <1>4, <1>5, <1>7, <1>9, <1>11, TokensKept
  <1> QED BY <1>10, <1>11

\* A frame: nobody waits for it.
LEMMA TokensFrames ==
  ASSUME Types, Homes, Shapes, Tokens, NEW t \in Runners, FrameStep(t) \/ OnAnimatorDraw
  PROVE  Tokens'
  <1>1. UNCHANGED <<queue, signalled, callVars>> BY FrameDelta, DrawDelta
  <1>2. \A b \in Awaited : \A u \in Runners : Once(queue'[u], b) BY <1>1 DEF Tokens
  <1>3. \A b \in Awaited : Queued(b)' => Queued(b) BY <1>1 DEF Queued
  <1>4. \A b \in Awaited : EndOf(b) \notin {Do("clearWaiting"), Do("notify"),
                                            Use("rasterizer"), Post("draw", "raster")}
    BY EndTable, StatementParts DEF Awaited
  <1>5. \A b \in Awaited : Pending(EndOf(b))' => Pending(EndOf(b))
    <2>1. CASE FrameStep(t) BY <1>4, <2>1, FrameDelta DEF Pending
    <2>2. CASE OnAnimatorDraw BY <1>4, <2>2, DrawDelta DEF Pending
    <2> QED BY <2>1, <2>2
  <1>6. \A b \in Awaited : Started(b)' => InWindow(b, call', place')
    BY <1>1, <1>3, <1>5 DEF Tokens, Started, callVars
  <1> QED BY <1>1, <1>2, <1>3, <1>5, <1>6, TokensKept

LEMMA TokensCallSends ==
  ASSUME Types, Homes, Shapes, Tokens, CallSends
  PROVE  Tokens'
  <1>1. PICK a \in Tasks, r \in Runners :
           /\ Sends(r, a)
           /\ \/ RunAt(call, place, a, r)
              \/ a = "stopRouting" /\ call = "create" /\ place = 11
           /\ place' = place + 1
           /\ UNCHANGED <<todo, call, signalled>>
    BY CallSendsDelta
  <1>2. place \in Int BY ProgramLength DEF Types
  <1>3. a \in Awaited => ~Started(a) /\ InWindow(a, call', place') /\ a # "drainIO"
    BY <1>1, <1>2, RunWindows DEF Tokens, Awaited
  <1>4. /\ \A b \in Awaited : \A u \in Runners : Once(queue'[u], b)
        /\ \A b \in Awaited : Queued(b)' => Queued(b) \/ b = a
    BY <1>1, <1>3, OnceSent DEF Started
  <1>5. \A b \in Awaited : /\ Pending(EndOf(b))' => Pending(EndOf(b))
                           /\ LatchOf(b) \in signalled' => LatchOf(b) \in signalled
    BY <1>1 DEF Pending
  <1>6. \A b \in Awaited : InWindow(b, call, place) => InWindow(b, call', place')
    <2>1. CASE RunAt(call, place, a, r) BY <1>1, <1>2, <2>1, RunWindows
    <2>2. CASE call = "create" /\ place = 11 BY <1>2, <2>2, UseWindows
    <2> QED BY <1>1, <2>1, <2>2
  <1>7. \A b \in Awaited : Started(b)' => Started(b) \/ b = a
    BY <1>4, <1>5 DEF Started
  <1>8. \A b \in Awaited : Started(b)' => InWindow(b, call', place')
    BY <1>3, <1>6, <1>7 DEF Tokens
  <1>9. CASE a \in Awaited
    <2>1. a = "tearDown" => ~Started("drainIO")'
      <3>1. a = "tearDown" => ~InWindow("drainIO", call, place)
        BY <1>1, <1>2, RunWindows
      <3> QED BY <3>1, <1>7 DEF Tokens, Awaited
    <2>2. ~Pending(EndOf(a))' /\ LatchOf(a) \notin signalled'
      BY <1>3, <1>5, <1>9 DEF Started
    <2> QED BY <1>3, <1>4, <1>5, <1>8, <1>9, <2>1, <2>2, TokensNew
  <1>10. CASE a \notin Awaited BY <1>4, <1>5, <1>8, <1>10, TokensKept
  <1> QED BY <1>9, <1>10

LEMMA TokensCallRuns ==
  ASSUME Types, Homes, Shapes, Tokens, CallRuns
  PROVE  Tokens'
  <1>1. PICK a \in Tasks, r \in Runners :
           /\ RunAt(call, place, a, r)
           /\ place' = place + 1
           /\ \A u \in Runners : u # "platform" => todo'[u] = todo[u]
           /\ todo'["platform"] = Body(a)
           /\ UNCHANGED <<queue, call, signalled>>
    BY CallRunsDelta DEF Proceeds
  <1>2. place \in Int BY ProgramLength DEF Types
  <1>3. a \in Awaited => ~Started(a) /\ InWindow(a, call', place') /\ a # "drainIO"
    BY <1>1, <1>2, RunWindows DEF Tokens, Awaited
  <1>4. /\ \A b \in Awaited : \A u \in Runners : Once(queue'[u], b)
        /\ \A b \in Awaited : Queued(b)' => Queued(b)
    BY <1>1 DEF Tokens, Queued
  <1>5. \A b \in Awaited : /\ Pending(EndOf(b))' => Pending(EndOf(b)) \/ b = a
                           /\ LatchOf(b) \in signalled' => LatchOf(b) \in signalled
    <2>1. \A b \in Awaited : EndOf(b) \in Elements(Body(a)) => b = a BY <1>1, EndInBody
    <2> QED BY <1>1, <2>1 DEF Pending
  <1>6. \A b \in Awaited : InWindow(b, call, place) => InWindow(b, call', place')
    BY <1>1, <1>2, RunWindows
  <1>7. \A b \in Awaited : Started(b)' => Started(b) \/ b = a
    BY <1>4, <1>5 DEF Started
  <1>8. \A b \in Awaited : Started(b)' => InWindow(b, call', place')
    BY <1>3, <1>6, <1>7 DEF Tokens
  <1>9. CASE a \in Awaited
    <2>1. a = "tearDown" => ~Started("drainIO")'
      <3>1. a = "tearDown" => ~InWindow("drainIO", call, place)
        BY <1>1, <1>2, RunWindows
      <3> QED BY <3>1, <1>7 DEF Tokens, Awaited
    <2>2. ~Queued(a)' /\ LatchOf(a) \notin signalled'
      BY <1>3, <1>4, <1>5, <1>9 DEF Started
    <2> QED BY <1>3, <1>4, <1>5, <1>8, <1>9, <2>1, <2>2, TokensNew
  <1>10. CASE a \notin Awaited BY <1>4, <1>5, <1>8, <1>10, TokensKept
  <1> QED BY <1>9, <1>10

LEMMA TokensCallPlain ==
  ASSUME Types, Homes, Shapes, Tokens, CallWaits \/ CallTouches \/ CallSetsUp
  PROVE  Tokens'
  <1>1. UNCHANGED <<queue, todo, call>> /\ place' = place + 1 BY PlainCallDelta
  <1>2. place \in Int BY ProgramLength DEF Types
  <1>3. \A b \in Awaited : \A u \in Runners : Once(queue'[u], b) BY <1>1 DEF Tokens
  <1>4. \A b \in Awaited : Queued(b)' => Queued(b) BY <1>1 DEF Queued
  <1>5. \A b \in Awaited : Pending(EndOf(b))' => Pending(EndOf(b)) BY <1>1 DEF Pending
  <1>6. CASE CallWaits
    <2>1. PICK l : WaitAt(call, place, l) /\ l \in signalled /\ signalled' = signalled \ {l}
      BY <1>6 DEF CallWaits, Passes
    <2>2. \A b \in Awaited : Started(b)' => Started(b) BY <1>4, <1>5, <2>1 DEF Started
    <2>3. \A b \in Awaited : LatchOf(b) = l => ~Started(b)'
      BY <1>4, <1>5, <2>1 DEF Started, Tokens
    <2>4. ~Started("tearDown")'
      <3>1. CASE ~Started("tearDown") BY <3>1, <2>2 DEF Awaited
      <3>2. CASE Started("tearDown")
        <4>1. InWindow("tearDown", call, place) /\ ~Started("drainIO")
          BY <3>2 DEF Tokens, Awaited
        <4>2. l = LatchOf("drainIO") BY <1>2, <2>1, <4>1, WaitWindows
        <4> QED BY <2>1, <4>1, <4>2 DEF Started
      <3> QED BY <3>1, <3>2
    <2>5. \A b \in Awaited : Started(b)' => InWindow(b, call', place')
      BY <1>1, <1>2, <2>1, <2>2, <2>3, <2>4, WaitWindows DEF Tokens
    <2> QED BY <1>3, <1>4, <1>5, <2>1, <2>5, TokensKept
  <1>7. CASE CallTouches \/ CallSetsUp
    <2>1. UNCHANGED signalled BY <1>7 DEF CallTouches, CallSetsUp, Touches, Has
    <2>2. \A b \in Awaited : ~InWindow(b, call, place)
      BY <1>2, <1>7, UseWindows DEF CallTouches, CallSetsUp
    <2>3. \A b \in Awaited : ~Started(b)'
      BY <1>4, <1>5, <2>1, <2>2 DEF Tokens, Started
    <2> QED BY <1>3, <1>4, <1>5, <2>1, <2>3, TokensKept
  <1> QED BY <1>6, <1>7

LEMMA TokensStep ==
  ASSUME Types, Homes, Shapes, Tokens, NEW t \in Runners,
         TaskStep(t) \/ StartTask(t) \/ CallStep \/ OnAnimatorDraw
  PROVE  Tokens'
  BY TokensSendStep, TokensInlineStep, TokensPlainStep, TokensStartTask, TokensFrames,
     TokensCallSends, TokensCallRuns, TokensCallPlain DEF TaskStep, CallStep
-----------------------------------------------------------------------------
(* The objects that exist, and the latches that tell of them.              *)

\* No waiting of a call but for the latches of the objects makes a difference.
LEMMA AliveOn ==
  ASSUME NEW A, A \subseteq Objects, NEW name, NEW k \in Int, AliveAt(A, name, k),
         \/ \E a, r : RunAt(name, k, a, r)
         \/ name = "create" /\ k = 11
         \/ name = "createSurface"
         \/ name = "destroySurface"
         \/ name = "screenshot"
  PROVE  AliveAt(A, name, k + 1)
  <1>1. \/ name = "create" /\ k \in {2, 4, 5, 6, 7, 11, 12}
        \/ name \in {"createSurface", "destroySurface", "screenshot"}
        \/ name = "destroy" /\ k \in {1, 3, 5, 7, 9}
    BY DEF RunAt
  <1>2. CASE name = "create" BY <1>1, <1>2 DEF AliveAt
  <1>3. CASE name \in {"createSurface", "destroySurface", "screenshot"} BY <1>3 DEF AliveAt
  <1>4. CASE name = "destroy" BY <1>1, <1>4 DEF AliveAt
  <1> QED BY <1>1, <1>2, <1>3, <1>4

\* A step that leaves the objects alone, or makes or drops one in its time.
LEMMA AliveTouchStep ==
  ASSUME Types, Homes, Shapes, Tokens, AliveAt(alive, call, place), NEW t \in Runners,
         TouchStep(t)
  PROVE  /\ AliveAt(alive', call', place')
         /\ \/ UNCHANGED alive
            \/ \E x \in Objects : /\ Make(x) \in Elements(todo[t])
                                  /\ x \in {"rasterizer", "engine", "io"}
                                  /\ alive' = alive \cup {x} /\ call = "create"
                                  /\ Executes(t, Make(x))
            \/ \E x \in Objects : /\ Drop(x) \in Elements(todo[t])
                                  /\ x \in {"engine", "rasterizer", "io", "view"}
                                  /\ alive' = alive \ {x} /\ call = "destroy"
                                  /\ Executes(t, Drop(x))
  <1>1. PICK s : /\ s \in {Make(x) : x \in {"rasterizer", "engine", "io"}}
                          \cup {Use(x) : x \in Objects}
                          \cup {Drop(x) : x \in {"engine", "rasterizer", "io", "view"}}
                 /\ Executes(t, s) /\ Touches(s)
    BY DEF TouchStep
  <1>2. UNCHANGED <<call, place>> BY <1>1 DEF Executes, callVars
  <1>3. s \in Elements(todo[t]) BY <1>1, ExecutesDelta
  <1>4. place \in Int BY ProgramLength DEF Types
  <1>5. CASE \E x \in {"rasterizer", "engine", "io"} : s = Make(x)
    <2>1. PICK x \in {"rasterizer", "engine", "io"} : s = Make(x) BY <1>5
    <2>2. alive' = alive \cup {x} BY <1>1, <2>1, StatementParts DEF Touches
    <2>3. /\ x = "rasterizer" => call = "create" /\ place \in 5..9
          /\ x = "io" => call = "create" /\ place \in 7..10
          /\ x = "engine" => call = "create" /\ place = 8
      BY <1>3, <2>1, StatementWindows
    <2>4. AliveAt(alive', call, place) BY <1>4, <2>2, <2>3 DEF AliveAt
    <2> QED BY <1>1, <1>2, <1>3, <2>1, <2>2, <2>3, <2>4 DEF Objects
  <1>6. CASE \E x \in Objects : s = Use(x)
    <2>1. UNCHANGED alive BY <1>1, <1>6, StatementParts DEF Touches
    <2> QED BY <2>1, <1>2
  <1>7. CASE \E x \in {"engine", "rasterizer", "io", "view"} : s = Drop(x)
    <2>1. PICK x \in {"engine", "rasterizer", "io", "view"} : s = Drop(x) BY <1>7
    <2>2. alive' = alive \ {x} BY <1>1, <2>1, StatementParts DEF Touches
    <2>3. /\ x = "engine" => call = "destroy" /\ place = 4
          /\ x = "rasterizer" => call = "destroy" /\ place = 6
          /\ x = "io" => call = "destroy" /\ place = 8
          /\ x = "view" => call = "destroy" /\ place = 10
      BY <1>3, <2>1, StatementWindows
    <2>4. AliveAt(alive', call, place) BY <1>4, <2>2, <2>3 DEF AliveAt
    <2> QED BY <1>1, <1>2, <1>3, <2>1, <2>2, <2>3, <2>4 DEF Objects
  <1> QED BY <1>1, <1>5, <1>6, <1>7

\* What a call makes or drops itself.
LEMMA CallTouchesDelta ==
  ASSUME Types, CallTouches
  PROVE  \/ call = "create" /\ place = 1 /\ alive' = alive \cup {"shell"} /\ UNCHANGED misused
         \/ call = "create" /\ place = 3 /\ alive' = alive \cup {"view"} /\ UNCHANGED misused
         \/ /\ call \in {"createSurface", "destroySurface"} /\ UNCHANGED alive
            /\ misused' = misused \cup ({"rasterizer"} \ alive)
         \/ /\ call = "destroy" /\ place = 11 /\ alive' = alive \ {"shell"}
            /\ misused' = misused \cup ({"shell"} \ alive)
  <1>1. PICK s : UseAt(call, place, s) /\ Touches(s) BY DEF CallTouches
  <1>2. CASE call = "create" /\ place = 1 /\ s = Make("shell")
    BY <1>1, <1>2, StatementParts DEF Touches
  <1>3. CASE call = "create" /\ place = 3 /\ s = Make("view")
    BY <1>1, <1>3, StatementParts DEF Touches
  <1>4. CASE call \in {"createSurface", "destroySurface"} /\ s = Use("rasterizer")
    BY <1>1, <1>4, StatementParts DEF Touches
  <1>5. CASE call = "destroy" /\ place = 11 /\ s = Drop("shell")
    BY <1>1, <1>5, StatementParts DEF Touches
  <1> QED BY <1>1, <1>2, <1>3, <1>4, <1>5 DEF UseAt

LEMMA AliveStep ==
  ASSUME Types, Homes, Shapes, Tokens, AliveAt(alive, call, place), Effects,
         NEW t \in Runners, TaskStep(t) \/ StartTask(t) \/ CallStep \/ OnAnimatorDraw
  PROVE  AliveAt(alive', call', place')
  <1>0. alive \subseteq Objects BY DEF Types
  <1>1. place \in Int BY ProgramLength DEF Types
  <1>2. CASE TouchStep(t) BY <1>2, AliveTouchStep
  <1>3. CASE UNCHANGED <<alive, call, place>> BY <1>3
  <1>4. CASE SendStep(t) \/ InlineStep(t) \/ FrameStep(t) \/ StartTask(t) \/ OnAnimatorDraw
    <2>1. UNCHANGED <<objectVars, callVars>>
      BY <1>4, SendStepDelta, InlineDelta, FrameDelta, StartDelta, DrawDelta
    <2> QED BY <2>1, <1>3 DEF objectVars, callVars
  <1>5. CASE SetStep(t) \/ PassStep(t) \/ DoStep(t)
    <2>1. UNCHANGED callVars BY <1>5, PlainDelta
    <2>2. UNCHANGED alive
      BY <1>5 DEF SetStep, PassStep, DoStep, Sets, Passes, Has, objectVars
    <2> QED BY <2>1, <2>2, <1>3 DEF callVars
  <1>6. CASE CallSends \/ CallRuns
    <2>1. UNCHANGED <<objectVars, call>> /\ place' = place + 1
      BY <1>6, CallSendsDelta, CallRunsDelta DEF Proceeds
    <2>2. (\E a, r : RunAt(call, place, a, r)) \/ (call = "create" /\ place = 11)
      BY <1>6, CallSendsDelta, CallRunsDelta
    <2> QED BY <2>1, <2>2, <1>0, <1>1, AliveOn DEF objectVars
  <1>7. CASE CallWaits
    <2>1. PICK l : WaitAt(call, place, l) /\ Passes(l) BY <1>7 DEF CallWaits
    <2>2. UNCHANGED <<alive, call>> /\ place' = place + 1 /\ l \in signalled
      BY <1>7, <2>1, PlainCallDelta DEF Passes, objectVars
    <2>3. /\ "rasterizerMade" \in signalled => "rasterizer" \in alive
          /\ "engineMade" \in signalled => "engine" \in alive
          /\ "ioMade" \in signalled => "io" \in alive
          /\ "engineDropped" \in signalled => "engine" \notin alive
          /\ "rasterizerDropped" \in signalled => "rasterizer" \notin alive
          /\ "ioDropped" \in signalled => "io" \notin alive
          /\ "viewDropped" \in signalled => "view" \notin alive
      BY DEF Effects, MadeBy, DroppedBy
    <2>4. CASE call = "create"
      <3>1. AliveAt(alive, call, place + 1)
        BY <1>1, <2>1, <2>2, <2>3, <2>4 DEF WaitAt, AliveAt
      <3> QED BY <3>1, <2>2
    <2>5. CASE call \in {"createSurface", "destroySurface", "screenshot"}
      BY <1>0, <1>1, <2>2, <2>5, AliveOn
    <2>6. CASE call = "destroy"
      <3>1. AliveAt(alive, call, place + 1)
        BY <1>1, <2>1, <2>2, <2>3, <2>6 DEF WaitAt, AliveAt
      <3> QED BY <3>1, <2>2
    <2> QED BY <2>1, <2>4, <2>5, <2>6 DEF WaitAt
  <1>8. CASE CallTouches
    <2>1. UNCHANGED call /\ place' = place + 1 BY <1>8, PlainCallDelta
    <2>2. CASE call = "create" /\ place = 1 /\ alive' = alive \cup {"shell"}
      BY <2>1, <2>2 DEF AliveAt
    <2>3. CASE call = "create" /\ place = 3 /\ alive' = alive \cup {"view"}
      BY <2>1, <2>3 DEF AliveAt
    <2>4. CASE call \in {"createSurface", "destroySurface"} /\ UNCHANGED alive
      BY <1>0, <1>1, <2>1, <2>4, AliveOn
    <2>5. CASE call = "destroy" /\ place = 11 /\ alive' = alive \ {"shell"}
      BY <2>1, <2>5 DEF AliveAt
    <2> QED BY <1>8, <2>2, <2>3, <2>4, <2>5, CallTouchesDelta
  <1>9. CASE CallSetsUp
    <2>1. UNCHANGED <<call, alive>> /\ place' = place + 1 /\ call = "createSurface"
      BY <1>9, PlainCallDelta DEF CallSetsUp, Has
    <2> QED BY <1>0, <1>1, <2>1, AliveOn
  <1> QED BY <1>2, <1>4, <1>5, <1>6, <1>7, <1>8, <1>9 DEF TaskStep, CallStep

LEMMA BodyMakes ==
  ASSUME NEW a \in Tasks
  PROVE  LET q == Elements(Body(a)) IN
         /\ Signal("rasterizerMade") \in q => Make("rasterizer") \in q
         /\ Signal("engineMade") \in q => Make("engine") \in q
         /\ Signal("ioMade") \in q => Make("io") \in q
         /\ Signal("engineDropped") \in q => Drop("engine") \in q
         /\ Signal("rasterizerDropped") \in q => Drop("rasterizer") \in q
         /\ Signal("ioDropped") \in q => Drop("io") \in q
         /\ Signal("viewDropped") \in q => Drop("view") \in q
  <1>1. CASE a \in TasksOf("platform") BY <1>1, BodyTable, TaskTable, StatementParts
  <1>2. CASE a \in TasksOf("raster") BY <1>2, BodyTable, TaskTable, StatementParts
  <1>3. CASE a \in TasksOf("ui") BY <1>3, BodyTable, TaskTable, StatementParts
  <1>4. CASE a \in TasksOf("io") BY <1>4, BodyTable, TaskTable, StatementParts
  <1> QED BY <1>1, <1>2, <1>3, <1>4 DEF Tasks, Runners
LEMMA MadeByStep ==
  ASSUME Types, Homes, Shapes, Tokens, AliveAt(alive, call, place), NEW t \in Runners,
         TaskStep(t) \/ StartTask(t) \/ CallStep \/ OnAnimatorDraw,
         NEW o \in Objects, NEW l \in Latches, MadeBy(o, l),
         \A a \in Tasks : Signal(l) \in Elements(Body(a)) => Make(o) \in Elements(Body(a)),
         \A q \in Seq(Statements) : q # <<>> /\ Shape(q) /\ Head(q) = Signal(l)
                                      => Make(o) \notin Elements(q),
         l \in signalled => call = "create",
         \A u \in Runners : Signal(l) \in Elements(todo[u]) => call = "create"
  PROVE  MadeBy(o, l)'
  <1> DEFINE There == o \in alive
  <1> DEFINE There1 == o \in alive'
  <1>0. /\ l \in signalled => There
        /\ \A u \in Runners : Signal(l) \in Elements(todo[u]) =>
             Make(o) \in Elements(todo[u]) \/ There
    BY DEF MadeBy
  <1>1. SUFFICES
          /\ l \in signalled' => There1
          /\ \A u \in Runners : Signal(l) \in Elements(todo'[u]) =>
               Make(o) \in Elements(todo'[u]) \/ There1
    BY DEF MadeBy
  <1>2. CASE TouchStep(t)
    <2>1. PICK s : Executes(t, s) /\ Touches(s) BY <1>2 DEF TouchStep
    <2>2. UNCHANGED signalled BY <2>1 DEF Touches
    <2>3. \A u \in Runners : Signal(l) \in Elements(todo'[u]) =>
            /\ Signal(l) \in Elements(todo[u])
            /\ Make(o) \in Elements(todo'[u]) \/ There \/ (s = Make(o) /\ call = "create")
      <3>1. \A u \in Runners : Signal(l) \in Elements(todo'[u]) => Signal(l) \in Elements(todo[u])
        BY <2>1, ExecutesDelta
      <3>2. \A u \in Runners : Make(o) \in Elements(todo[u]) =>
              Make(o) \in Elements(todo'[u]) \/ s = Make(o)
        BY <2>1, ExecutesDelta
      <3> QED BY <3>1, <3>2, <1>0
    <2>4. s = Make(o) => There1 BY <2>1, StatementParts DEF Touches
    <2>5. CASE There1 BY <2>5
    <2>6. CASE ~There1 /\ There
      <3>1. call = "destroy" BY <1>2, <2>6, AliveTouchStep, StatementParts
      <3> QED BY <3>1, <2>2, <2>3
    <2>7. CASE ~There1 /\ ~There BY <2>2, <2>3, <2>4, <2>7, <1>0
    <2> QED BY <2>5, <2>6, <2>7
  <1>3. CASE SetStep(t) \/ PassStep(t) \/ DoStep(t)
    <2>1. PICK s : Executes(t, s) /\ UNCHANGED alive
                     /\ \/ \E m \in Latches : s = Signal(m) /\ signalled' = signalled \cup {m}
                        \/ \E m : s = Wait(m) /\ signalled' \subseteq signalled
                        \/ \E m : s = Do(m) /\ signalled' \subseteq signalled
      BY <1>3 DEF SetStep, PassStep, DoStep, Sets, Passes, Has, objectVars
    <2>2. s # Make(o) BY <2>1, StatementParts
    <2>3. There1 <=> There BY <2>1
    <2>4. l \in signalled' => l \in signalled \/ s = Signal(l) BY <2>1
    <2>5. s = Signal(l) => There
      <3>1. s = Signal(l) => Make(o) \notin Elements(todo[t]) /\ Signal(l) \in Elements(todo[t])
        BY <2>1, ExecutesDelta DEF Shapes
      <3> QED BY <3>1, <1>0
    <2>6. \A u \in Runners : Signal(l) \in Elements(todo'[u]) =>
            Make(o) \in Elements(todo'[u]) \/ There
      BY <2>1, <2>2, <1>0, ExecutesDelta
    <2> QED BY <2>3, <2>4, <2>5, <2>6, <1>0
  <1>4. CASE SendStep(t)
    <2>1. PICK s \in Statements : /\ Executes(t, s) /\ UNCHANGED <<objectVars, signalled>>
                                  /\ \E a, r : s = Run(a, r) \/ s = Post(a, r)
      BY <1>4, SendStepDelta
    <2>2. s # Make(o) BY <2>1, StatementParts
    <2>3. There1 <=> There BY <2>1 DEF objectVars
    <2>4. \A u \in Runners : Signal(l) \in Elements(todo'[u]) =>
            Make(o) \in Elements(todo'[u]) \/ There
      BY <2>1, <2>2, <1>0, ExecutesDelta
    <2> QED BY <2>1, <2>3, <2>4, <1>0
  <1>5. CASE InlineStep(t)
    <2>1. PICK a \in Tasks, r \in Runners :
           /\ a \in TasksOf(r)
           /\ \A u \in Runners : u # t => todo'[u] = todo[u]
           /\ Elements(todo[t]) = {Run(a, r)} \cup Elements(Tail(todo[t]))
           /\ Elements(todo'[t]) = Elements(Body(a)) \cup Elements(Tail(todo[t]))
           /\ UNCHANGED <<signalled, objectVars>>
      BY <1>5, InlineDelta
    <2>2. Run(a, r) # Make(o) BY StatementParts
    <2>3. There1 <=> There BY <2>1 DEF objectVars
    <2> QED BY <2>1, <2>2, <2>3, <1>0
  <1>6. CASE FrameStep(t) \/ OnAnimatorDraw
    <2>1. UNCHANGED <<signalled, objectVars>> BY <1>6, FrameDelta, DrawDelta
    <2>2. Signal(l) \notin {Do("clearWaiting"), Do("notify"), Use("rasterizer"),
                            Post("draw", "raster")}
      BY StatementParts
    <2>3. There1 <=> There BY <2>1 DEF objectVars
    <2>4. CASE FrameStep(t) BY <2>1, <2>2, <2>3, <2>4, <1>0, FrameDelta
    <2>5. CASE OnAnimatorDraw BY <2>1, <2>2, <2>3, <2>5, <1>0, DrawDelta
    <2> QED BY <1>6, <2>4, <2>5
  <1>7. CASE StartTask(t)
    <2>1. UNCHANGED <<signalled, objectVars>> BY <1>7, StartDelta
    <2>2. There1 <=> There BY <2>1 DEF objectVars
    <2> QED BY <2>1, <2>2, <1>7, <1>0, StartDelta
  <1>8. CASE CallSends
    <2>1. UNCHANGED <<signalled, todo, objectVars>> BY <1>8, CallSendsDelta
    <2>2. There1 <=> There BY <2>1 DEF objectVars
    <2> QED BY <2>1, <2>2, <1>0
  <1>9. CASE CallRuns
    <2>1. PICK a \in Tasks :
           /\ \A u \in Runners : u # "platform" => todo'[u] = todo[u]
           /\ todo'["platform"] = Body(a)
           /\ UNCHANGED <<signalled, objectVars>>
      BY <1>9, CallRunsDelta
    <2>2. There1 <=> There BY <2>1 DEF objectVars
    <2> QED BY <2>1, <2>2, <1>0
  <1>10. CASE CallWaits \/ CallSetsUp
    <2>1. UNCHANGED <<todo, alive>> /\ signalled' \subseteq signalled
      BY <1>10 DEF CallWaits, CallSetsUp, Passes, Has, objectVars
    <2> QED BY <2>1, <1>0
  <1>11. CASE CallTouches
    <2>1. UNCHANGED <<todo, signalled>> BY <1>11 DEF CallTouches, Touches
    <2>2. (There => There1) \/ call = "destroy"
      BY <1>11, CallTouchesDelta
    <2> QED BY <2>1, <2>2, <1>0
  <1> QED BY <1>2, <1>3, <1>4, <1>5, <1>6, <1>7, <1>8, <1>9, <1>10, <1>11 DEF TaskStep, CallStep

LEMMA DroppedByStep ==
  ASSUME Types, Homes, Shapes, Tokens, AliveAt(alive, call, place), NEW t \in Runners,
         TaskStep(t) \/ StartTask(t) \/ CallStep \/ OnAnimatorDraw,
         NEW o \in Objects, NEW l \in Latches, DroppedBy(o, l),
         \A a \in Tasks : Signal(l) \in Elements(Body(a)) => Drop(o) \in Elements(Body(a)),
         \A q \in Seq(Statements) : q # <<>> /\ Shape(q) /\ Head(q) = Signal(l)
                                      => Drop(o) \notin Elements(q),
         l \in signalled => call = "destroy",
         \A u \in Runners : Signal(l) \in Elements(todo[u]) => call = "destroy"
  PROVE  DroppedBy(o, l)'
  <1> DEFINE There == o \notin alive
  <1> DEFINE There1 == o \notin alive'
  <1>0. /\ l \in signalled => There
        /\ \A u \in Runners : Signal(l) \in Elements(todo[u]) =>
             Drop(o) \in Elements(todo[u]) \/ There
    BY DEF DroppedBy
  <1>1. SUFFICES
          /\ l \in signalled' => There1
          /\ \A u \in Runners : Signal(l) \in Elements(todo'[u]) =>
               Drop(o) \in Elements(todo'[u]) \/ There1
    BY DEF DroppedBy
  <1>2. CASE TouchStep(t)
    <2>1. PICK s : Executes(t, s) /\ Touches(s) BY <1>2 DEF TouchStep
    <2>2. UNCHANGED signalled BY <2>1 DEF Touches
    <2>3. \A u \in Runners : Signal(l) \in Elements(todo'[u]) =>
            /\ Signal(l) \in Elements(todo[u])
            /\ Drop(o) \in Elements(todo'[u]) \/ There \/ (s = Drop(o) /\ call = "destroy")
      <3>1. \A u \in Runners : Signal(l) \in Elements(todo'[u]) => Signal(l) \in Elements(todo[u])
        BY <2>1, ExecutesDelta
      <3>2. \A u \in Runners : Drop(o) \in Elements(todo[u]) =>
              Drop(o) \in Elements(todo'[u]) \/ s = Drop(o)
        BY <2>1, ExecutesDelta
      <3> QED BY <3>1, <3>2, <1>0
    <2>4. s = Drop(o) => There1 BY <2>1, StatementParts DEF Touches
    <2>5. CASE There1 BY <2>5
    <2>6. CASE ~There1 /\ There
      <3>1. call = "create" BY <1>2, <2>6, AliveTouchStep, StatementParts
      <3> QED BY <3>1, <2>2, <2>3
    <2>7. CASE ~There1 /\ ~There BY <2>2, <2>3, <2>4, <2>7, <1>0
    <2> QED BY <2>5, <2>6, <2>7
  <1>3. CASE SetStep(t) \/ PassStep(t) \/ DoStep(t)
    <2>1. PICK s : Executes(t, s) /\ UNCHANGED alive
                     /\ \/ \E m \in Latches : s = Signal(m) /\ signalled' = signalled \cup {m}
                        \/ \E m : s = Wait(m) /\ signalled' \subseteq signalled
                        \/ \E m : s = Do(m) /\ signalled' \subseteq signalled
      BY <1>3 DEF SetStep, PassStep, DoStep, Sets, Passes, Has, objectVars
    <2>2. s # Drop(o) BY <2>1, StatementParts
    <2>3. There1 <=> There BY <2>1
    <2>4. l \in signalled' => l \in signalled \/ s = Signal(l) BY <2>1
    <2>5. s = Signal(l) => There
      <3>1. s = Signal(l) => Drop(o) \notin Elements(todo[t]) /\ Signal(l) \in Elements(todo[t])
        BY <2>1, ExecutesDelta DEF Shapes
      <3> QED BY <3>1, <1>0
    <2>6. \A u \in Runners : Signal(l) \in Elements(todo'[u]) =>
            Drop(o) \in Elements(todo'[u]) \/ There
      BY <2>1, <2>2, <1>0, ExecutesDelta
    <2> QED BY <2>3, <2>4, <2>5, <2>6, <1>0
  <1>4. CASE SendStep(t)
    <2>1. PICK s \in Statements : /\ Executes(t, s) /\ UNCHANGED <<objectVars, signalled>>
                                  /\ \E a, r : s = Run(a, r) \/ s = Post(a, r)
      BY <1>4, SendStepDelta
    <2>2. s # Drop(o) BY <2>1, StatementParts
    <2>3. There1 <=> There BY <2>1 DEF objectVars
    <2>4. \A u \in Runners : Signal(l) \in Elements(todo'[u]) =>
            Drop(o) \in Elements(todo'[u]) \/ There
      BY <2>1, <2>2, <1>0, ExecutesDelta
    <2> QED BY <2>1, <2>3, <2>4, <1>0
  <1>5. CASE InlineStep(t)
    <2>1. PICK a \in Tasks, r \in Runners :
           /\ a \in TasksOf(r)
           /\ \A u \in Runners : u # t => todo'[u] = todo[u]
           /\ Elements(todo[t]) = {Run(a, r)} \cup Elements(Tail(todo[t]))
           /\ Elements(todo'[t]) = Elements(Body(a)) \cup Elements(Tail(todo[t]))
           /\ UNCHANGED <<signalled, objectVars>>
      BY <1>5, InlineDelta
    <2>2. Run(a, r) # Drop(o) BY StatementParts
    <2>3. There1 <=> There BY <2>1 DEF objectVars
    <2> QED BY <2>1, <2>2, <2>3, <1>0
  <1>6. CASE FrameStep(t) \/ OnAnimatorDraw
    <2>1. UNCHANGED <<signalled, objectVars>> BY <1>6, FrameDelta, DrawDelta
    <2>2. Signal(l) \notin {Do("clearWaiting"), Do("notify"), Use("rasterizer"),
                            Post("draw", "raster")}
      BY StatementParts
    <2>3. There1 <=> There BY <2>1 DEF objectVars
    <2>4. CASE FrameStep(t) BY <2>1, <2>2, <2>3, <2>4, <1>0, FrameDelta
    <2>5. CASE OnAnimatorDraw BY <2>1, <2>2, <2>3, <2>5, <1>0, DrawDelta
    <2> QED BY <1>6, <2>4, <2>5
  <1>7. CASE StartTask(t)
    <2>1. UNCHANGED <<signalled, objectVars>> BY <1>7, StartDelta
    <2>2. There1 <=> There BY <2>1 DEF objectVars
    <2> QED BY <2>1, <2>2, <1>7, <1>0, StartDelta
  <1>8. CASE CallSends
    <2>1. UNCHANGED <<signalled, todo, objectVars>> BY <1>8, CallSendsDelta
    <2>2. There1 <=> There BY <2>1 DEF objectVars
    <2> QED BY <2>1, <2>2, <1>0
  <1>9. CASE CallRuns
    <2>1. PICK a \in Tasks :
           /\ \A u \in Runners : u # "platform" => todo'[u] = todo[u]
           /\ todo'["platform"] = Body(a)
           /\ UNCHANGED <<signalled, objectVars>>
      BY <1>9, CallRunsDelta
    <2>2. There1 <=> There BY <2>1 DEF objectVars
    <2> QED BY <2>1, <2>2, <1>0
  <1>10. CASE CallWaits \/ CallSetsUp
    <2>1. UNCHANGED <<todo, alive>> /\ signalled' \subseteq signalled
      BY <1>10 DEF CallWaits, CallSetsUp, Passes, Has, objectVars
    <2> QED BY <2>1, <1>0
  <1>11. CASE CallTouches
    <2>1. UNCHANGED <<todo, signalled>> BY <1>11 DEF CallTouches, Touches
    <2>2. (There => There1) \/ call = "create"
      BY <1>11, CallTouchesDelta
    <2> QED BY <2>1, <2>2, <1>0
  <1> QED BY <1>2, <1>3, <1>4, <1>5, <1>6, <1>7, <1>8, <1>9, <1>10, <1>11 DEF TaskStep, CallStep

\* A latch is set behind the object, so that its signal is not before it.
LEMMA SignalLast ==
  ASSUME NEW q \in Seq(Statements), q # <<>>, Shape(q)
  PROVE  /\ Head(q) = Signal("rasterizerMade") => Make("rasterizer") \notin Elements(q)
         /\ Head(q) = Signal("engineMade") => Make("engine") \notin Elements(q)
         /\ Head(q) = Signal("ioMade") => Make("io") \notin Elements(q)
         /\ Head(q) = Signal("engineDropped") => Drop("engine") \notin Elements(q)
         /\ Head(q) = Signal("rasterizerDropped") => Drop("rasterizer") \notin Elements(q)
         /\ Head(q) = Signal("ioDropped") => Drop("io") \notin Elements(q)
         /\ Head(q) = Signal("viewDropped") => Drop("view") \notin Elements(q)
  <1>1. Head(q) \in Lasts => Elements(q) = {Head(q)} BY LastAlone
  <1>2. Head(q) = Signal("ioMade") => Make("io") \notin Elements(q)
    <2>1. Elements(q) = {Head(q)} \cup Elements(Tail(q)) BY TailElements
    <2>2. Make("io") \notin Elements(Tail(q)) BY WholeTail DEF Shape
    <2> QED BY <2>1, <2>2, StatementParts
  <1> QED BY <1>1, <1>2, StatementParts DEF Lasts

LEMMA EffectsStep ==
  ASSUME Types, Homes, Shapes, Tokens, AliveAt(alive, call, place), Effects,
         NEW t \in Runners, TaskStep(t) \/ StartTask(t) \/ CallStep \/ OnAnimatorDraw
  PROVE  Effects'
  <1>1. {"rasterizer", "engine", "io", "view"} \subseteq Objects BY DEF Objects
  <1>2. {"rasterizerMade", "engineMade", "ioMade", "engineDropped", "rasterizerDropped",
         "ioDropped", "viewDropped"} \subseteq Latches BY DEF Latches
  <1>3. MadeBy("rasterizer", "rasterizerMade")'
    BY <1>1, <1>2, MadeByStep, BodyMakes, SignalLast, LatchWindows, StatementWindows DEF Effects
  <1>4. MadeBy("engine", "engineMade")'
    BY <1>1, <1>2, MadeByStep, BodyMakes, SignalLast, LatchWindows, StatementWindows DEF Effects
  <1>5. MadeBy("io", "ioMade")'
    BY <1>1, <1>2, MadeByStep, BodyMakes, SignalLast, LatchWindows, StatementWindows DEF Effects
  <1>6. DroppedBy("engine", "engineDropped")'
    BY <1>1, <1>2, DroppedByStep, BodyMakes, SignalLast, LatchWindows, StatementWindows
       DEF Effects
  <1>7. DroppedBy("rasterizer", "rasterizerDropped")'
    BY <1>1, <1>2, DroppedByStep, BodyMakes, SignalLast, LatchWindows, StatementWindows
       DEF Effects
  <1>8. DroppedBy("io", "ioDropped")'
    BY <1>1, <1>2, DroppedByStep, BodyMakes, SignalLast, LatchWindows, StatementWindows
       DEF Effects
  <1>9. DroppedBy("view", "viewDropped")'
    BY <1>1, <1>2, DroppedByStep, BodyMakes, SignalLast, LatchWindows, StatementWindows
       DEF Effects
  <1> QED BY <1>3, <1>4, <1>5, <1>6, <1>7, <1>8, <1>9 DEF Effects
-----------------------------------------------------------------------------
(* What the tasks and statements to come use is there.                     *)

LEMMA NeedsTable ==
  /\ Needs("makeWeakFactory") = {"shell"} /\ Needs("makeRasterizer") = {"shell"}
  /\ Needs("makeEngine") = {"shell"} /\ Needs("setUpSurface") = {"shell"}
  /\ Needs("setUpContext") = {"view"} /\ Needs("makeIOManager") = {"view"}
  /\ Needs("createSurfaceIO") = {"view"} /\ Needs("dropView") = {"view"}
  /\ Needs("drainIO") = {"io"}
  /\ Needs("endIsolates") = {"engine"} /\ Needs("dropEngine") = {"engine"}
  /\ Needs("dropRasterizer") = {"rasterizer", "shell"}
  /\ Needs("dropIOManager") = {"io", "view"}
  /\ Needs("stopRouting") = {} /\ Needs("setUpFonts") = {} /\ Needs("tearDown") = {}
  /\ Needs("screenshot") = {} /\ Needs("draw") = {} /\ Needs("scheduleFrame") = {}
  BY DEF Needs

LEMMA BodyNeeds ==
  ASSUME NEW a \in Tasks, NEW s \in Elements(Body(a)), NEW x \in Objects, NeedOf(s, x)
  PROVE  x \in Needs(a) \/ (a = "createSurfaceIO" /\ x = "shell") \/ (a = "tearDown" /\ x = "io")
  <1>1. CASE a \in TasksOf("platform")
    BY <1>1, BodyTable, TaskTable, NeedsTable, StatementParts DEF NeedOf
  <1>2. CASE a \in TasksOf("raster")
    BY <1>2, BodyTable, TaskTable, NeedsTable, StatementParts DEF NeedOf
  <1>3. CASE a \in TasksOf("ui")
    BY <1>3, BodyTable, TaskTable, NeedsTable, StatementParts DEF NeedOf
  <1>4. CASE a \in TasksOf("io")
    BY <1>4, BodyTable, TaskTable, NeedsTable, StatementParts DEF NeedOf
  <1> QED BY <1>1, <1>2, <1>3, <1>4 DEF Tasks, Runners

\* A call sends a task when all that the task needs is there.
LEMMA RunNeeds ==
  ASSUME Types, AliveAt(alive, call, place), NEW a, NEW r, RunAt(call, place, a, r)
  PROVE  Needs(a) \subseteq alive /\ (a \in {"createSurfaceIO", "tearDown"} => alive = Objects)
  <1>1. CASE call = "create"
    <2>1. /\ a \in {"makeWeakFactory", "makeRasterizer", "makeEngine"} => "shell" \in alive
          /\ a \in {"setUpContext", "makeIOManager"} => "view" \in alive
      BY <1>1 DEF RunAt, AliveAt
    <2>2. a \in {"makeWeakFactory", "makeRasterizer", "makeEngine", "setUpContext",
                 "makeIOManager", "setUpFonts"}
      BY <1>1 DEF RunAt
    <2> QED BY <2>1, <2>2, NeedsTable
  <1>2. CASE call \in {"createSurface", "destroySurface", "screenshot"}
    <2>1. alive = Objects BY <1>2 DEF AliveAt
    <2>2. a \in {"createSurfaceIO", "tearDown", "screenshot"} BY <1>2 DEF RunAt
    <2> QED BY <2>1, <2>2, NeedsTable DEF Objects
  <1>3. CASE call = "destroy"
    <2>1. /\ a \in {"endIsolates", "dropEngine"} => "engine" \in alive
          /\ a = "dropRasterizer" => "rasterizer" \in alive /\ "shell" \in alive
          /\ a = "dropIOManager" => "io" \in alive /\ "view" \in alive
          /\ a = "dropView" => "view" \in alive
      BY <1>3 DEF RunAt, AliveAt
    <2>2. a \in {"endIsolates", "dropEngine", "dropRasterizer", "dropIOManager", "dropView"}
      BY <1>3 DEF RunAt
    <2> QED BY <2>1, <2>2, NeedsTable
  <1> QED BY <1>1, <1>2, <1>3 DEF RunAt

\* The rasterizer does not survive the shell, nor the engine the rasterizer.
LEMMA AliveOrder ==
  ASSUME Types, AliveAt(alive, call, place)
  PROVE  /\ "rasterizer" \in alive => "shell" \in alive
         /\ "engine" \in alive /\ call \notin {"unborn", "create"} => "rasterizer" \in alive
  <1>1. call \in {"create", "createSurface", "destroySurface", "screenshot", "destroy",
                  "unborn", "none"} /\ place \in Int
    BY ProgramLength DEF Types, Calls
  <1>2. CASE call = "create" BY <1>1, <1>2 DEF AliveAt
  <1>3. CASE call = "destroy" BY <1>1, <1>3 DEF AliveAt
  <1>4. CASE call \in {"createSurface", "destroySurface", "screenshot", "unborn", "none"}
    BY <1>4 DEF AliveAt, Objects
  <1> QED BY <1>1, <1>2, <1>3, <1>4

\* A task that is sent finds what it needs.
LEMMA TasksClaim ==
  ASSUME Types, Homes, Shapes, AliveAt(alive, call, place), Claims, NEW t \in Runners,
         TaskStep(t) \/ StartTask(t) \/ CallStep \/ OnAnimatorDraw
  PROVE  \A u \in Runners : \A a \in Elements(queue'[u]) : Needs(a) \subseteq alive
  <1>0. \A u \in Runners : \A a \in Elements(queue[u]) : Needs(a) \subseteq alive
    BY DEF Claims
  <1>1. CASE SendStep(t)
    <2>1. PICK a \in Tasks, r \in Runners, s \in Statements :
            /\ Executes(t, s) /\ Sends(r, a)
            /\ \/ a = "drainIO" /\ r = "io" /\ s = Run(a, r)
               \/ a = "scheduleFrame" /\ r = "ui" /\ s = Run(a, r)
               \/ a = "setUpSurface" /\ r = "raster" /\ s = Run(a, r)
               \/ a = "draw" /\ r = "raster" /\ s = Post(a, r)
      BY <1>1, SendStepDelta
    <2>2. s \in Elements(todo[t]) BY <2>1, ExecutesDelta
    <2>3. /\ s = Run("drainIO", "io") => "io" \in alive
          /\ s = Run("setUpSurface", "raster") => "shell" \in alive
      BY <2>2 DEF Claims, NeedOf, Objects
    <2>4. Needs(a) \subseteq alive BY <2>1, <2>3, NeedsTable
    <2> QED BY <2>1, <2>4, <1>0, SendsElements
  <1>2. CASE CallSends
    <2>1. PICK a \in Tasks, r \in Runners :
            Sends(r, a) /\ (RunAt(call, place, a, r) \/ a = "stopRouting")
      BY <1>2, CallSendsDelta
    <2>2. Needs(a) \subseteq alive BY <2>1, RunNeeds, NeedsTable
    <2> QED BY <2>1, <2>2, <1>0, SendsElements
  <1>3. CASE StartTask(t) BY <1>3, <1>0, StartDelta
  <1>4. CASE UNCHANGED queue BY <1>4, <1>0
  <1> QED BY <1>1, <1>2, <1>3, <1>4, InlineDelta, PlainDelta, FrameDelta, CallRunsDelta,
             PlainCallDelta, DrawDelta DEF TaskStep, CallStep

\* So do the statements of a task that begins.
LEMMA StatementsClaim ==
  ASSUME Types, Homes, Shapes, Tokens, AliveAt(alive, call, place), Claims, Frames,
         NEW t \in Runners, TaskStep(t) \/ StartTask(t) \/ CallStep \/ OnAnimatorDraw
  PROVE  \A u \in Runners : \A s \in Elements(todo'[u]) :
           \A x \in Objects : NeedOf(s, x) => x \in alive
  <1>0. \A u \in Runners : \A s \in Elements(todo[u]) :
          \A x \in Objects : NeedOf(s, x) => x \in alive
    BY DEF Claims
  <1>1. CASE \A u \in Runners : Elements(todo'[u]) \subseteq Elements(todo[u])
    BY <1>0, <1>1
  <1>2. CASE SendStep(t) \/ SetStep(t) \/ PassStep(t) \/ TouchStep(t) \/ DoStep(t)
    <2>1. PICK s : Executes(t, s) BY <1>2, SendStepDelta, PlainDelta
    <2> QED BY <2>1, <1>1, ExecutesDelta
  <1>3. CASE InlineStep(t)
    <2>1. PICK a \in Tasks, r \in Runners :
           /\ \/ a = "drainIO" /\ r = "io" /\ Tail(todo[t]) = <<>>
              \/ a = "scheduleFrame" /\ r = "ui"
              \/ a = "setUpSurface" /\ r = "raster"
           /\ a \in TasksOf(r)
           /\ \A u \in Runners : u # t => todo'[u] = todo[u]
           /\ Run(a, r) \in Elements(todo[t])
           /\ Elements(todo[t]) = {Run(a, r)} \cup Elements(Tail(todo[t]))
           /\ Elements(todo'[t]) = Elements(Body(a)) \cup Elements(Tail(todo[t]))
      BY <1>3, InlineDelta
    <2>2. /\ a = "drainIO" => "io" \in alive
          /\ a = "setUpSurface" => "shell" \in alive
      BY <2>1, <1>0 DEF NeedOf, Objects
    <2>3. Needs(a) \subseteq alive BY <2>1, <2>2, NeedsTable
    <2>4. \A s \in Elements(Body(a)) : \A x \in Objects : NeedOf(s, x) => x \in alive
      BY <2>1, <2>3, BodyNeeds
    <2> QED BY <2>1, <2>4, <1>0
  <1>4. CASE FrameStep(t)
    <2>1. "rasterizer" \in alive /\ "shell" \in alive BY <1>4, FrameDelta, AliveOrder
    <2>2. \A s \in {Do("clearWaiting"), Do("notify")} : \A x \in Objects :
            NeedOf(s, x) => x \in alive
      BY <2>1, StatementParts DEF NeedOf
    <2> QED BY <2>2, <1>0, <1>4, FrameDelta
  <1>5. CASE StartTask(t)
    <2>1. PICK a \in Tasks :
           /\ a \in Elements(queue[t]) /\ todo'[t] = Body(a)
           /\ \A u \in Runners : u # t => todo'[u] = todo[u]
      BY <1>5, StartDelta
    <2>2. Needs(a) \subseteq alive BY <2>1 DEF Claims
    <2>3. a \in {"createSurfaceIO", "tearDown"} => alive = Objects
      BY <2>1, TaskWindows DEF Queued, AliveAt
    <2>4. \A s \in Elements(Body(a)) : \A x \in Objects : NeedOf(s, x) => x \in alive
      BY <2>2, <2>3, BodyNeeds
    <2> QED BY <2>1, <2>4, <1>0
  <1>6. CASE CallRuns
    <2>1. PICK a \in Tasks, r \in Runners :
           /\ RunAt(call, place, a, r) /\ todo'["platform"] = Body(a)
           /\ \A u \in Runners : u # "platform" => todo'[u] = todo[u]
      BY <1>6, CallRunsDelta
    <2>2. Needs(a) \subseteq alive /\ (a \in {"createSurfaceIO", "tearDown"} => alive = Objects)
      BY <2>1, RunNeeds
    <2>3. \A s \in Elements(Body(a)) : \A x \in Objects : NeedOf(s, x) => x \in alive
      BY <2>2, BodyNeeds
    <2> QED BY <2>1, <2>3, <1>0
  <1>7. CASE OnAnimatorDraw
    <2>1. wantsFrame /\ "engine" \in alive BY <1>7, DrawDelta
    <2>2. "rasterizer" \in alive BY <2>1, AliveOrder DEF Frames
    <2>3. \A s \in {Use("rasterizer"), Post("draw", "raster")} : \A x \in Objects :
            NeedOf(s, x) => x \in alive
      BY <2>1, <2>2, StatementParts DEF NeedOf
    <2> QED BY <2>3, <1>0, <1>7, DrawDelta
  <1>8. CASE UNCHANGED todo BY <1>8, <1>0
  <1> QED BY <1>2, <1>3, <1>4, <1>5, <1>6, <1>7, <1>8, CallSendsDelta, PlainCallDelta
             DEF TaskStep, CallStep
\* Who needs an object.
LEMMA Needed ==
  ASSUME NEW a \in Tasks
  PROVE  /\ "engine" \in Needs(a) => a \in {"endIsolates", "dropEngine"}
         /\ "rasterizer" \in Needs(a) => a = "dropRasterizer"
         /\ "io" \in Needs(a) => a \in {"drainIO", "dropIOManager"}
         /\ "view" \in Needs(a) => a \in {"setUpContext", "makeIOManager", "createSurfaceIO",
                                          "dropView", "dropIOManager"}
         /\ "shell" \in Needs(a) => a \in {"makeWeakFactory", "makeRasterizer", "makeEngine",
                                           "setUpSurface", "dropRasterizer"}
  <1>1. CASE a \in TasksOf("platform") BY <1>1, NeedsTable, TaskTable
  <1>2. CASE a \in TasksOf("raster") BY <1>2, NeedsTable, TaskTable
  <1>3. CASE a \in TasksOf("ui") BY <1>3, NeedsTable, TaskTable
  <1>4. CASE a \in TasksOf("io") BY <1>4, NeedsTable, TaskTable
  <1> QED BY <1>1, <1>2, <1>3, <1>4 DEF Tasks, Runners

LEMMA NeededBy ==
  ASSUME NEW s \in Statements
  PROVE  /\ NeedOf(s, "engine") => s \in {Use("engine"), Drop("engine"), Use("rasterizer")}
         /\ NeedOf(s, "rasterizer") => s \in {Use("rasterizer"), Drop("rasterizer"),
                                              Do("clearWaiting"), Do("notify")}
         /\ NeedOf(s, "io") => s \in {Use("io"), Drop("io"), Run("drainIO", "io")}
         /\ NeedOf(s, "view") => s \in {Use("view"), Drop("view")}
         /\ NeedOf(s, "shell") => s \in {Use("shell"), Drop("shell"), Do("setUp"),
                                         Run("setUpSurface", "raster"), Do("clearWaiting"),
                                         Do("notify")}
  BY DEF NeedOf

LEMMA DropSignals ==
  ASSUME Shapes, NEW t \in Runners
  PROVE  LET q == Elements(todo[t]) IN
         /\ Drop("engine") \in q => Signal("engineDropped") \in q
         /\ Drop("rasterizer") \in q => Signal("rasterizerDropped") \in q
         /\ Drop("io") \in q => Signal("ioDropped") \in q
         /\ Drop("view") \in q => Signal("viewDropped") \in q
  <1>1. Whole(todo[t]) BY DEF Shapes, Shape
  <1> QED BY <1>1, ShortElements DEF Whole

\* Behind the drop of an object is the signal, and a use of another object.
LEMMA DropTail ==
  ASSUME Types, Shapes, NEW t \in Runners, NEW x \in {"engine", "rasterizer", "io", "view"},
         Executes(t, Drop(x))
  PROVE  /\ x = "engine" => Elements(todo'[t]) = {Signal("engineDropped")}
         /\ x = "rasterizer" =>
              /\ Elements(todo'[t]) = {Use("shell"), Signal("rasterizerDropped")}
              /\ todo'[t] = <<Use("shell"), Signal("rasterizerDropped")>>
         /\ x = "io" => Elements(todo'[t]) = {Use("view"), Signal("ioDropped")}
         /\ x = "view" => Elements(todo'[t]) = {Signal("viewDropped")}
         /\ Drop(x) \in Elements(todo[t])
         /\ \A u \in Runners : u # t => todo'[u] = todo[u]
  <1>1. /\ Drop(x) \in Elements(todo[t]) /\ todo'[t] = Tail(todo[t])
        /\ \A u \in Runners : u # t => todo'[u] = todo[u]
    BY ExecutesDelta
  <1>2. Whole(todo[t]) BY DEF Shapes, Shape
  <1>3. CASE x = "engine"
    <2>1. todo[t] = <<Drop("engine"), Signal("engineDropped")>> BY <1>1, <1>2, <1>3 DEF Whole
    <2>2. todo'[t] = <<Signal("engineDropped")>> BY <1>1, <2>1
    <2> QED BY <1>1, <1>3, <2>2, ShortElements
  <1>4. CASE x = "rasterizer"
    <2>1. todo[t] = <<Drop("rasterizer"), Use("shell"), Signal("rasterizerDropped")>>
      BY <1>1, <1>2, <1>4 DEF Whole
    <2>2. todo'[t] = <<Use("shell"), Signal("rasterizerDropped")>> BY <1>1, <2>1
    <2> QED BY <1>1, <1>4, <2>2, ShortElements
  <1>5. CASE x = "io"
    <2>1. todo[t] = <<Drop("io"), Use("view"), Signal("ioDropped")>>
      BY <1>1, <1>2, <1>5 DEF Whole
    <2>2. todo'[t] = <<Use("view"), Signal("ioDropped")>> BY <1>1, <2>1
    <2> QED BY <1>1, <1>5, <2>2, ShortElements
  <1>6. CASE x = "view"
    <2>1. todo[t] = <<Drop("view"), Signal("viewDropped")>> BY <1>1, <1>2, <1>6 DEF Whole
    <2>2. todo'[t] = <<Signal("viewDropped")>> BY <1>1, <2>1
    <2> QED BY <1>1, <1>6, <2>2, ShortElements
  <1> QED BY <1>3, <1>4, <1>5, <1>6

\* Nobody needs what a task drops.
LEMMA DropNotNeeded ==
  ASSUME Types, Homes, Shapes, Tokens, AliveAt(alive, call, place), Claims, ViewUse, Barriers,
         NEW t \in Runners, NEW x \in {"engine", "rasterizer", "io", "view"},
         Executes(t, Drop(x))
  PROVE  /\ \A u \in Runners : \A a \in Elements(queue[u]) : x \notin Needs(a)
         /\ \A u \in Runners : \A s \in Elements(todo'[u]) : ~NeedOf(s, x)
  <1>0. place \in Int BY ProgramLength DEF Types
  <1>1. /\ Drop(x) \in Elements(todo[t])
        /\ \A u \in Runners : Elements(todo'[u]) \subseteq Elements(todo[u])
        /\ \A u \in Runners : u # t => todo'[u] = todo[u]
    BY ExecutesDelta
  <1>2. \A u \in Runners : \A a \in Elements(queue[u]) : a \in Tasks
    BY DEF Homes, Tasks
  <1>3. \A u \in Runners : \A s \in Elements(todo[u]) : s \in Statements
    BY DEF Homes, Statements
  <1>4. CASE x = "engine"
    <2>1. call = "destroy" /\ place = 4 BY <1>1, <1>4, StatementWindows
    <2>2. ~Queued("endIsolates") BY <2>1, TaskWindows
    <2>3. ~Queued("dropEngine")
      <3>1. Signal("engineDropped") \in Elements(todo[t])
        BY <1>1, <1>4, DropSignals
      <3> QED BY <3>1, EndTable DEF Tokens, Pending, Awaited
    <2>4. ASSUME NEW u \in Runners, NEW s \in Elements(todo'[u]), NeedOf(s, x) PROVE FALSE
      <3>1. s \in {Use("engine"), Drop("engine"), Use("rasterizer")} /\ s \in Elements(todo[u])
        BY <1>1, <1>3, <1>4, <2>4, NeededBy
      <3>2. s # Use("engine") BY <2>1, <3>1, StatementWindows
      <3>3. u = t BY <1>1, <1>4, <3>1, <3>2, StatementThread
      <3> QED BY <1>4, <2>4, <3>1, <3>3, DropTail, StatementParts
    <2> QED BY <1>2, <1>4, <2>2, <2>3, <2>4, Needed DEF Queued
  <1>5. CASE x = "rasterizer"
    <2>1. call = "destroy" /\ place = 6 BY <1>1, <1>5, StatementWindows
    <2>2. ~Queued("dropRasterizer")
      <3>1. Signal("rasterizerDropped") \in Elements(todo[t])
        BY <1>1, <1>5, DropSignals
      <3> QED BY <3>1, EndTable DEF Tokens, Pending, Awaited
    <2>3. "engine" \notin alive BY <2>1 DEF AliveAt
    <2>4. ASSUME NEW u \in Runners, NEW s \in Elements(todo'[u]), NeedOf(s, x) PROVE FALSE
      <3>1. /\ s \in {Use("rasterizer"), Drop("rasterizer"), Do("clearWaiting"), Do("notify")}
            /\ s \in Elements(todo[u])
        BY <1>1, <1>3, <1>5, <2>4, NeededBy
      <3>2. s # Use("rasterizer") BY <2>3, <3>1 DEF Claims, NeedOf, Objects
      <3>3. u = t BY <1>1, <1>5, <3>1, <3>2, StatementThread
      <3> QED BY <1>5, <2>4, <3>1, <3>3, DropTail, StatementParts
    <2> QED BY <1>2, <1>5, <2>2, <2>4, Needed DEF Queued
  <1>6. CASE x = "io"
    <2>1. call = "destroy" /\ place = 8 BY <1>1, <1>6, StatementWindows
    <2>2. ~Queued("drainIO") BY <2>1, TaskWindows
    <2>3. ~Queued("dropIOManager")
      <3>1. Signal("ioDropped") \in Elements(todo[t])
        BY <1>1, <1>6, DropSignals
      <3> QED BY <3>1, EndTable DEF Tokens, Pending, Awaited
    <2>4. ASSUME NEW u \in Runners, NEW s \in Elements(todo'[u]), NeedOf(s, x) PROVE FALSE
      <3>1. s \in {Use("io"), Drop("io"), Run("drainIO", "io")} /\ s \in Elements(todo[u])
        BY <1>1, <1>3, <1>6, <2>4, NeededBy
      <3>2. s = Drop("io") BY <2>1, <3>1, StatementWindows
      <3>3. u = t BY <1>1, <1>6, <3>1, <3>2, StatementThread
      <3> QED BY <1>6, <2>4, <3>2, <3>3, DropTail, StatementParts
    <2> QED BY <1>2, <1>6, <2>2, <2>3, <2>4, Needed DEF Queued
  <1>7. CASE x = "view"
    <2>1. call = "destroy" /\ place = 10 BY <1>1, <1>7, StatementWindows
    <2>2. ~Queued("makeIOManager") /\ ~Queued("createSurfaceIO") /\ ~Queued("dropIOManager")
      BY <2>1, TaskWindows
    <2>3. ~Queued("dropView")
      <3>1. Signal("viewDropped") \in Elements(todo[t])
        BY <1>1, <1>7, DropSignals
      <3> QED BY <3>1, EndTable DEF Tokens, Pending, Awaited
    <2>4. "io" \notin alive /\ RasterGone BY <2>1 DEF AliveAt, RasterGone
    <2>5. ~Queued("setUpContext") /\ ~Pending(Signal("context"))
      BY <2>4 DEF Barriers, OldRaster
    <2>6. ASSUME NEW u \in Runners, NEW s \in Elements(todo'[u]), NeedOf(s, x) PROVE FALSE
      <3>1. s \in {Use("view"), Drop("view")} /\ s \in Elements(todo[u])
        BY <1>1, <1>3, <1>7, <2>6, NeededBy
      <3>2. CASE s = Use("view")
        <4>1. /\ Signal("context") \notin Elements(todo[u])
              /\ Signal("surfaceCreated") \notin Elements(todo[u])
              /\ Signal("ioDropped") \notin Elements(todo[u])
              /\ Make("io") \notin Elements(todo[u])
          BY <2>1, <2>5, StatementWindows DEF Pending
        <4> QED BY <2>4, <3>1, <3>2, <4>1 DEF ViewUse
      <3>3. CASE s = Drop("view")
        <4>1. u = t BY <1>1, <1>7, <3>1, <3>3, StatementThread
        <4> QED BY <1>7, <2>6, <3>3, <4>1, DropTail, StatementParts
      <3> QED BY <3>1, <3>2, <3>3
    <2> QED BY <1>2, <1>7, <2>2, <2>3, <2>5, <2>6, Needed DEF Queued
  <1> QED BY <1>4, <1>5, <1>6, <1>7

\* Nobody needs the shell when it goes.
LEMMA ShellNotNeeded ==
  ASSUME Types, Homes, Shapes, Tokens, AliveAt(alive, call, place), Claims, ShellUse, Barriers,
         call = "destroy", place = 11
  PROVE  /\ \A u \in Runners : \A a \in Elements(queue[u]) : "shell" \notin Needs(a)
         /\ \A u \in Runners : \A s \in Elements(todo[u]) : ~NeedOf(s, "shell")
  <1>1. "rasterizer" \notin alive /\ RasterGone BY DEF AliveAt, RasterGone
  <1>2. /\ ~Queued("makeWeakFactory") /\ ~Queued("setUpSurface") /\ ~Pending(Do("setUp"))
        /\ \A u \in Runners : todo[u] # <<Use("shell")>>
    BY <1>1 DEF Barriers, OldRaster
  <1>3. ~Queued("makeRasterizer") /\ ~Queued("makeEngine") /\ ~Queued("dropRasterizer")
    BY TaskWindows
  <1>4. \A u \in Runners : \A a \in Elements(queue[u]) : "shell" \notin Needs(a)
    <2>1. \A u \in Runners : \A a \in Elements(queue[u]) : a \in Tasks
      BY DEF Homes, Tasks
    <2> QED BY <1>2, <1>3, <2>1, Needed DEF Queued
  <1>5. ASSUME NEW u \in Runners, NEW s \in Elements(todo[u]), NeedOf(s, "shell") PROVE FALSE
    <2>1. s \in Statements BY DEF Homes, Statements
    <2>2. s # Drop("shell") BY StatementThread
    <2>3. s # Run("setUpSurface", "raster") BY StatementWindows
    <2>4. s # Do("setUp") BY <1>2 DEF Pending
    <2>5. s # Do("clearWaiting") /\ s # Do("notify")
      BY <1>1 DEF Claims, NeedOf, Objects
    <2>6. s # Use("shell")
      <3>1. /\ Signal("rasterizerMade") \notin Elements(todo[u])
            /\ Signal("engineMade") \notin Elements(todo[u])
            /\ Signal("rasterizerDropped") \notin Elements(todo[u])
        BY StatementWindows
      <3> QED BY <1>2, <3>1 DEF ShellUse
    <2> QED BY <1>5, <2>1, <2>2, <2>3, <2>4, <2>5, <2>6, NeededBy
  <1> QED BY <1>4, <1>5

LEMMA ClaimsStep ==
  ASSUME Types, Homes, Shapes, Tokens, AliveAt(alive, call, place), Claims, ViewUse, ShellUse,
         Barriers, Frames, NEW t \in Runners,
         TaskStep(t) \/ StartTask(t) \/ CallStep \/ OnAnimatorDraw
  PROVE  Claims'
  <1>1. CASE alive \subseteq alive' BY <1>1, TasksClaim, StatementsClaim DEF Claims
  <1>2. CASE UNCHANGED objectVars BY <1>1, <1>2 DEF objectVars
  <1>3. CASE TouchStep(t)
    <2>1. CASE \E x \in {"engine", "rasterizer", "io", "view"} :
                 alive' = alive \ {x} /\ Executes(t, Drop(x))
      <3>1. PICK x \in {"engine", "rasterizer", "io", "view"} :
              alive' = alive \ {x} /\ Executes(t, Drop(x))
        BY <2>1
      <3>2. UNCHANGED queue BY <1>3, PlainDelta
      <3>3. /\ \A u \in Runners : \A a \in Elements(queue[u]) : x \notin Needs(a)
            /\ \A u \in Runners : \A s \in Elements(todo'[u]) : ~NeedOf(s, x)
        BY <3>1, DropNotNeeded
      <3>4. \A u \in Runners : \A a \in Elements(queue'[u]) : Needs(a) \subseteq alive'
        BY <3>1, <3>2, <3>3 DEF Claims
      <3>5. \A u \in Runners : \A s \in Elements(todo'[u]) :
              \A y \in Objects : NeedOf(s, y) => y \in alive'
        BY <1>3, <3>1, <3>3, StatementsClaim
      <3> QED BY <3>4, <3>5 DEF Claims
    <2>2. CASE alive \subseteq alive' BY <1>1, <2>2
    <2> QED BY <1>3, <2>1, <2>2, AliveTouchStep
  <1>4. CASE CallTouches
    <2>1. CASE alive \subseteq alive' BY <1>1, <2>1
    <2>2. CASE call = "destroy" /\ place = 11 /\ alive' = alive \ {"shell"}
      <3>1. UNCHANGED <<queue, todo>> BY <1>4, PlainCallDelta
      <3>2. \A u \in Runners : \A a \in Elements(queue'[u]) : Needs(a) \subseteq alive'
        BY <2>2, <3>1, ShellNotNeeded DEF Claims
      <3>3. \A u \in Runners : \A s \in Elements(todo'[u]) :
              \A y \in Objects : NeedOf(s, y) => y \in alive'
        BY <2>2, <3>1, ShellNotNeeded DEF Claims
      <3> QED BY <3>2, <3>3 DEF Claims
    <2> QED BY <1>4, <2>1, <2>2, CallTouchesDelta
  <1>5. CASE SendStep(t) \/ InlineStep(t) \/ FrameStep(t) \/ StartTask(t) \/ CallSends
               \/ CallRuns \/ OnAnimatorDraw
    BY <1>2, <1>5, SendStepDelta, InlineDelta, FrameDelta, StartDelta, CallSendsDelta,
       CallRunsDelta, DrawDelta
  <1>6. CASE SetStep(t) \/ PassStep(t) \/ DoStep(t) \/ CallWaits \/ CallSetsUp
    <2>1. UNCHANGED alive
      BY <1>6 DEF SetStep, PassStep, DoStep, CallWaits, CallSetsUp, Sets, Passes, Has, objectVars
    <2> QED BY <1>1, <2>1
  <1> QED BY <1>3, <1>4, <1>5, <1>6 DEF TaskStep, CallStep

LEMMA NothingDeadStep ==
  ASSUME Types, Homes, Shapes, Tokens, AliveAt(alive, call, place), Claims,
         NothingMisused, NEW t \in Runners,
         TaskStep(t) \/ StartTask(t) \/ CallStep \/ OnAnimatorDraw
  PROVE  NothingMisused'
  <1>1. SUFFICES misused' \subseteq misused BY DEF NothingMisused
  <1>2. CASE TouchStep(t)
    <2>1. PICK s : Executes(t, s) /\ Touches(s) BY <1>2 DEF TouchStep
    <2>2. s \in Elements(todo[t]) BY <2>1, ExecutesDelta
    <2>3. \A x \in Objects : s = Use(x) \/ s = Drop(x) => x \in alive
      BY <2>2 DEF Claims, NeedOf
    <2> QED BY <2>1, <2>3 DEF Touches
  <1>3. CASE DoStep(t)
    <2>1. PICK e : Executes(t, Do(e)) /\ Has(e) BY <1>3 DEF DoStep
    <2>2. Do(e) \in Elements(todo[t]) BY <2>1, ExecutesDelta
    <2>3. e \in {"setUp", "clearWaiting", "notify"} => "shell" \in alive
      BY <2>2 DEF Claims, NeedOf, Objects
    <2> QED BY <2>1, <2>3 DEF Has
  <1>4. CASE CallTouches
    <2>1. call \in {"createSurface", "destroySurface"} => "rasterizer" \in alive
      BY DEF AliveAt, Objects
    <2>2. call = "destroy" /\ place = 11 => "shell" \in alive BY DEF AliveAt
    <2> QED BY <1>4, <2>1, <2>2, CallTouchesDelta
  <1>5. CASE CallSetsUp
    <2>1. Has("setUp") /\ "shell" \in alive BY <1>5 DEF CallSetsUp, AliveAt, Objects
    <2> QED BY <2>1 DEF Has
  <1>6. CASE UNCHANGED objectVars BY <1>6 DEF objectVars
  <1>7. CASE SendStep(t) \/ InlineStep(t) \/ FrameStep(t) \/ StartTask(t) \/ CallSends
               \/ CallRuns \/ OnAnimatorDraw
    BY <1>6, <1>7, SendStepDelta, InlineDelta, FrameDelta, StartDelta, CallSendsDelta,
       CallRunsDelta, DrawDelta
  <1>8. CASE SetStep(t) \/ PassStep(t) \/ CallWaits
    BY <1>6, <1>8 DEF SetStep, PassStep, CallWaits, Sets, Passes
  <1> QED BY <1>2, <1>3, <1>4, <1>5, <1>7, <1>8 DEF TaskStep, CallStep
-----------------------------------------------------------------------------
(* Who is about to use the view, and the shell.                            *)

LEMMA UsesInBodies ==
  ASSUME NEW a \in Tasks
  PROVE  LET q == Elements(Body(a)) IN
         /\ Use("view") \in q =>
              \/ Signal("context") \in q \/ Signal("surfaceCreated") \in q
              \/ Signal("ioDropped") \in q \/ (a = "makeIOManager" /\ Make("io") \in q)
         /\ Use("shell") \in q =>
              \/ Signal("rasterizerMade") \in q \/ Signal("engineMade") \in q
              \/ Signal("rasterizerDropped") \in q
              \/ a = "makeWeakFactory" /\ Body(a) = <<Use("shell")>>
         /\ a \in {"drainIO", "scheduleFrame", "setUpSurface"} =>
              Use("view") \notin q /\ Use("shell") \notin q
  <1>1. CASE a \in TasksOf("platform") BY <1>1, BodyTable, TaskTable, StatementParts
  <1>2. CASE a \in TasksOf("raster")
    <2>1. Body("makeWeakFactory") = <<Use("shell")>> BY DEF Body
    <2> QED BY <1>2, <2>1, BodyTable, TaskTable, StatementParts
  <1>3. CASE a \in TasksOf("ui") BY <1>3, BodyTable, TaskTable, StatementParts
  <1>4. CASE a \in TasksOf("io") BY <1>4, BodyTable, TaskTable, StatementParts
  <1> QED BY <1>1, <1>2, <1>3, <1>4 DEF Tasks, Runners

LEMMA UsesExecuted ==
  ASSUME Types, Homes, Shapes, ViewUse, ShellUse, NEW t \in Runners, NEW s, Executes(t, s),
         "io" \in alive => "io" \in alive' \/ s = Drop("io"),
         s = Make("io") => "io" \in alive'
  PROVE  ViewUse' /\ ShellUse'
  <1>0. /\ \A u \in Runners : Elements(todo'[u]) \subseteq Elements(todo[u])
        /\ \A u \in Runners : u # t => todo'[u] = todo[u]
        /\ s \in Elements(todo[t]) /\ Elements(todo[t]) = {s} \cup Elements(todo'[t])
        /\ todo[t] \in Seq(Statements) /\ todo[t] # <<>> /\ Head(todo[t]) = s
        /\ todo'[t] = Tail(todo[t]) /\ host' = host
    BY ExecutesDelta DEF Executes
  <1>1. s \in Lasts => Elements(todo'[t]) = {}
    BY <1>0, LastAlone, NilElements DEF Shapes
  <1>2. {Signal("context"), Signal("surfaceCreated"), Signal("ioDropped"),
         Signal("rasterizerMade"), Signal("engineMade"), Signal("rasterizerDropped")}
          \subseteq Lasts
    BY DEF Lasts
  <1>3. ASSUME NEW u \in Runners, Use("view") \in Elements(todo'[u])
        PROVE  \/ Signal("context") \in Elements(todo'[u])
               \/ Signal("surfaceCreated") \in Elements(todo'[u])
               \/ Signal("ioDropped") \in Elements(todo'[u])
               \/ u = host["io"] /\ ("io" \in alive' \/ Make("io") \in Elements(todo'[u]))
    <2>0. Use("view") \in Elements(todo[u]) BY <1>0, <1>3
    <2>1. \/ Signal("context") \in Elements(todo[u])
          \/ Signal("surfaceCreated") \in Elements(todo[u])
          \/ Signal("ioDropped") \in Elements(todo[u])
          \/ u = host["io"] /\ ("io" \in alive \/ Make("io") \in Elements(todo[u]))
      BY <2>0 DEF ViewUse
    <2>2. CASE u # t
      <3>1. s = Drop("io") => u # host["io"] BY <1>0, <2>2, StatementThread
      <3> QED BY <1>0, <2>1, <2>2, <3>1
    <2>3. CASE u = t /\ s = Drop("io")
      BY <2>3, DropTail, StatementParts
    <2>4. CASE u = t /\ s # Drop("io")
      <3>1. \A l \in {Signal("context"), Signal("surfaceCreated"), Signal("ioDropped")} :
              l \in Elements(todo[t]) => l \in Elements(todo'[t])
        BY <1>0, <1>1, <1>2, <1>3, <2>4
      <3>2. Make("io") \in Elements(todo[t]) => Make("io") \in Elements(todo'[t])
                                                  \/ "io" \in alive'
        BY <1>0
      <3> QED BY <2>1, <2>4, <3>1, <3>2
    <2> QED BY <2>2, <2>3, <2>4
  <1>4. ASSUME NEW u \in Runners, Use("shell") \in Elements(todo'[u])
        PROVE  \/ Signal("rasterizerMade") \in Elements(todo'[u])
               \/ Signal("engineMade") \in Elements(todo'[u])
               \/ Signal("rasterizerDropped") \in Elements(todo'[u])
               \/ todo'[u] = <<Use("shell")>> /\ u = host["raster"]
    <2>0. Use("shell") \in Elements(todo[u]) BY <1>0, <1>4
    <2>1. \/ Signal("rasterizerMade") \in Elements(todo[u])
          \/ Signal("engineMade") \in Elements(todo[u])
          \/ Signal("rasterizerDropped") \in Elements(todo[u])
          \/ todo[u] = <<Use("shell")>> /\ u = host["raster"]
      BY <2>0 DEF ShellUse
    <2>2. CASE u # t BY <1>0, <2>1, <2>2
    <2>3. CASE u = t
      <3>1. \A l \in {Signal("rasterizerMade"), Signal("engineMade"),
                      Signal("rasterizerDropped")} :
              l \in Elements(todo[t]) => l \in Elements(todo'[t])
        BY <1>0, <1>1, <1>2, <1>4, <2>3
      <3>2. todo[t] # <<Use("shell")>>
        <4>1. Elements(Tail(<<Use("shell")>>)) = {} BY NilElements
        <4> QED BY <1>0, <1>4, <2>3, <4>1
      <3> QED BY <2>1, <2>3, <3>1, <3>2
    <2> QED BY <2>2, <2>3
  <1> QED BY <1>0, <1>3, <1>4 DEF ViewUse, ShellUse

\* A task begins on a thread; the rest of another may be behind it.
LEMMA UsesBegun ==
  ASSUME Types, ViewUse, ShellUse, UNCHANGED <<host, alive>>, NEW t \in Runners,
         \A u \in Runners : u # t => todo'[u] = todo[u],
         \/ Use("view") \notin Elements(todo'[t]) /\ Use("shell") \notin Elements(todo'[t])
         \/ \E a \in Tasks, r \in Runners :
               a \in TasksOf(r) /\ host[r] = t /\ todo'[t] = Body(a)
  PROVE  ViewUse' /\ ShellUse'
  <1>1. CASE Use("view") \notin Elements(todo'[t]) /\ Use("shell") \notin Elements(todo'[t])
    <2>1. ViewUse' BY <1>1 DEF ViewUse
    <2>2. ShellUse' BY <1>1 DEF ShellUse
    <2> QED BY <2>1, <2>2
  <1>2. CASE \E a \in Tasks, r \in Runners :
               a \in TasksOf(r) /\ host[r] = t /\ todo'[t] = Body(a)
    <2>1. PICK a \in Tasks, r \in Runners : a \in TasksOf(r) /\ host[r] = t /\ todo'[t] = Body(a)
      BY <1>2
    <2>2. (a = "makeIOManager" => r = "io") /\ (a = "makeWeakFactory" => r = "raster")
      BY <2>1, TaskRunner, TaskTable DEF Runners
    <2>3. ViewUse' BY <2>1, <2>2, UsesInBodies DEF ViewUse
    <2>4. ShellUse' BY <2>1, <2>2, UsesInBodies DEF ShellUse
    <2> QED BY <2>3, <2>4
  <1> QED BY <1>1, <1>2

LEMMA UsesStep ==
  ASSUME Types, Homes, Shapes, Tokens, AliveAt(alive, call, place), ViewUse, ShellUse,
         NEW t \in Runners, TaskStep(t) \/ StartTask(t) \/ CallStep \/ OnAnimatorDraw
  PROVE  ViewUse' /\ ShellUse'
  <1>1. CASE TouchStep(t)
    <2>1. PICK s : Executes(t, s) /\ Touches(s) BY <1>1 DEF TouchStep
    <2>2. /\ "io" \in alive => "io" \in alive' \/ s = Drop("io")
          /\ s = Make("io") => "io" \in alive'
      BY <2>1, StatementParts DEF Touches
    <2> QED BY <2>1, <2>2, UsesExecuted
  <1>2. CASE SendStep(t) \/ SetStep(t) \/ PassStep(t) \/ DoStep(t)
    <2>1. PICK s : Executes(t, s) /\ UNCHANGED alive /\ s # Make("io")
      <3>1. CASE SendStep(t)
        <4>1. PICK a \in Tasks, r \in Runners, s \in Statements :
                /\ Executes(t, s) /\ Sends(r, a) /\ (s = Run(a, r) \/ s = Post(a, r))
          BY <3>1, SendStepDelta
        <4> QED BY <4>1, StatementParts DEF Sends, objectVars
      <3>2. CASE SetStep(t) \/ PassStep(t) \/ DoStep(t)
        <4>1. PICK s : /\ Executes(t, s) /\ UNCHANGED alive
                       /\ \E x : s = Signal(x) \/ s = Wait(x) \/ s = Do(x)
          BY <3>2 DEF SetStep, PassStep, DoStep, Sets, Passes, Has, objectVars
        <4> QED BY <4>1, StatementParts
      <3> QED BY <1>2, <3>1, <3>2
    <2> QED BY <2>1, UsesExecuted
  <1>3. CASE InlineStep(t)
    <2>1. PICK a \in Tasks, r \in Runners :
           /\ \/ a = "drainIO" /\ r = "io" /\ Tail(todo[t]) = <<>>
              \/ a = "scheduleFrame" /\ r = "ui"
              \/ a = "setUpSurface" /\ r = "raster"
           /\ a \in TasksOf(r)
           /\ \A u \in Runners : u # t => todo'[u] = todo[u]
           /\ Elements(Tail(todo[t])) \subseteq AfterRun
           /\ Elements(todo'[t]) = Elements(Body(a)) \cup Elements(Tail(todo[t]))
           /\ UNCHANGED <<host, objectVars>>
      BY <1>3, InlineDelta
    <2>2. Use("view") \notin AfterRun /\ Use("shell") \notin AfterRun
      BY StatementParts DEF AfterRun
    <2>3. Use("view") \notin Elements(todo'[t]) /\ Use("shell") \notin Elements(todo'[t])
      BY <2>1, <2>2, UsesInBodies
    <2> QED BY <2>1, <2>3, UsesBegun DEF objectVars
  <1>4. CASE FrameStep(t)
    <2>1. UNCHANGED <<host, objectVars>> /\ \A u \in Runners : u # t => todo'[u] = todo[u]
      BY <1>4, FrameDelta
    <2>2. Use("view") \notin Elements(todo'[t]) /\ Use("shell") \notin Elements(todo'[t])
      <3>1. Elements(todo'[t]) = {Do("clearWaiting"), Do("notify")} BY <1>4, FrameDelta
      <3> QED BY <3>1, StatementParts
    <2> QED BY <2>1, <2>2, UsesBegun DEF objectVars
  <1>5. CASE OnAnimatorDraw
    <2>1. /\ UNCHANGED <<host, objectVars>> /\ host["ui"] \in Runners
          /\ \A u \in Runners : u # host["ui"] => todo'[u] = todo[u]
      BY <1>5, DrawDelta
    <2>2. Use("view") \notin Elements(todo'[host["ui"]])
            /\ Use("shell") \notin Elements(todo'[host["ui"]])
      BY <1>5, DrawDelta, StatementParts
    <2> QED BY <2>1, <2>2, UsesBegun DEF objectVars
  <1>6. CASE StartTask(t)
    <2>1. /\ UNCHANGED <<host, objectVars>> /\ Head(queue[t]) \in Elements(queue[t])
          /\ Head(queue[t]) \in Tasks /\ todo'[t] = Body(Head(queue[t]))
          /\ \A u \in Runners : u # t => todo'[u] = todo[u]
      BY <1>6, StartDelta
    <2>2. PICK r \in Runners : Head(queue[t]) \in TasksOf(r) /\ host[r] = t
      BY <2>1 DEF Homes
    <2> QED BY <2>1, <2>2, UsesBegun DEF objectVars
  <1>7. CASE CallRuns
    <2>1. PICK a \in Tasks, r \in Runners :
           /\ host[r] = "platform" /\ a \in TasksOf(r) /\ todo'["platform"] = Body(a)
           /\ \A u \in Runners : u # "platform" => todo'[u] = todo[u]
           /\ UNCHANGED <<host, objectVars>>
      BY <1>7, CallRunsDelta
    <2> QED BY <2>1, UsesBegun DEF objectVars, Runners
  <1>8. CASE CallSends \/ CallWaits \/ CallTouches \/ CallSetsUp
    <2>1. UNCHANGED <<host, todo>> BY <1>8, CallSendsDelta, PlainCallDelta
    <2>2. "io" \in alive => "io" \in alive'
      <3>1. CASE CallSends \/ CallWaits \/ CallSetsUp
        <4>1. CASE CallSends BY <4>1, CallSendsDelta DEF objectVars
        <4>2. CASE CallWaits \/ CallSetsUp
          BY <4>2 DEF CallWaits, CallSetsUp, Passes, Has, objectVars
        <4> QED BY <3>1, <4>1, <4>2
      <3>2. CASE CallTouches BY <3>2, CallTouchesDelta
      <3> QED BY <1>8, <3>1, <3>2
    <2>3. ViewUse' BY <2>1, <2>2 DEF ViewUse
    <2>4. ShellUse' BY <2>1 DEF ShellUse
    <2> QED BY <2>3, <2>4
  <1> QED BY <1>1, <1>2, <1>3, <1>4, <1>5, <1>6, <1>7, <1>8 DEF TaskStep, CallStep
-----------------------------------------------------------------------------
(* What comes to the queues, and to what the threads have to do.           *)

LEMMA QueueGrows ==
  ASSUME Types, Homes, Shapes, Tokens, NEW t \in Runners,
         TaskStep(t) \/ StartTask(t) \/ CallStep \/ OnAnimatorDraw
  PROVE  \A u \in Runners :
           \/ queue'[u] = queue[u]
           \/ u = t /\ StartTask(t)
           \/ \E a \in Tasks :
                /\ queue'[u] = Append(queue[u], a)
                /\ Elements(queue'[u]) = Elements(queue[u]) \cup {a}
                /\ a \in {"setUpSurface", "scheduleFrame"} => call = "createSurface"
                /\ a \in {"makeWeakFactory", "setUpContext"} => call = "create"
                /\ a \in OldRaster => u # "platform"
  <1>1. ASSUME NEW r \in Runners, NEW a \in Tasks, Sends(r, a),
               a \in {"setUpSurface", "scheduleFrame"} => call = "createSurface",
               a \in {"makeWeakFactory", "setUpContext"} => call = "create",
               a \in OldRaster => host[r] # "platform"
        PROVE  \A u \in Runners :
                 \/ queue'[u] = queue[u]
                 \/ \E b \in Tasks :
                      /\ queue'[u] = Append(queue[u], b)
                      /\ Elements(queue'[u]) = Elements(queue[u]) \cup {b}
                      /\ b \in {"setUpSurface", "scheduleFrame"} => call = "createSurface"
                      /\ b \in {"makeWeakFactory", "setUpContext"} => call = "create"
                      /\ b \in OldRaster => u # "platform"
    <2>1. /\ queue'[host[r]] = Append(queue[host[r]], a)
          /\ Elements(queue'[host[r]]) = Elements(queue[host[r]]) \cup {a}
          /\ \A u \in Runners : u # host[r] => queue'[u] = queue[u]
      BY <1>1, SendsDelta
    <2> QED BY <1>1, <2>1
  <1>2. CASE SendStep(t)
    <2>1. PICK a \in Tasks, r \in Runners, s \in Statements :
            /\ Executes(t, s) /\ Sends(r, a)
            /\ \/ a = "drainIO" /\ r = "io" /\ s = Run(a, r)
               \/ a = "scheduleFrame" /\ r = "ui" /\ s = Run(a, r)
               \/ a = "setUpSurface" /\ r = "raster" /\ s = Run(a, r)
               \/ a = "draw" /\ r = "raster" /\ s = Post(a, r)
      BY <1>2, SendStepDelta
    <2>2. s \in Elements(todo[t]) BY <2>1, ExecutesDelta
    <2>3. a \in {"setUpSurface", "scheduleFrame"} => call = "createSurface"
      BY <2>1, <2>2, StatementWindows
    <2>4. a \in OldRaster => host[r] # "platform"
      <3>1. Run("setUpSurface", "raster") \in Elements(todo[t]) => PostsRasterTask
        BY DEF Shapes
      <3>2. host["platform"] = "platform" BY HostFacts DEF Types
      <3> QED BY <2>1, <2>2, <3>1, <3>2 DEF OldRaster, PostsRasterTask
    <2>5. a \notin {"makeWeakFactory", "setUpContext"} BY <2>1
    <2> QED BY <1>1, <2>1, <2>3, <2>4, <2>5
  <1>3. CASE CallSends
    <2>1. PICK a \in Tasks, r \in Runners :
           /\ Sends(r, a)
           /\ \/ RunAt(call, place, a, r) /\ host[r] # "platform"
              \/ a = "stopRouting" /\ r = "platform" /\ call = "create" /\ place = 11
      BY <1>3, CallSendsDelta
    <2>2. /\ a \notin {"setUpSurface", "scheduleFrame"}
          /\ a \in {"makeWeakFactory", "setUpContext"} => call = "create"
      BY <2>1 DEF RunAt
    <2> QED BY <1>1, <2>1, <2>2 DEF OldRaster
  <1>4. CASE StartTask(t) BY <1>4, StartDelta
  <1>5. CASE UNCHANGED queue BY <1>5
  <1> QED BY <1>2, <1>3, <1>4, <1>5, InlineDelta, PlainDelta, FrameDelta, CallRunsDelta,
             PlainCallDelta, DrawDelta DEF TaskStep, CallStep

LEMMA TodoGrows ==
  ASSUME Types, Homes, Shapes, Tokens, NEW t \in Runners,
         TaskStep(t) \/ StartTask(t) \/ CallStep \/ OnAnimatorDraw
  PROVE  \A u \in Runners : \A s \in Elements(todo'[u]) :
           \/ s \in Elements(todo[u])
           \/ u = t /\ StartTask(t) /\ s \in Elements(Body(Head(queue[t])))
           \/ /\ u = "platform" /\ UNCHANGED queue
              /\ \E a \in Tasks, r \in Runners : /\ RunAt(call, place, a, r)
                                                 /\ host[r] = "platform"
                                                 /\ todo'[u] = Body(a)
           \/ s \in {Do("scheduleFrame"), Do("setUp")} /\ call = "createSurface"
           \/ s \in {Use("io"), Signal("surfaceDestroyed"), Do("clearWaiting"), Do("notify"),
                     Use("rasterizer"), Post("draw", "raster")}
  <1>1. CASE SendStep(t) \/ SetStep(t) \/ PassStep(t) \/ TouchStep(t) \/ DoStep(t)
    <2>1. PICK s : Executes(t, s) BY <1>1, SendStepDelta, PlainDelta
    <2>2. \A u \in Runners : Elements(todo'[u]) \subseteq Elements(todo[u])
      BY <2>1, ExecutesDelta
    <2> QED BY <2>2
  <1>2. CASE InlineStep(t)
    <2>1. PICK a \in Tasks, r \in Runners :
           /\ \/ a = "drainIO" /\ r = "io" /\ Tail(todo[t]) = <<>>
              \/ a = "scheduleFrame" /\ r = "ui"
              \/ a = "setUpSurface" /\ r = "raster"
           /\ a \in TasksOf(r)
           /\ \A u \in Runners : u # t => todo'[u] = todo[u]
           /\ Run(a, r) \in Elements(todo[t])
           /\ Elements(todo[t]) = {Run(a, r)} \cup Elements(Tail(todo[t]))
           /\ Elements(todo'[t]) = Elements(Body(a)) \cup Elements(Tail(todo[t]))
      BY <1>2, InlineDelta
    <2>2. a \in {"scheduleFrame", "setUpSurface"} => call = "createSurface"
      BY <2>1, StatementWindows
    <2>3. /\ a = "drainIO" => Elements(Body(a)) = {Use("io"), Signal("surfaceDestroyed")}
          /\ a = "scheduleFrame" => Elements(Body(a)) = {Do("scheduleFrame")}
          /\ a = "setUpSurface" => Elements(Body(a)) = {Do("setUp")}
      BY BodyTable
    <2>4. \A s \in Elements(todo'[t]) : s \in Elements(todo[t]) \/ s \in Elements(Body(a))
      BY <2>1
    <2> QED BY <2>1, <2>2, <2>3, <2>4
  <1>3. CASE FrameStep(t)
    <2>1. /\ \A u \in Runners : u # t => todo'[u] = todo[u]
          /\ Elements(todo'[t]) = {Do("clearWaiting"), Do("notify")}
      BY <1>3, FrameDelta
    <2> QED BY <2>1
  <1>4. CASE OnAnimatorDraw
    <2>1. /\ \A u \in Runners : u # host["ui"] => todo'[u] = todo[u]
          /\ Elements(todo'[host["ui"]]) = {Use("rasterizer"), Post("draw", "raster")}
      BY <1>4, DrawDelta
    <2> QED BY <2>1
  <1>5. CASE StartTask(t)
    <2>1. /\ \A u \in Runners : u # t => todo'[u] = todo[u]
          /\ todo'[t] = Body(Head(queue[t]))
      BY <1>5, StartDelta
    <2> QED BY <1>5, <2>1
  <1>6. CASE CallRuns
    <2>1. PICK a \in Tasks, r \in Runners :
           /\ RunAt(call, place, a, r) /\ host[r] = "platform" /\ todo'["platform"] = Body(a)
           /\ \A u \in Runners : u # "platform" => todo'[u] = todo[u]
           /\ UNCHANGED queue
      BY <1>6, CallRunsDelta
    <2> QED BY <2>1
  <1>7. CASE UNCHANGED todo BY <1>7
  <1> QED BY <1>1, <1>2, <1>3, <1>4, <1>5, <1>6, <1>7, CallSendsDelta, PlainCallDelta
             DEF TaskStep, CallStep

\* The tasks that statements are from.
LEMMA BodyOf ==
  ASSUME NEW a \in Tasks
  PROVE  LET q == Elements(Body(a)) IN
         /\ Drop("rasterizer") \in q => a = "dropRasterizer"
         /\ Do("setUp") \in q => a = "setUpSurface"
         /\ Do("tearDown") \in q => a = "tearDown"
         /\ Do("scheduleFrame") \in q => a = "scheduleFrame"
         /\ Signal("context") \in q => a = "setUpContext"
         /\ Body(a) = <<Use("shell")>> => a = "makeWeakFactory"
  <1> DEFINE q == Elements(Body(a))
             Table == /\ Drop("rasterizer") \in q => a = "dropRasterizer"
                      /\ Do("setUp") \in q => a = "setUpSurface"
                      /\ Do("tearDown") \in q => a = "tearDown"
                      /\ Do("scheduleFrame") \in q => a = "scheduleFrame"
                      /\ Signal("context") \in q => a = "setUpContext"
  <1>1. Table
    <2>1. CASE a \in TasksOf("platform") BY <2>1, BodyTable, TaskTable, StatementParts
    <2>2. CASE a \in TasksOf("raster") BY <2>2, BodyTable, TaskTable, StatementParts
    <2>3. CASE a \in TasksOf("ui") BY <2>3, BodyTable, TaskTable, StatementParts
    <2>4. CASE a \in TasksOf("io") BY <2>4, BodyTable, TaskTable, StatementParts
    <2> QED BY <2>1, <2>2, <2>3, <2>4 DEF Tasks, Runners
  <1>2. ASSUME q = {Use("shell")} PROVE a = "makeWeakFactory"
    <2>0. Use("shell") \in q /\ \A x : Signal(x) \notin q /\ Do(x) \notin q
      BY <1>2, StatementParts
    <2>1. a \notin TasksOf("platform")
      BY <2>0, BodyTable, TaskTable
    <2>2. a \notin TasksOf("ui") BY <2>0, BodyTable, TaskTable
    <2>3. a \notin TasksOf("io") BY <2>0, BodyTable, TaskTable
    <2>4. a \in TasksOf("raster") => a = "makeWeakFactory"
      BY <2>0, BodyTable, TaskTable
    <2> QED BY <2>1, <2>2, <2>3, <2>4 DEF Tasks, Runners
  <1>3. Elements(<<Use("shell")>>) = {Use("shell")} BY ShortElements
  <1> QED BY <1>1, <1>2, <1>3
-----------------------------------------------------------------------------
(* The raster thread is through with its old tasks.                        *)

LEMMA BarriersQueues ==
  ASSUME Types, Homes, Shapes, Tokens, Barriers, NEW t \in Runners,
         TaskStep(t) \/ StartTask(t) \/ CallStep \/ OnAnimatorDraw
  PROVE  /\ \A u \in Runners : NoneBehind(queue'[u], "dropRasterizer", OldRaster)
         /\ \A u \in Runners : Drop("rasterizer") \in Elements(todo'[u]) =>
              \A a \in OldRaster : a \notin Elements(queue'[u])
         /\ \A a \in OldRaster : a \notin Elements(queue'["platform"])
  <1>0. /\ \A u \in Runners : queue[u] \in Seq(Tasks)
        /\ \A u \in Runners : NoneBehind(queue[u], "dropRasterizer", OldRaster)
        /\ \A u \in Runners : Drop("rasterizer") \in Elements(todo[u]) =>
              \A a \in OldRaster : a \notin Elements(queue[u])
        /\ \A a \in OldRaster : a \notin Elements(queue["platform"])
    BY DEF Types, Barriers
  <1>1. Queued("dropRasterizer") => call = "destroy" BY TaskWindows
  <1>2. \A u \in Runners : Drop("rasterizer") \in Elements(todo[u]) => call = "destroy"
    BY StatementWindows
  <1>3. \A u \in Runners :
           \/ queue'[u] = queue[u]
           \/ u = t /\ StartTask(t)
           \/ \E a \in Tasks :
                /\ queue'[u] = Append(queue[u], a)
                /\ Elements(queue'[u]) = Elements(queue[u]) \cup {a}
                /\ a \in OldRaster => call \in {"create", "createSurface"} /\ u # "platform"
    BY QueueGrows DEF OldRaster
  <1>4. StartTask(t) => /\ queue[t] # <<>> /\ queue'[t] = Tail(queue[t])
                        /\ Elements(queue'[t]) \subseteq Elements(queue[t])
                        /\ Head(queue[t]) \in Tasks
    BY StartDelta
  <1>5. ASSUME NEW u \in Runners PROVE NoneBehind(queue'[u], "dropRasterizer", OldRaster)
    <2>1. CASE queue'[u] = queue[u] BY <1>0, <2>1
    <2>2. CASE u = t /\ StartTask(t) BY <1>0, <1>4, <2>2, NoneBehindTail
    <2>3. ASSUME NEW a \in Tasks, queue'[u] = Append(queue[u], a),
                 a \in OldRaster => call \in {"create", "createSurface"}
          PROVE  NoneBehind(queue'[u], "dropRasterizer", OldRaster)
      <3>1. a \in OldRaster => "dropRasterizer" \notin Elements(queue[u])
        BY <1>1, <2>3 DEF Queued
      <3>2. NoneBehind(Append(queue[u], a), "dropRasterizer", OldRaster)
        BY <1>0, <3>1, NoneBehindAppend
      <3> QED BY <2>3, <3>2
    <2> QED BY <1>3, <2>1, <2>2, <2>3
  <1>6. ASSUME NEW u \in Runners, Drop("rasterizer") \in Elements(todo'[u]), NEW b \in OldRaster
        PROVE  b \notin Elements(queue'[u])
    <2>1. CASE Drop("rasterizer") \in Elements(todo[u])
      BY <1>0, <1>2, <1>3, <1>4, <2>1
    <2>2. CASE u = t /\ StartTask(t) /\ Drop("rasterizer") \in Elements(Body(Head(queue[t])))
      <3>1. Head(queue[t]) = "dropRasterizer" BY <1>4, <2>2, BodyOf
      <3> QED BY <1>0, <1>4, <2>2, <3>1, NoneBehindTail
    <2>3. CASE u = "platform" /\ UNCHANGED queue BY <1>0, <2>3
    <2> QED BY <1>6, <2>1, <2>2, <2>3, TodoGrows, StatementParts
  <1>7. ASSUME NEW b \in OldRaster PROVE b \notin Elements(queue'["platform"])
    <2>1. "platform" \in Runners BY DEF Runners
    <2> QED BY <1>0, <1>3, <1>4, <2>1
  <1> QED BY <1>5, <1>6, <1>7

\* Once the rasterizer is gone there is nothing left of them.
LEMMA GoneKept ==
  ASSUME Types, Homes, Shapes, Tokens, ShellUse, Barriers, RasterGone, NEW t \in Runners,
         TaskStep(t) \/ StartTask(t) \/ CallStep \/ OnAnimatorDraw
  PROVE  /\ \A u \in Runners : \A a \in OldRaster : a \notin Elements(queue'[u])
         /\ \A u \in Runners : Do("setUp") \notin Elements(todo'[u])
         /\ \A u \in Runners : Signal("context") \notin Elements(todo'[u])
         /\ \A u \in Runners : todo'[u] # <<Use("shell")>>
  <1>0. /\ call \in {"destroy", "none"}
        /\ \A u \in Runners : \A a \in OldRaster : a \notin Elements(queue[u])
        /\ \A u \in Runners : Do("setUp") \notin Elements(todo[u])
        /\ \A u \in Runners : Signal("context") \notin Elements(todo[u])
        /\ \A u \in Runners : todo[u] # <<Use("shell")>>
    BY DEF Barriers, RasterGone, Queued, Pending
  <1>1. StartTask(t) => /\ Elements(queue'[t]) \subseteq Elements(queue[t])
                        /\ Head(queue[t]) \in Tasks /\ Head(queue[t]) \notin OldRaster
                        /\ todo'[t] = Body(Head(queue[t]))
                        /\ \A u \in Runners : u # t => todo'[u] = todo[u]
    BY <1>0, StartDelta
  <1>2. ASSUME NEW u \in Runners, NEW a \in OldRaster PROVE a \notin Elements(queue'[u])
    BY <1>0, <1>1, QueueGrows DEF OldRaster
  <1>3. \A a, r : RunAt(call, place, a, r) => a \notin OldRaster /\ call = "destroy"
    BY <1>0 DEF RunAt, OldRaster
  <1>4. \A a \in Tasks \ OldRaster : /\ Do("setUp") \notin Elements(Body(a))
                                     /\ Signal("context") \notin Elements(Body(a))
                                     /\ Body(a) # <<Use("shell")>>
    BY BodyOf DEF OldRaster
  <1>5. ASSUME NEW u \in Runners, NEW s \in {Do("setUp"), Signal("context")},
               s \in Elements(todo'[u])
        PROVE  FALSE
    <2>1. \/ u = t /\ StartTask(t) /\ s \in Elements(Body(Head(queue[t])))
          \/ \E a \in Tasks, r \in Runners : RunAt(call, place, a, r) /\ s \in Elements(Body(a))
      <3>1. \/ s \in Elements(todo[u])
            \/ u = t /\ StartTask(t) /\ s \in Elements(Body(Head(queue[t])))
            \/ \E a \in Tasks, r \in Runners : RunAt(call, place, a, r) /\ todo'[u] = Body(a)
            \/ call = "createSurface"
            \/ s \in {Use("io"), Signal("surfaceDestroyed"), Do("clearWaiting"), Do("notify"),
                      Use("rasterizer"), Post("draw", "raster")}
        BY <1>5, TodoGrows
      <3>2. s \notin {Use("io"), Signal("surfaceDestroyed"), Do("clearWaiting"), Do("notify"),
                      Use("rasterizer"), Post("draw", "raster")}
        BY StatementParts
      <3> QED BY <1>0, <1>5, <3>1, <3>2
    <2> QED BY <1>1, <1>3, <1>4, <2>1
  <1>6. ASSUME NEW u \in Runners, todo'[u] = <<Use("shell")>> PROVE FALSE
    <2>0. Elements(todo'[u]) = {Use("shell")} BY <1>6, ShortElements
    <2>1. CASE todo'[u] = todo[u] BY <1>0, <1>6, <2>1
    <2>2. CASE SendStep(t) \/ SetStep(t) \/ PassStep(t) \/ TouchStep(t) \/ DoStep(t)
      <3>1. PICK s : Executes(t, s) BY <2>2, SendStepDelta, PlainDelta
      <3>2. /\ \A v \in Runners : v # t => todo'[v] = todo[v]
            /\ todo[t] \in Seq(Statements) /\ todo[t] # <<>> /\ Head(todo[t]) = s
            /\ todo'[t] = Tail(todo[t])
            /\ Elements(todo[t]) = {s} \cup Elements(todo'[t])
        BY <3>1, ExecutesDelta
      <3>3. u = t BY <1>0, <1>6, <3>2
      <3>4. Use("shell") \in Elements(todo[t]) BY <2>0, <3>2, <3>3
      <3>5. \/ Signal("rasterizerMade") \in Elements(todo[t])
            \/ Signal("engineMade") \in Elements(todo[t])
            \/ Signal("rasterizerDropped") \in Elements(todo[t])
        BY <1>0, <3>4 DEF ShellUse
      <3>6. s \in Lasts BY <2>0, <3>2, <3>3, <3>5, StatementParts DEF Lasts
      <3>7. Tail(todo[t]) = <<>> BY <3>2, <3>6, LastAlone DEF Shapes
      <3> QED BY <2>0, <3>2, <3>3, <3>7, NilElements
    <2>3. CASE StartTask(t) /\ u = t BY <1>1, <1>4, <1>6, <2>3
    <2>4. CASE InlineStep(t)
      <3>1. PICK a \in Tasks :
             /\ a \in {"drainIO", "scheduleFrame", "setUpSurface"}
             /\ \A v \in Runners : v # t => todo'[v] = todo[v]
             /\ Elements(Tail(todo[t])) \subseteq AfterRun
             /\ Elements(todo'[t]) = Elements(Body(a)) \cup Elements(Tail(todo[t]))
        BY <2>4, InlineDelta
      <3>2. Use("shell") \notin AfterRun BY StatementParts DEF AfterRun
      <3>3. Use("shell") \notin Elements(todo'[t]) BY <3>1, <3>2, UsesInBodies
      <3> QED BY <1>0, <1>6, <2>0, <3>1, <3>3
    <2>5. CASE FrameStep(t)
      <3>1. /\ \A v \in Runners : v # t => todo'[v] = todo[v]
            /\ Elements(todo'[t]) = {Do("clearWaiting"), Do("notify")}
        BY <2>5, FrameDelta
      <3> QED BY <1>0, <1>6, <2>0, <3>1, StatementParts
    <2>6. CASE OnAnimatorDraw
      <3>1. /\ \A v \in Runners : v # host["ui"] => todo'[v] = todo[v]
            /\ Elements(todo'[host["ui"]]) = {Use("rasterizer"), Post("draw", "raster")}
        BY <2>6, DrawDelta
      <3> QED BY <1>0, <1>6, <2>0, <3>1, StatementParts
    <2>7. CASE CallRuns
      <3>1. PICK a \in Tasks, r \in Runners :
             /\ RunAt(call, place, a, r) /\ todo'["platform"] = Body(a)
             /\ \A v \in Runners : v # "platform" => todo'[v] = todo[v]
        BY <2>7, CallRunsDelta
      <3> QED BY <1>0, <1>3, <1>4, <1>6, <3>1
    <2> QED BY <1>1, <2>1, <2>2, <2>3, <2>4, <2>5, <2>6, <2>7, CallSendsDelta, PlainCallDelta
               DEF TaskStep, CallStep
  <1> QED BY <1>2, <1>5, <1>6

\* It goes behind the old tasks.
LEMMA GoneBegun ==
  ASSUME Types, Homes, Shapes, Tokens, AliveAt(alive, call, place), ShellUse, Barriers,
         ~RasterGone, RasterGone', NEW t \in Runners,
         TaskStep(t) \/ StartTask(t) \/ CallStep \/ OnAnimatorDraw
  PROVE  /\ \A u \in Runners : \A a \in OldRaster : a \notin Elements(queue'[u])
         /\ \A u \in Runners : Do("setUp") \notin Elements(todo'[u])
         /\ \A u \in Runners : Signal("context") \notin Elements(todo'[u])
         /\ \A u \in Runners : todo'[u] # <<Use("shell")>>
  <1>1. call' = call
    BY SendStepDelta, InlineDelta, PlainDelta, FrameDelta, StartDelta, CallSendsDelta,
       CallRunsDelta, PlainCallDelta, DrawDelta DEF TaskStep, CallStep, callVars
  <1>2. "rasterizer" \in alive /\ "rasterizer" \notin alive' BY <1>1 DEF RasterGone
  <1>3. ~CallTouches BY <1>2, CallTouchesDelta
  <1>4. ~(SendStep(t) \/ InlineStep(t) \/ FrameStep(t) \/ StartTask(t) \/ CallSends
            \/ CallRuns \/ OnAnimatorDraw)
    BY <1>2, SendStepDelta, InlineDelta, FrameDelta, StartDelta, CallSendsDelta,
       CallRunsDelta, DrawDelta DEF objectVars
  <1>5. ~(SetStep(t) \/ PassStep(t) \/ DoStep(t) \/ CallWaits \/ CallSetsUp)
    BY <1>2 DEF SetStep, PassStep, DoStep, CallWaits, CallSetsUp, Sets, Passes, Has, objectVars
  <1>6. TouchStep(t) BY <1>3, <1>4, <1>5 DEF TaskStep, CallStep
  <1>7. Executes(t, Drop("rasterizer")) /\ UNCHANGED queue
    <2>1. \E x \in Objects : alive' = alive \ {x} /\ Executes(t, Drop(x))
      BY <1>2, <1>6, AliveTouchStep
    <2> QED BY <1>2, <1>6, <2>1, PlainDelta
  <1>8. /\ Elements(todo'[t]) = {Use("shell"), Signal("rasterizerDropped")}
        /\ Drop("rasterizer") \in Elements(todo[t])
        /\ \A u \in Runners : u # t => todo'[u] = todo[u]
    BY <1>7, DropTail
  <1>9. t = host["raster"] BY <1>8, StatementThread
  <1>10. ASSUME NEW u \in Runners, NEW a \in OldRaster PROVE a \notin Elements(queue'[u])
    <2>1. a \in TasksOf("raster") /\ "raster" \in Runners BY TaskTable DEF OldRaster, Runners
    <2>2. a \in Elements(queue[u]) => u = t BY <1>9, <2>1, TaskThread
    <2> QED BY <1>7, <1>8, <2>2 DEF Barriers
  <1>11. ASSUME NEW u \in Runners, NEW s \in {Do("setUp"), Signal("context")}
         PROVE  s \notin Elements(todo'[u])
    <2>1. CASE u = t BY <1>8, <2>1, StatementParts
    <2>2. CASE u # t BY <1>8, <1>9, <2>2, StatementThread
    <2> QED BY <2>1, <2>2
  <1>12. ASSUME NEW u \in Runners, todo'[u] = <<Use("shell")>> PROVE FALSE
    <2>0. Elements(todo'[u]) = {Use("shell")} BY <1>12, ShortElements
    <2>1. CASE u = t BY <1>8, <2>0, <2>1, StatementParts
    <2>2. CASE u # t
      <3>1. Elements(todo[u]) = {Use("shell")} BY <1>8, <2>0, <2>2
      <3>2. u = host["raster"] BY <3>1, StatementParts DEF ShellUse
      <3> QED BY <1>9, <2>2, <3>2
    <2> QED BY <2>1, <2>2
  <1> QED BY <1>10, <1>11, <1>12

LEMMA BarriersStep ==
  ASSUME Types, Homes, Shapes, Tokens, AliveAt(alive, call, place), ShellUse, Barriers,
         NEW t \in Runners, TaskStep(t) \/ StartTask(t) \/ CallStep \/ OnAnimatorDraw
  PROVE  Barriers'
  <1>1. ASSUME RasterGone'
        PROVE  /\ \A u \in Runners : \A a \in OldRaster : a \notin Elements(queue'[u])
               /\ \A u \in Runners : Do("setUp") \notin Elements(todo'[u])
               /\ \A u \in Runners : Signal("context") \notin Elements(todo'[u])
               /\ \A u \in Runners : todo'[u] # <<Use("shell")>>
    <2>1. CASE RasterGone BY <2>1, GoneKept
    <2>2. CASE ~RasterGone BY <1>1, <2>2, GoneBegun
    <2> QED BY <2>1, <2>2
  <1>2. OldRaster' = OldRaster BY DEF OldRaster
  <1> QED BY <1>1, <1>2, BarriersQueues DEF Barriers, Queued, Pending
-----------------------------------------------------------------------------
(* The surface is taken away behind the task that sets it up.              *)

LEMMA SurfacesQueues ==
  ASSUME Types, Homes, Shapes, Tokens, Barriers, Surfaces, NEW t \in Runners,
         TaskStep(t) \/ StartTask(t) \/ CallStep \/ OnAnimatorDraw
  PROVE  /\ \A u \in Runners : NoneBehind(queue'[u], "tearDown", {"setUpSurface"})
         /\ \A u \in Runners : Do("tearDown") \in Elements(todo'[u]) =>
              "setUpSurface" \notin Elements(queue'[u])
  <1> DEFINE new == "setUpSurface"
  <1>0. /\ \A u \in Runners : queue[u] \in Seq(Tasks)
        /\ \A u \in Runners : NoneBehind(queue[u], "tearDown", {new})
        /\ \A u \in Runners : Do("tearDown") \in Elements(todo[u]) =>
              new \notin Elements(queue[u])
        /\ new \notin Elements(queue["platform"])
    BY DEF Types, Surfaces, Barriers, OldRaster
  <1>1. Queued("tearDown") => call = "destroySurface" BY TaskWindows
  <1>2. \A u \in Runners : Do("tearDown") \in Elements(todo[u]) => call = "destroySurface"
    BY StatementWindows
  <1>3. \A u \in Runners :
           \/ queue'[u] = queue[u]
           \/ u = t /\ StartTask(t)
           \/ \E a \in Tasks :
                /\ queue'[u] = Append(queue[u], a)
                /\ Elements(queue'[u]) = Elements(queue[u]) \cup {a}
                /\ a = new => call = "createSurface"
    BY QueueGrows
  <1>4. StartTask(t) => /\ queue[t] # <<>> /\ queue'[t] = Tail(queue[t])
                        /\ Elements(queue'[t]) \subseteq Elements(queue[t])
                        /\ Head(queue[t]) \in Tasks
    BY StartDelta
  <1>5. ASSUME NEW u \in Runners PROVE NoneBehind(queue'[u], "tearDown", {new})
    <2>1. CASE queue'[u] = queue[u] BY <1>0, <2>1
    <2>2. CASE u = t /\ StartTask(t) BY <1>0, <1>4, <2>2, NoneBehindTail
    <2>3. ASSUME NEW a \in Tasks, queue'[u] = Append(queue[u], a),
                 a = new => call = "createSurface"
          PROVE  NoneBehind(queue'[u], "tearDown", {new})
      <3>1. a \in {new} => "tearDown" \notin Elements(queue[u])
        BY <1>1, <2>3 DEF Queued
      <3>2. NoneBehind(Append(queue[u], a), "tearDown", {new})
        BY <1>0, <3>1, NoneBehindAppend
      <3> QED BY <2>3, <3>2
    <2> QED BY <1>3, <2>1, <2>2, <2>3
  <1>6. ASSUME NEW u \in Runners, Do("tearDown") \in Elements(todo'[u])
        PROVE  new \notin Elements(queue'[u])
    <2>1. CASE Do("tearDown") \in Elements(todo[u])
      BY <1>0, <1>2, <1>3, <1>4, <2>1
    <2>2. CASE u = t /\ StartTask(t) /\ Do("tearDown") \in Elements(Body(Head(queue[t])))
      <3>1. Head(queue[t]) = "tearDown" BY <1>4, <2>2, BodyOf
      <3> QED BY <1>0, <1>4, <2>2, <3>1, NoneBehindTail
    <2>3. CASE u = "platform" /\ UNCHANGED queue BY <1>0, <2>3
    <2>4. Do("tearDown") \notin {Do("scheduleFrame"), Do("setUp"), Use("io"),
                                 Signal("surfaceDestroyed"), Do("clearWaiting"),
                                 Do("notify"), Use("rasterizer"), Post("draw", "raster")}
      BY StatementParts
    <2> QED BY <1>6, <2>1, <2>2, <2>3, <2>4, TodoGrows
  <1> QED BY <1>5, <1>6

LEMMA CallSame ==
  ASSUME Types, Shapes, NEW t \in Runners,
         TaskStep(t) \/ StartTask(t) \/ CallStep \/ OnAnimatorDraw
  PROVE  UNCHANGED <<host, call, changes>> /\ (~CallStep => UNCHANGED place)
  BY SendStepDelta, InlineDelta, PlainDelta, FrameDelta, StartDelta, CallSendsDelta,
     CallRunsDelta, PlainCallDelta, DrawDelta DEF TaskStep, CallStep, callVars

\* Without a task to set it up there is no surface.
LEMMA NoSurfaceKept ==
  ASSUME Types, Homes, Shapes, Tokens, NoSurface, call # "createSurface", NEW t \in Runners,
         TaskStep(t) \/ StartTask(t) \/ CallStep \/ OnAnimatorDraw
  PROVE  NoSurface'
  <1>0. /\ ~surface /\ \A u \in Runners : "setUpSurface" \notin Elements(queue[u])
        /\ \A u \in Runners : Do("setUp") \notin Elements(todo[u])
    BY DEF NoSurface, Queued, Pending
  <1>1. ~surface'
    <2>1. CASE TouchStep(t) \/ CallTouches
      BY <1>0, <2>1 DEF TouchStep, CallTouches, Touches
    <2>2. CASE DoStep(t)
      <3>1. PICK e : Executes(t, Do(e)) /\ Has(e) BY <2>2 DEF DoStep
      <3>2. e # "setUp" BY <1>0, <3>1, ExecutesDelta
      <3> QED BY <1>0, <3>1, <3>2 DEF Has
    <2>3. CASE SetStep(t) \/ PassStep(t) \/ CallWaits
      BY <1>0, <2>3 DEF SetStep, PassStep, CallWaits, Sets, Passes, frameVars
    <2>4. CASE SendStep(t) \/ InlineStep(t) \/ FrameStep(t) \/ StartTask(t) \/ CallSends
                 \/ CallRuns \/ OnAnimatorDraw
      BY <1>0, <2>4, SendStepDelta, InlineDelta, FrameDelta, StartDelta, CallSendsDelta,
         CallRunsDelta, DrawDelta DEF frameVars
    <2>5. ~CallSetsUp BY DEF CallSetsUp
    <2> QED BY <2>1, <2>2, <2>3, <2>4, <2>5 DEF TaskStep, CallStep
  <1>2. StartTask(t) => /\ Elements(queue'[t]) \subseteq Elements(queue[t])
                        /\ Head(queue[t]) \in Tasks /\ Head(queue[t]) # "setUpSurface"
    BY <1>0, StartDelta
  <1>3. \A u \in Runners : "setUpSurface" \notin Elements(queue'[u])
    BY <1>0, <1>2, QueueGrows
  <1>4. ASSUME NEW u \in Runners, Do("setUp") \in Elements(todo'[u]) PROVE FALSE
    <2>1. CASE StartTask(t) /\ Do("setUp") \in Elements(Body(Head(queue[t])))
      BY <1>2, <2>1, BodyOf
    <2>2. ASSUME NEW a \in Tasks, NEW r, RunAt(call, place, a, r), todo'[u] = Body(a)
          PROVE  FALSE
      BY <1>4, <2>2, BodyOf DEF RunAt
    <2>3. Do("setUp") \notin {Use("io"), Signal("surfaceDestroyed"), Do("clearWaiting"),
                              Do("notify"), Use("rasterizer"), Post("draw", "raster")}
      BY StatementParts
    <2> QED BY <1>0, <1>4, <2>1, <2>2, <2>3, TodoGrows
  <1> QED BY <1>1, <1>3, <1>4 DEF NoSurface, Queued, Pending

\* When nothing is left to tear down, the surface is gone.
LEMMA TornDown ==
  ASSUME Types, Homes, Shapes, Tokens, Surfaces, Tearing, ~Tearing', NEW t \in Runners,
         TaskStep(t) \/ StartTask(t) \/ CallStep \/ OnAnimatorDraw
  PROVE  NoSurface'
  <1>0. /\ UNCHANGED <<host, call>> /\ call = "destroySurface" /\ call' = "destroySurface"
        /\ (~CallStep => UNCHANGED place)
        /\ place \in Int
    BY CallSame, ProgramLength DEF Tearing, Types
  <1>1. /\ ~(place' <= 2)
        /\ \A u \in Runners : "tearDown" \notin Elements(queue'[u])
        /\ \A u \in Runners : Do("tearDown") \notin Elements(todo'[u])
    BY <1>0 DEF Tearing, Queued, Pending
  <1>2. ~(place <= 2)
    <2>1. SUFFICES ASSUME place <= 2 PROVE FALSE OBVIOUS
    <2>2. CallStep BY <1>0, <1>1, <2>1
    <2>3. place' = place + 1 /\ place = 2
      <3>1. place' = place + 1
        BY <2>2 DEF CallStep, CallSends, CallRuns, CallWaits, CallTouches, CallSetsUp, Proceeds
      <3> QED BY <1>0, <1>1, <2>1, <3>1
    <2>4. ~(CallWaits \/ CallTouches \/ CallSetsUp)
      BY <1>0, <2>3 DEF CallWaits, CallTouches, CallSetsUp, WaitAt, UseAt
    <2>5. CASE CallSends
      <3>1. PICK a \in Tasks, r \in Runners :
              Sends(r, a) /\ (RunAt(call, place, a, r) \/ call = "create")
        BY <2>5, CallSendsDelta
      <3>2. a = "tearDown" BY <1>0, <2>3, <3>1 DEF RunAt
      <3>3. Elements(queue'[host[r]]) = Elements(queue[host[r]]) \cup {a} /\ host[r] \in Runners
        BY <3>1, SendsDelta
      <3> QED BY <1>1, <3>2, <3>3
    <2>6. CASE CallRuns
      <3>1. PICK a \in Tasks, r \in Runners :
              RunAt(call, place, a, r) /\ todo'["platform"] = Body(a)
        BY <2>6, CallRunsDelta
      <3>2. a = "tearDown" BY <1>0, <2>3, <3>1 DEF RunAt
      <3>3. Do("tearDown") \in Elements(todo'["platform"]) BY <3>1, <3>2, BodyTable
      <3> QED BY <1>1, <3>3 DEF Runners
    <2> QED BY <2>2, <2>4, <2>5, <2>6 DEF CallStep
  <1>3. ~Queued("tearDown")
    <2>1. SUFFICES ASSUME NEW u \in Runners, "tearDown" \in Elements(queue[u]) PROVE FALSE
      BY DEF Queued
    <2>2. u = t /\ StartTask(t) BY <1>1, <2>1, QueueGrows
    <2>3. /\ Elements(queue[t]) = {Head(queue[t])} \cup Elements(queue'[t])
          /\ todo'[t] = Body(Head(queue[t]))
      BY <2>2, StartDelta
    <2>4. todo'[t] = Body("tearDown") BY <1>1, <2>1, <2>2, <2>3
    <2>5. Do("tearDown") \in Elements(todo'[t]) BY <2>4, BodyTable
    <2> QED BY <1>1, <2>5
  <1>4. PICK v \in Runners : Do("tearDown") \in Elements(todo[v])
    BY <1>2, <1>3 DEF Tearing, Pending
  <1>5. todo[v] # <<>> /\ todo'[v] # todo[v] BY <1>1, <1>4, NilElements
  <1>6. v = t /\ DoStep(t) /\ Executes(t, Do("tearDown")) /\ Has("tearDown")
    <2>1. ASSUME NEW s, Executes(t, s) PROVE v = t /\ s = Do("tearDown")
      <3>1. /\ \A u \in Runners : u # t => todo'[u] = todo[u]
            /\ Elements(todo[t]) = {s} \cup Elements(todo'[t])
        BY <2>1, ExecutesDelta
      <3> QED BY <1>1, <1>4, <1>5, <3>1
    <2>2. CASE SendStep(t) \/ SetStep(t) \/ PassStep(t) \/ TouchStep(t)
      <3>1. PICK s : Executes(t, s) /\ \A e : s # Do(e)
        <4>1. CASE SendStep(t)
          <5>1. PICK a \in Tasks, r \in Runners, s \in Statements :
                  Executes(t, s) /\ (s = Run(a, r) \/ s = Post(a, r))
            BY <4>1, SendStepDelta
          <5> QED BY <5>1, StatementParts
        <4>2. CASE SetStep(t) \/ PassStep(t) \/ TouchStep(t)
          BY <4>2, StatementParts DEF SetStep, PassStep, TouchStep
        <4> QED BY <2>2, <4>1, <4>2
      <3> QED BY <2>1, <3>1
    <2>3. CASE DoStep(t)
      <3>1. PICK e : Executes(t, Do(e)) /\ Has(e) BY <2>3 DEF DoStep
      <3>2. v = t /\ Do(e) = Do("tearDown") BY <2>1, <3>1
      <3>3. e = "tearDown" BY <3>2, StatementParts
      <3> QED BY <2>3, <3>1, <3>2, <3>3
    <2>4. CASE InlineStep(t)
      <3>1. PICK a \in Tasks, r \in Runners :
             /\ \/ a = "drainIO" /\ r = "io" /\ Tail(todo[t]) = <<>>
                \/ a = "scheduleFrame" /\ r = "ui"
                \/ a = "setUpSurface" /\ r = "raster"
             /\ a \in TasksOf(r)
             /\ \A u \in Runners : u # t => todo'[u] = todo[u]
             /\ Elements(todo[t]) = {Run(a, r)} \cup Elements(Tail(todo[t]))
             /\ Elements(Tail(todo[t])) \subseteq AfterRun
        BY <2>4, InlineDelta
      <3>2. Do("tearDown") \notin AfterRun /\ Do("tearDown") # Run(a, r)
        BY StatementParts DEF AfterRun
      <3> QED BY <1>4, <1>5, <3>1, <3>2
    <2>5. CASE FrameStep(t)
      <3>1. /\ \A u \in Runners : u # t => todo'[u] = todo[u]
            /\ Elements(todo[t]) = {Do("testWaiting")}
        BY <2>5, FrameDelta
      <3>2. Do("tearDown") # Do("testWaiting") BY StatementParts
      <3> QED BY <1>4, <1>5, <3>1, <3>2
    <2>6. CASE StartTask(t) BY <1>5, <2>6, StartDelta
    <2>7. CASE OnAnimatorDraw BY <1>5, <2>7, DrawDelta
    <2>8. CASE CallRuns BY <1>5, <2>8, CallRunsDelta
    <2>9. CASE UNCHANGED todo BY <1>5, <2>9
    <2> QED BY <2>2, <2>3, <2>4, <2>5, <2>6, <2>7, <2>8, <2>9, CallSendsDelta, PlainCallDelta
               DEF TaskStep, CallStep
  <1>7. ~surface' BY <1>6 DEF Has
  <1>8. UNCHANGED queue BY <1>6, PlainDelta
  <1>9. t = host["raster"] /\ "setUpSurface" \notin Elements(queue[t])
    BY <1>4, <1>6, StatementThread DEF Surfaces
  <1>10. \A u \in Runners : "setUpSurface" \notin Elements(queue'[u])
    <2>1. "setUpSurface" \in TasksOf("raster") /\ "raster" \in Runners BY TaskTable DEF Runners
    <2> QED BY <1>8, <1>9, <2>1, TaskThread
  <1>11. /\ \A u \in Runners : u # t => todo'[u] = todo[u]
         /\ Elements(todo'[t]) = {Run("drainIO", "io")}
    <2>1. Whole(todo[t]) BY DEF Shapes, Shape
    <2>2. todo[t] = <<Do("tearDown"), Run("drainIO", "io")>> BY <1>4, <1>6, <2>1 DEF Whole
    <2>3. todo'[t] = Tail(todo[t]) /\ \A u \in Runners : u # t => todo'[u] = todo[u]
      BY <1>6, ExecutesDelta
    <2>4. todo'[t] = <<Run("drainIO", "io")>> BY <2>2, <2>3
    <2> QED BY <2>3, <2>4, ShortElements
  <1>12. ASSUME NEW u \in Runners PROVE Do("setUp") \notin Elements(todo'[u])
    <2>1. CASE u = t BY <1>11, <2>1, StatementParts
    <2>2. CASE u # t BY <1>9, <1>11, <2>2, StatementThread
    <2> QED BY <2>1, <2>2
  <1> QED BY <1>7, <1>10, <1>12 DEF NoSurface, Queued, Pending

LEMMA SurfacesStep ==
  ASSUME Types, Homes, Shapes, Tokens, Barriers, Surfaces, NEW t \in Runners,
         TaskStep(t) \/ StartTask(t) \/ CallStep \/ OnAnimatorDraw
  PROVE  Surfaces'
  <1>1. UNCHANGED <<call, changes>> BY CallSame
  <1>2. ASSUME changes % 2 = 0, ~Tearing' PROVE NoSurface'
    <2>1. CASE Tearing BY <1>2, <2>1, TornDown
    <2>2. CASE ~Tearing
      <3>1. NoSurface /\ call # "createSurface" BY <1>2, <2>2 DEF Surfaces
      <3> QED BY <3>1, NoSurfaceKept
    <2> QED BY <2>1, <2>2
  <1>3. /\ \A u \in Runners : NoneBehind(queue'[u], "tearDown", {"setUpSurface"})
        /\ \A u \in Runners : Do("tearDown") \in Elements(todo'[u]) =>
             "setUpSurface" \notin Elements(queue'[u])
    BY SurfacesQueues
  <1>4. /\ call' = "createSurface" => changes' % 2 = 1
        /\ call' = "destroySurface" => changes' % 2 = 0
        /\ changes' % 2 = 0 /\ ~Tearing' => NoSurface'
    BY <1>1, <1>2 DEF Surfaces
  <1> QED BY <1>3, <1>4 DEF Surfaces
-----------------------------------------------------------------------------
(* The first frame, and who waits for it.                                  *)

LEMMA NoFramesYet ==
  ASSUME Types, Homes, Shapes, Tokens, call \in {"unborn", "create"}, ~wantsFrame,
         ~Queued("scheduleFrame"), ~Pending(Do("scheduleFrame")), NEW t \in Runners,
         TaskStep(t) \/ StartTask(t) \/ CallStep \/ OnAnimatorDraw
  PROVE  ~wantsFrame' /\ ~Queued("scheduleFrame")' /\ ~Pending(Do("scheduleFrame"))'
  <1>0. /\ \A u \in Runners : "scheduleFrame" \notin Elements(queue[u])
        /\ \A u \in Runners : Do("scheduleFrame") \notin Elements(todo[u])
    BY DEF Queued, Pending
  <1>1. ~wantsFrame'
    <2>1. CASE TouchStep(t) \/ CallTouches
      BY <2>1 DEF TouchStep, CallTouches, Touches
    <2>2. CASE DoStep(t)
      <3>1. PICK e : Executes(t, Do(e)) /\ Has(e) BY <2>2 DEF DoStep
      <3>2. e # "scheduleFrame" BY <1>0, <3>1, ExecutesDelta
      <3> QED BY <3>1, <3>2 DEF Has
    <2>3. CASE SetStep(t) \/ PassStep(t) \/ CallWaits
      BY <2>3 DEF SetStep, PassStep, CallWaits, Sets, Passes, frameVars
    <2>4. CASE SendStep(t) \/ InlineStep(t) \/ FrameStep(t) \/ StartTask(t) \/ CallSends
                 \/ CallRuns
      BY <2>4, SendStepDelta, InlineDelta, FrameDelta, StartDelta, CallSendsDelta,
         CallRunsDelta DEF frameVars
    <2>5. ~CallSetsUp /\ ~OnAnimatorDraw BY DEF CallSetsUp, OnAnimatorDraw
    <2> QED BY <2>1, <2>2, <2>3, <2>4, <2>5 DEF TaskStep, CallStep
  <1>2. StartTask(t) => /\ Elements(queue'[t]) \subseteq Elements(queue[t])
                        /\ Head(queue[t]) \in Tasks /\ Head(queue[t]) # "scheduleFrame"
    BY <1>0, StartDelta
  <1>3. \A u \in Runners : "scheduleFrame" \notin Elements(queue'[u])
    BY <1>0, <1>2, QueueGrows
  <1>4. ASSUME NEW u \in Runners, Do("scheduleFrame") \in Elements(todo'[u]) PROVE FALSE
    <2>1. CASE StartTask(t) /\ Do("scheduleFrame") \in Elements(Body(Head(queue[t])))
      BY <1>2, <2>1, BodyOf
    <2>2. ASSUME NEW a \in Tasks, NEW r, RunAt(call, place, a, r), todo'[u] = Body(a)
          PROVE  FALSE
      BY <1>4, <2>2, BodyOf DEF RunAt
    <2>3. Do("scheduleFrame") \notin
            {Use("io"), Signal("surfaceDestroyed"), Do("clearWaiting"),
             Do("notify"), Use("rasterizer"), Post("draw", "raster")}
      BY StatementParts
    <2> QED BY <1>0, <1>4, <2>1, <2>2, <2>3, TodoGrows
  <1> QED BY <1>1, <1>3, <1>4 DEF Queued, Pending

\* A notification is given, or remains to be given.
LEMMA NotifyKept ==
  ASSUME Types, Homes, Shapes, NEW t \in Runners,
         TaskStep(t) \/ StartTask(t) \/ CallStep \/ OnAnimatorDraw,
         NEW u \in Runners, todo[u] # <<>>, Head(todo[u]) = Do("notify")
  PROVE  \/ todo'[u] = todo[u]
         \/ Executes(t, Do("notify")) /\ Has("notify")
  <1>0. SUFFICES ASSUME todo'[u] # todo[u]
                 PROVE  Executes(t, Do("notify")) /\ Has("notify")
    OBVIOUS
  <1>1. ASSUME NEW s, Executes(t, s) PROVE u = t /\ s = Do("notify")
    <2>1. /\ \A v \in Runners : v # t => todo'[v] = todo[v]
          /\ Head(todo[t]) = s
      BY <1>1, ExecutesDelta
    <2> QED BY <1>0, <2>1
  <1>2. CASE SendStep(t) \/ SetStep(t) \/ PassStep(t) \/ TouchStep(t)
    <2>1. PICK s : Executes(t, s) /\ \A e : s # Do(e)
      <3>1. CASE SendStep(t)
        <4>1. PICK a \in Tasks, r \in Runners, s \in Statements :
                Executes(t, s) /\ (s = Run(a, r) \/ s = Post(a, r))
          BY <3>1, SendStepDelta
        <4> QED BY <4>1, StatementParts
      <3>2. CASE SetStep(t) \/ PassStep(t) \/ TouchStep(t)
        BY <3>2, StatementParts DEF SetStep, PassStep, TouchStep
      <3> QED BY <1>2, <3>1, <3>2
    <2> QED BY <1>1, <2>1
  <1>3. CASE DoStep(t)
    <2>1. PICK e : Executes(t, Do(e)) /\ Has(e) BY <1>3 DEF DoStep
    <2>2. Do(e) = Do("notify") BY <1>1, <2>1
    <2>3. e = "notify" BY <2>2, StatementParts
    <2> QED BY <2>1, <2>3
  <1>4. CASE InlineStep(t)
    <2>1. PICK a \in Tasks, r \in Runners :
            Head(todo[t]) = Run(a, r) /\ Begins(t, Body(a) \o Tail(todo[t]))
      BY <1>4 DEF InlineStep
    <2>2. u # t BY <2>1, StatementParts
    <2>3. todo'[u] = todo[u] BY <2>1, <2>2 DEF Begins, Types
    <2> QED BY <1>0, <2>3
  <1>5. CASE FrameStep(t)
    <2>1. Head(todo[t]) = Do("testWaiting") BY <1>5 DEF FrameStep
    <2>2. u # t BY <2>1, StatementParts
    <2>3. todo'[u] = todo[u] BY <1>5, <2>2, FrameDelta
    <2> QED BY <1>0, <2>3
  <1>6. CASE StartTask(t) BY <1>0, <1>6, StartDelta
  <1>7. CASE OnAnimatorDraw BY <1>0, <1>7, DrawDelta
  <1>8. CASE CallRuns BY <1>0, <1>8, CallRunsDelta
  <1>9. CASE CallSends \/ CallWaits \/ CallTouches \/ CallSetsUp
    BY <1>0, <1>9, CallSendsDelta, PlainCallDelta
  <1> QED BY <1>2, <1>3, <1>4, <1>5, <1>6, <1>7, <1>8, <1>9 DEF TaskStep, CallStep

\* The variables of the waiter are changed by statements for the first frame only.
LEMMA WaitSteps ==
  ASSUME Types, Shapes, NEW t \in Runners,
         TaskStep(t) \/ StartTask(t) \/ CallStep \/ OnAnimatorDraw
  PROVE  \/ UNCHANGED waitVars
         \/ Has("setUp")
         \/ \E e : Executes(t, Do(e)) /\ Has(e)
  BY SendStepDelta, InlineDelta, FrameDelta, StartDelta, CallSendsDelta, CallRunsDelta, DrawDelta
     DEF TaskStep, CallStep, SetStep, PassStep, TouchStep, DoStep, CallWaits, CallTouches,
         CallSetsUp, Sets, Passes, Touches

LEMMA FramesStep ==
  ASSUME Types, Homes, Shapes, Tokens, Frames, NEW t \in Runners,
         TaskStep(t) \/ StartTask(t) \/ CallStep \/ OnAnimatorDraw
  PROVE  Frames'
  <1>1. call' = call BY CallSame
  <1>2. ASSUME call \in {"unborn", "create"}
        PROVE  ~wantsFrame' /\ ~Queued("scheduleFrame")' /\ ~Pending(Do("scheduleFrame"))'
    BY <1>2, NoFramesYet DEF Frames
  <1>3. ASSUME waiter' \in {"checked", "asleep"}, ~waiting'
        PROVE  missed' \/ \E u \in Runners : todo'[u] # <<>> /\ Head(todo'[u]) = Do("notify")
    <2>1. /\ waiter' = waiter /\ (missed => missed')
          /\ waiting => Executes(t, Do("clearWaiting"))
          /\ Has("notify") => missed'
      <3>1. waiter' = waiter /\ (missed => missed') /\ (Has("notify") => missed')
        BY <1>3, WaitSteps DEF Has, waitVars
      <3>2. waiting => Executes(t, Do("clearWaiting"))
        BY <1>3, WaitSteps DEF Has, waitVars
      <3> QED BY <3>1, <3>2
    <2>2. CASE waiting
      <3>1. Whole(todo[t]) BY DEF Shapes, Shape
      <3>2. /\ Do("clearWaiting") \in Elements(todo[t]) /\ todo'[t] = Tail(todo[t])
        BY <2>1, <2>2, ExecutesDelta
      <3>3. todo[t] = <<Do("clearWaiting"), Do("notify")>> BY <3>1, <3>2 DEF Whole
      <3>4. todo'[t] = <<Do("notify")>> BY <3>2, <3>3
      <3> QED BY <3>4
    <2>3. CASE ~waiting
      <3>1. missed \/ \E u \in Runners : todo[u] # <<>> /\ Head(todo[u]) = Do("notify")
        BY <1>3, <2>1, <2>3 DEF Frames
      <3>2. ASSUME NEW u \in Runners, todo[u] # <<>>, Head(todo[u]) = Do("notify")
            PROVE  missed' \/ \E v \in Runners : todo'[v] # <<>> /\ Head(todo'[v]) = Do("notify")
        BY <2>1, <3>2, NotifyKept
      <3> QED BY <2>1, <3>1, <3>2
    <2> QED BY <2>2, <2>3
  <1> QED BY <1>1, <1>2, <1>3 DEF Frames
-----------------------------------------------------------------------------
(* What there is while a shell is created.                                 *)

LEMMA PromisingTail ==
  ASSUME NEW q \in Seq(Statements), q # <<>>, Shape(q), Promising(q)
  PROVE  Promising(Tail(q))
  <1>0. /\ Elements(q) = {Head(q)} \cup Elements(Tail(q)) BY TailElements
  <1>1. Signal("snapshots") \in Elements(Tail(q)) => Signal("rasterizerMade") \in Elements(Tail(q))
    <2>1. Head(q) = Signal("rasterizerMade") => Elements(Tail(q)) = {}
      BY LastAlone, NilElements DEF Lasts
    <2> QED BY <1>0, <2>1 DEF Promising
  <1>2. ASSUME NEW l \in {"weakIo", "unrefQueue"}, Signal(l) \in Elements(Tail(q))
        PROVE  Tail(q) \in IOBegun
    <2>1. q \in IOBegun BY <1>0, <1>2 DEF Promising
    <2>2. CASE q = <<Make("io"), Signal("weakIo"), Signal("unrefQueue"), Signal("ioMade"),
                     Wait("context"), Use("view")>>
      BY <2>2 DEF IOBegun
    <2>3. CASE q = <<Signal("weakIo"), Signal("unrefQueue"), Signal("ioMade"),
                     Wait("context"), Use("view")>>
      BY <2>3 DEF IOBegun
    <2>4. CASE q = <<Signal("unrefQueue"), Signal("ioMade"), Wait("context"), Use("view")>>
      <3>1. Tail(q) = <<Signal("ioMade"), Wait("context"), Use("view")>> BY <2>4
      <3>2. Elements(<<Signal("ioMade"), Wait("context"), Use("view")>>)
              = {Signal("ioMade"), Wait("context"), Use("view")}
        BY ShortElements
      <3>3. /\ Signal(l).do = "signal" /\ Signal(l).what = l
            /\ Signal("ioMade").what = "ioMade"
            /\ Wait("context").do = "wait" /\ Use("view").do = "use"
        BY StatementParts
      <3>4. Signal(l) \notin {Signal("ioMade"), Wait("context"), Use("view")} BY <1>2, <3>3
      <3> QED BY <1>2, <3>1, <3>2, <3>4
    <2> QED BY <2>1, <2>2, <2>3, <2>4 DEF IOBegun
  <1> QED BY <1>1, <1>2 DEF Promising

LEMMA NewBody ==
  ASSUME NEW a \in NewTasks
  PROVE  Elements(Body(a)) \subseteq NewStatements /\ Promising(Body(a))
  <1>1. Elements(Body(a)) \subseteq NewStatements BY BodyTable DEF NewTasks, NewStatements
  <1>2. Promising(Body(a))
    <2>1. CASE a = "makeIOManager"
      <3>1. Body(a) \in IOBegun BY <2>1 DEF Body, IOBegun
      <3>2. Signal("snapshots") \notin Elements(Body(a)) BY <2>1, BodyTable, StatementParts
      <3> QED BY <3>1, <3>2 DEF Promising
    <2>2. CASE a # "makeIOManager"
      BY <2>2, BodyTable, StatementParts DEF NewTasks, Promising
    <2> QED BY <2>1, <2>2
  <1> QED BY <1>1, <1>2

LEMMA YoungStep ==
  ASSUME Types, Homes, Shapes, Frames, Young, NEW t \in Runners,
         TaskStep(t) \/ StartTask(t) \/ CallStep \/ OnAnimatorDraw
  PROVE  Young'
  <1>0. call' = call BY CallSame
  <1> SUFFICES ASSUME call \in {"unborn", "create"}
               PROVE  /\ waiter' = "none"
                      /\ \A u \in Runners : /\ Elements(queue'[u]) \subseteq NewTasks
                                            /\ Elements(todo'[u]) \subseteq NewStatements
                                            /\ Promising(todo'[u])
    BY <1>0 DEF Young
  <1>1. /\ waiter = "none"
        /\ \A u \in Runners : /\ Elements(queue[u]) \subseteq NewTasks
                              /\ Elements(todo[u]) \subseteq NewStatements
                              /\ Promising(todo[u])
    BY DEF Young
  <1>2. /\ \A a, r : Run(a, r) \notin NewStatements /\ Post(a, r) \notin NewStatements
        /\ \A e : Do(e) \notin NewStatements
    BY StatementParts DEF NewStatements
  <1>3. ASSUME NEW a, NEW r, RunAt(call, place, a, r) PROVE a \in NewTasks
    BY <1>3 DEF RunAt, NewTasks
  <1>4. CASE SetStep(t) \/ PassStep(t) \/ TouchStep(t)
    <2>1. PICK s : Executes(t, s) BY <1>4, PlainDelta
    <2>2. /\ \A u \in Runners : u # t => todo'[u] = todo[u]
          /\ todo[t] \in Seq(Statements) /\ todo[t] # <<>> /\ todo'[t] = Tail(todo[t])
          /\ \A u \in Runners : Elements(todo'[u]) \subseteq Elements(todo[u])
      BY <2>1, ExecutesDelta
    <2>3. Promising(todo'[t]) BY <1>1, <2>2, PromisingTail DEF Shapes
    <2>4. UNCHANGED <<queue, waiter>>
      BY <1>4 DEF SetStep, PassStep, TouchStep, Sets, Passes, Touches, waitVars
    <2> QED BY <1>1, <2>2, <2>3, <2>4
  <1>5. ~SendStep(t)
    <2> SUFFICES ASSUME SendStep(t) PROVE FALSE OBVIOUS
    <2>1. PICK a, r, s : Executes(t, s) /\ s \in {Run(a, r), Post(a, r)}
      BY SendStepDelta
    <2> QED BY <1>1, <1>2, <2>1, ExecutesDelta
  <1>6. ~InlineStep(t) BY <1>1, <1>2, InlineDelta
  <1>7. ~DoStep(t)
    <2> SUFFICES ASSUME DoStep(t) PROVE FALSE OBVIOUS
    <2>1. PICK e : Executes(t, Do(e)) BY DEF DoStep
    <2> QED BY <1>1, <1>2, <2>1, ExecutesDelta
  <1>8. ~FrameStep(t) BY <1>1, <1>2, FrameDelta
  <1>9. ~OnAnimatorDraw /\ ~CallSetsUp BY DEF OnAnimatorDraw, Frames, CallSetsUp
  <1>10. CASE StartTask(t)
    <2>1. /\ \A u \in Runners : u # t => queue'[u] = queue[u] /\ todo'[u] = todo[u]
          /\ Head(queue[t]) \in Elements(queue[t])
          /\ Elements(queue'[t]) \subseteq Elements(queue[t])
          /\ todo'[t] = Body(Head(queue[t])) /\ waiter' = waiter
      BY <1>10, StartDelta DEF waitVars
    <2>2. Head(queue[t]) \in NewTasks BY <1>1, <2>1
    <2> QED BY <1>1, <2>1, <2>2, NewBody
  <1>11. CASE CallRuns
    <2>1. PICK a, r : /\ RunAt(call, place, a, r) /\ todo'["platform"] = Body(a)
                      /\ \A u \in Runners : u # "platform" => todo'[u] = todo[u]
                      /\ UNCHANGED <<queue, waiter>>
      BY <1>11, CallRunsDelta DEF waitVars
    <2>2. a \in NewTasks BY <1>3, <2>1
    <2> QED BY <1>1, <2>1, <2>2, NewBody
  <1>12. CASE CallSends
    <2>1. PICK a \in Tasks, r \in Runners :
           /\ Sends(r, a) /\ UNCHANGED <<todo, waiter>>
           /\ RunAt(call, place, a, r) \/ a = "stopRouting"
      BY <1>12, CallSendsDelta DEF waitVars
    <2>2. a \in NewTasks BY <1>3, <2>1 DEF NewTasks
    <2>3. \A u \in Runners : \A b \in Elements(queue'[u]) : b \in Elements(queue[u]) \/ b = a
      BY <2>1, SendsElements
    <2> QED BY <1>1, <2>1, <2>2, <2>3
  <1>13. CASE CallWaits \/ CallTouches
    <2>1. UNCHANGED <<queue, todo>> BY <1>13, PlainCallDelta
    <2>2. waiter' = waiter
      BY <1>13 DEF CallWaits, CallTouches, Passes, Touches, waitVars
    <2> QED BY <1>1, <2>1, <2>2
  <1> QED BY <1>4, <1>5, <1>6, <1>7, <1>8, <1>9, <1>10, <1>11, <1>12, <1>13
      DEF TaskStep, CallStep
-----------------------------------------------------------------------------
(* The calls of the embedder, and the thread that waits.                   *)

\* What the invariant says of the threads and the objects, whatever the call.
ThreadInv == /\ Homes /\ Shapes /\ Effects /\ Claims /\ NothingMisused
             /\ ViewUse /\ ShellUse

LEMMA ThreadInvSame ==
  ASSUME ThreadInv, UNCHANGED <<host, queue, todo, signalled, alive, misused>>
  PROVE  ThreadInv'
  <1>1. Homes' BY DEF ThreadInv, Homes
  <1>2. Shapes' BY DEF ThreadInv, Shapes, PostsRasterTask
  <1>3. Effects' BY DEF ThreadInv, Effects, MadeBy, DroppedBy
  <1>4. Claims' BY DEF ThreadInv, Claims
  <1>5. NothingMisused' BY DEF ThreadInv, NothingMisused
  <1>6. ViewUse' BY DEF ThreadInv, ViewUse
  <1>7. ShellUse' BY DEF ThreadInv, ShellUse
  <1> QED BY <1>1, <1>2, <1>3, <1>4, <1>5, <1>6, <1>7 DEF ThreadInv

\* Between calls, and where a call begins or ends, it waits for no task.
LEMMA TokensCall ==
  ASSUME Tokens, UNCHANGED <<queue, todo, signalled>>,
         \A a \in Awaited : ~InWindow(a, call, place)
  PROVE  Tokens'
  <1>1. ASSUME NEW a \in Awaited
        PROVE  /\ Queued(a)' => Queued(a)
               /\ Pending(EndOf(a))' => Pending(EndOf(a))
               /\ LatchOf(a) \in signalled' => LatchOf(a) \in signalled
    BY DEF Queued, Pending
  <1>2. ASSUME NEW a \in Awaited, Started(a)' PROVE InWindow(a, call', place')
    <2>1. Started(a) BY <1>1, <1>2 DEF Started
    <2> QED BY <2>1 DEF Tokens
  <1>3. \A a \in Awaited : \A t \in Runners : Once(queue'[t], a) BY DEF Tokens
  <1> QED BY <1>1, <1>2, <1>3, TokensKept

LEMMA BeginKeeps ==
  ASSUME Inv, NEW name \in Calls, Begin(name), name # "create" => IsSetUp,
         changes' \in 0..MaxChanges + 1, changes' % 2 = 1 => changes' <= MaxChanges,
         \/ name = "createSurface" /\ changes' % 2 = 1
         \/ name = "destroySurface" /\ changes' % 2 = 0
         \/ name \in {"create", "screenshot", "destroy"} /\ changes' = changes
  PROVE  Inv'
  <1>0. /\ UNCHANGED <<host, queue, todo, signalled, alive, misused, surface, wantsFrame,
                       frames, waiting, waiter, missed>>
        /\ call \in {"unborn", "none"} /\ call' = name /\ place' = place
        /\ call = "unborn" <=> name = "create"
    BY DEF Begin, threadVars, objectVars, frameVars, waitVars
  <1>1. place = 1
    <2>1. Len(Program(call)) = 0 BY <1>0, ProgramTable
    <2> QED BY <2>1 DEF Inv, Types
  <1>2. alive = IF name = "create" THEN {} ELSE Objects
    <2>1. name = "create" => alive = {} BY <1>0 DEF Inv, AliveAt
    <2>2. name # "create" => alive = Objects BY <1>0 DEF Inv, AliveAt, IsSetUp
    <2> QED BY <2>1, <2>2
  <1>3. Types'
    <2>1. Program(call)' = Program(name) BY <1>0 DEF Program, Failures, CreateSurface, PostsRasterTask
    <2>2. Len(Program(name)) \in Nat BY ProgramTable DEF Calls
    <2>3. (place \in 1..Len(Program(call)) + 1)' BY <1>0, <1>1, <2>1, <2>2
    <2> QED BY <1>0, <2>3 DEF Inv, Types
  <1>4. ThreadInv' BY <1>0, ThreadInvSame DEF Inv, ThreadInv
  <1>5. Tokens'
    <2>1. \A a \in Awaited : ~InWindow(a, call, 1) BY UseWindows
    <2> QED BY <1>0, <1>1, <2>1, TokensCall DEF Inv
  <1>6. AliveAt(alive', call', place')
    BY <1>0, <1>1, <1>2 DEF AliveAt, Objects, Calls
  <1>7. Barriers'
    <2>1. ~RasterGone'
      BY <1>0, <1>2 DEF RasterGone, Objects
    <2> QED BY <1>0, <2>1 DEF Inv, Barriers
  <1>8. Surfaces'
    <2>1. ~Tearing BY <1>0 DEF Tearing
    <2>2. NoSurface' <=> NoSurface BY <1>0 DEF NoSurface, Queued, Pending
    <2>3. name = "destroySurface" => Tearing' BY <1>0, <1>1 DEF Tearing
    <2>4. changes' % 2 = 0 /\ ~Tearing' => NoSurface'
      <3>1. CASE name = "createSurface"
        <4>1. changes' % 2 = 1 BY <3>1
        <4>2. 1 # 0 OBVIOUS
        <4> QED BY <4>1, <4>2, Zenon
      <3>2. CASE name = "destroySurface" BY <3>2, <2>3
      <3>3. CASE name \in {"create", "screenshot", "destroy"}
        <4>1. changes' = changes BY <3>3
        <4> QED BY <4>1, <2>1, <2>2 DEF Inv, Surfaces
      <3> QED BY <3>1, <3>2, <3>3 DEF Calls
    <2>5. /\ call' = "createSurface" => changes' % 2 = 1
          /\ call' = "destroySurface" => changes' % 2 = 0
      BY <1>0
    <2> QED BY <1>0, <2>4, <2>5 DEF Inv, Surfaces
  <1>9. Frames'
    <2>1. call' \in {"unborn", "create"} => call \in {"unborn", "create"} BY <1>0 DEF Calls
    <2> QED BY <1>0, <2>1 DEF Inv, Frames, Queued, Pending
  <1>10. Young'
    <2>1. call' \in {"unborn", "create"} => call \in {"unborn", "create"} BY <1>0 DEF Calls
    <2> QED BY <1>0, <2>1 DEF Inv, Young
  <1> QED BY <1>3, <1>4, <1>5, <1>6, <1>7, <1>8, <1>9, <1>10 DEF Inv, ThreadInv

LEMMA ReturnKeeps ==
  ASSUME Inv, Return
  PROVE  Inv'
  <1>0. /\ UNCHANGED <<host, queue, todo, signalled, alive, misused, surface, wantsFrame,
                       frames, waiting, waiter, missed, changes>>
        /\ call \in Calls /\ call' = "none" /\ place' = 1
    BY DEF Return, Inv, Types, threadVars, objectVars, frameVars, waitVars
  <1>1. /\ call = "create" => place = 13
        /\ call = "createSurface" => place \in {4, 5}
        /\ call = "destroySurface" => place = 5
        /\ call = "screenshot" => place = 3
        /\ call = "destroy" => place = 12
    <2>1. place = Len(Program(call)) + 1
      <3>1. Len(Program(call)) \in Nat BY ProgramLength DEF Inv
      <3> QED BY <3>1 DEF Return, Inv, Types
    <2>2. /\ Len(Program("create")) = 12 /\ Len(Program("createSurface")) \in {3, 4}
          /\ Len(Program("destroySurface")) = 4 /\ Len(Program("screenshot")) = 2
          /\ Len(Program("destroy")) = 11
      BY ProgramTable
    <2>3. CASE call = "create"
      <3>1. Len(Program(call)) = 12 BY <2>2, <2>3
      <3>2. place = 12 + 1 BY <2>1, <3>1
      <3> QED BY <2>3, <3>2
    <2>4. CASE call = "createSurface"
      <3>1. PICK n \in {3, 4} : Len(Program("createSurface")) = n BY <2>2
      <3>2. place = n + 1 BY <2>1, <2>4, <3>1
      <3> QED BY <2>4, <3>2
    <2>5. CASE call = "destroySurface"
      <3>1. Len(Program(call)) = 4 BY <2>2, <2>5
      <3>2. place = 4 + 1 BY <2>1, <3>1
      <3> QED BY <2>5, <3>2
    <2>6. CASE call = "screenshot"
      <3>1. Len(Program(call)) = 2 BY <2>2, <2>6
      <3>2. place = 2 + 1 BY <2>1, <3>1
      <3> QED BY <2>6, <3>2
    <2>7. CASE call = "destroy"
      <3>1. Len(Program(call)) = 11 BY <2>2, <2>7
      <3>2. place = 11 + 1 BY <2>1, <3>1
      <3> QED BY <2>7, <3>2
    <2> QED BY <1>0, <2>3, <2>4, <2>5, <2>6, <2>7 DEF Calls
  <1>2. \A a \in Awaited : ~InWindow(a, call, place)
    BY <1>0, <1>1, WindowsOf DEF Calls, Awaited
  <1>3. Types'
    <2>1. Program(call)' = <<>> BY <1>0 DEF Program, Failures
    <2>2. (place \in 1..Len(Program(call)) + 1)' BY <1>0, <2>1
    <2> QED BY <1>0, <2>2 DEF Inv, Types
  <1>4. ThreadInv' BY <1>0, ThreadInvSame DEF Inv, ThreadInv
  <1>5. Tokens' BY <1>0, <1>2, TokensCall DEF Inv
  <1>6. call # "destroy" => alive = Objects
    <2>1. call = "create" => alive = Objects
      <3>1. call = "create" => Objects \subseteq alive
        BY <1>1 DEF Inv, AliveAt, Objects
      <3> QED BY <3>1 DEF Inv, Types
    <2> QED BY <1>0, <2>1 DEF Inv, AliveAt, Calls
  <1>7. call = "destroy" => alive = {}
    <2>1. call = "destroy" => \A x \in Objects : x \notin alive
      BY <1>1 DEF Inv, AliveAt, Objects
    <2> QED BY <2>1 DEF Inv, Types
  <1>8. AliveAt(alive', call', place') BY <1>0, <1>6, <1>7 DEF AliveAt
  <1>9. Barriers'
    <2>1. RasterGone' => RasterGone BY <1>0, <1>6 DEF RasterGone, Objects
    <2> QED BY <1>0, <2>1 DEF Inv, Barriers, Queued, Pending
  <1>10. Surfaces'
    <2>1. ~Tearing
      <3>1. ~Queued("tearDown") BY <1>1, TaskWindows DEF Inv
      <3>2. ~Pending(Do("tearDown")) BY <1>1, StatementWindows DEF Inv, Pending
      <3> QED BY <1>1, <3>1, <3>2 DEF Tearing
    <2>2. NoSurface' <=> NoSurface BY <1>0 DEF NoSurface, Queued, Pending
    <2>3. changes' % 2 = 0 => NoSurface' BY <1>0, <2>1, <2>2 DEF Inv, Surfaces
    <2> QED BY <1>0, <2>3 DEF Inv, Surfaces
  <1>11. Frames' BY <1>0 DEF Inv, Frames
  <1>12. Young' BY <1>0 DEF Young
  <1> QED BY <1>3, <1>4, <1>5, <1>8, <1>9, <1>10, <1>11, <1>12 DEF Inv, ThreadInv

LEMMA WaiterKeeps ==
  ASSUME Inv,
         \/ WaitForFirstFrame \/ Waiting \/ TimeOut
         \/ UNCHANGED vars
  PROVE  Inv'
  <1>0. /\ UNCHANGED <<host, queue, todo, signalled, alive, misused, surface, wantsFrame,
                       frames, waiting, missed, call, place, changes>>
        /\ waiter' \in {"none", "check", "checked", "asleep", "ok", "timeout"}
        /\ waiter' \in {"checked", "asleep"} /\ ~waiting => waiter \in {"checked", "asleep"}
        /\ call \in {"unborn", "create"} => waiter # "none" \/ waiter' = "none"
    BY DEF IsSetUp, Inv, Types, WaitForFirstFrame, Waiting, CheckWaiting, FallAsleep, TimeOut, vars,
           threadVars, objectVars, frameVars, waitVars, callVars
  <1>1. Types'
    <2>1. Program(call)' = Program(call) BY <1>0, ProgramSame
    <2> QED BY <1>0, <2>1 DEF Inv, Types
  <1>2. ThreadInv' BY <1>0, ThreadInvSame DEF Inv, ThreadInv
  <1>3. Tokens' BY <1>0 DEF Inv, Tokens, Started, Queued, Pending
  <1>4. AliveAt(alive', call', place') BY <1>0 DEF Inv
  <1>5. Barriers' BY <1>0 DEF Inv, Barriers, RasterGone, Queued, Pending
  <1>6. Surfaces' BY <1>0 DEF Inv, Surfaces, Tearing, NoSurface, Queued, Pending
  <1>7. Frames' BY <1>0 DEF Inv, Frames, Queued, Pending
  <1>8. Young' BY <1>0 DEF Inv, Young
  <1> QED BY <1>1, <1>2, <1>3, <1>4, <1>5, <1>6, <1>7, <1>8 DEF Inv, ThreadInv
-----------------------------------------------------------------------------
(* The invariant.                                                          *)

LEMMA InitInv ==
  ASSUME Init
  PROVE  Inv
  <1>0. /\ host \in Hosts /\ signalled = {} /\ alive = {} /\ misused = {}
        /\ call = "unborn" /\ place = 1 /\ changes = 0 /\ frames = 0 /\ ~surface
        /\ ~wantsFrame /\ waiting /\ waiter = "none" /\ ~missed
        /\ surface \in BOOLEAN /\ wantsFrame \in BOOLEAN /\ waiting \in BOOLEAN
        /\ missed \in BOOLEAN
        /\ queue = [t \in Runners |-> <<>>] /\ todo = [t \in Runners |-> <<>>]
    BY DEF Init
  <1>1. \A t \in Runners : /\ queue[t] = <<>> /\ todo[t] = <<>>
                           /\ Elements(queue[t]) = {} /\ Elements(todo[t]) = {}
    BY <1>0, NilElements
  <1>2. \A q : q = <<>> => Len(q) = 0 OBVIOUS
  <1>3. Types
    <2>1. place \in 1..Len(Program(call)) + 1
      <3>1. Program(call) = <<>> BY <1>0 DEF Program, Failures
      <3> QED BY <1>0, <3>1
    <2>2. /\ queue \in [Runners -> Seq(Tasks)] /\ todo \in [Runners -> Seq(Statements)]
      BY <1>0
    <2>3. changes \in 0..MaxChanges + 1 /\ frames \in 0..MaxFrames /\ changes % 2 = 0
      BY <1>0, ShellLifecycleAssumption
    <2> QED BY <1>0, <2>1, <2>2, <2>3 DEF Types
  <1>4. ThreadInv
    <2>1. Homes BY <1>1 DEF Homes
    <2>2. Shapes
      <3>1. Shape(<<>>)
        <4>1. Len(<<>>) = 0 /\ 1..0 = {} OBVIOUS
        <4> QED BY <4>1, NilElements DEF Shape, Whole, Followed, Once
      <3> QED BY <1>1, <3>1 DEF Shapes
    <2>3. Effects BY <1>0, <1>1 DEF Effects, MadeBy, DroppedBy
    <2>4. Claims BY <1>1 DEF Claims
    <2>5. NothingMisused BY <1>0 DEF NothingMisused
    <2>6. ViewUse /\ ShellUse BY <1>1 DEF ViewUse, ShellUse
    <2> QED BY <2>1, <2>2, <2>3, <2>4, <2>5, <2>6 DEF ThreadInv
  <1>5. Tokens
    <2>1. \A a \in Awaited : ~Started(a)
      BY <1>0, <1>1 DEF Started, Queued, Pending
    <2>2. \A a \in Awaited : \A t \in Runners : Once(queue[t], a)
      <3>1. \A a : Once(<<>>, a) BY DEF Once
      <3> QED BY <1>1, <3>1
    <2> QED BY <2>1, <2>2 DEF Tokens, Started, Awaited
  <1>6. AliveAt(alive, call, place) BY <1>0 DEF AliveAt
  <1>7. Barriers
    <2>1. NoneBehind(<<>>, "dropRasterizer", OldRaster) BY DEF NoneBehind
    <2>2. ~RasterGone BY <1>0 DEF RasterGone
    <2>3. "platform" \in Runners BY DEF Runners
    <2> QED BY <1>1, <2>1, <2>2, <2>3 DEF Barriers
  <1>8. Surfaces
    <2>1. NoneBehind(<<>>, "tearDown", {"setUpSurface"}) BY DEF NoneBehind
    <2>2. NoSurface BY <1>0, <1>1 DEF NoSurface, Queued, Pending
    <2> QED BY <1>0, <1>1, <2>1, <2>2 DEF Surfaces
  <1>9. Frames BY <1>0, <1>1 DEF Frames, Queued, Pending
  <1>10. Young BY <1>0, <1>1 DEF Young, Promising
  <1> QED BY <1>3, <1>4, <1>5, <1>6, <1>7, <1>8, <1>9, <1>10 DEF Inv, ThreadInv

LEMMA StepKeeps ==
  ASSUME Inv, NEW t \in Runners, TaskStep(t) \/ StartTask(t) \/ CallStep \/ OnAnimatorDraw
  PROVE  Inv'
  <1> USE DEF Inv
  <1>1. Types' BY TypesStep
  <1>2. Homes' BY HomesStep
  <1>3. Shapes' BY ShapesStep
  <1>4. Tokens' BY TokensStep
  <1>5. AliveAt(alive', call', place') BY AliveStep
  <1>6. Effects' BY EffectsStep
  <1>7. Claims' BY ClaimsStep
  <1>8. NothingMisused' BY NothingDeadStep
  <1>9. ViewUse' /\ ShellUse' BY UsesStep
  <1>10. Barriers' BY BarriersStep
  <1>11. Surfaces' BY SurfacesStep
  <1>12. Frames' BY FramesStep
  <1>13. Young' BY YoungStep
  <1> QED BY <1>1, <1>2, <1>3, <1>4, <1>5, <1>6, <1>7, <1>8, <1>9, <1>10, <1>11, <1>12, <1>13

-----------------------------------------------------------------------------
(* Creations that fail.                                                    *)

\* Where no runner is, there is nothing to do.
LEMMA EmptyThreads ==
  ASSUME Types, Homes, NEW t \in Runners, host[t] # t
  PROVE  queue[t] = <<>> /\ todo[t] = <<>>
  <1>1. \A r \in Runners : host[r] # t BY HostFacts DEF Types
  <1>2. Elements(queue[t]) = {} /\ Elements(todo[t]) = {} BY <1>1 DEF Homes
  <1>3. queue[t] \in Seq(Tasks) /\ todo[t] \in Seq(Statements) BY DEF Types
  <1> QED BY <1>2, <1>3, TailElements

\* A creation that fails leaves what it has sent.
LEMMA AbandonStarts ==
  ASSUME Inv, CreateWithoutView \/ CreateWithoutWaiter \/ CreateWithoutEngine
  PROVE  Abandoned'
  <1>1. PICK name \in Failures : \E statement : Abandon(name, statement)
    BY DEF CreateWithoutView, CreateWithoutWaiter, CreateWithoutEngine, Failures
  <1>2. /\ UNCHANGED <<host, queue, todo, misused, changes, surface, wantsFrame, frames,
                       waiting, waiter, missed>>
        /\ call = "create" /\ call' = name /\ place' = 1 /\ alive' = alive \cap {"shell"}
        /\ todo["platform"] = <<>>
    BY <1>1, HostFacts DEF Abandon, threadVars, frameVars, waitVars, Inv, Types
  <1>3. /\ name = "noView" => place = 3
        /\ name = "noWaiter" => place = 6
        /\ name = "noEngine" => place = 11
    <2>1. CASE CreateWithoutView
      <3>1. name = "noView" /\ CreateShell[place] = Make("view") /\ place \in 1..12
        BY <2>1, <1>2, ProgramTable DEF CreateWithoutView, Abandon, Inv, Types, CreateShell
      <3>2. \A k \in 1..12 : CreateShell[k] = Make("view") => k = 3
        BY StatementParts DEF CreateShell
      <3> QED BY <3>1, <3>2
    <2>2. CASE CreateWithoutWaiter
      <3>1. /\ name = "noWaiter" /\ CreateShell[place] = Run("makeIOManager", "io")
            /\ place \in 1..12
        BY <2>2, <1>2, ProgramTable DEF CreateWithoutWaiter, Abandon, Inv, Types, CreateShell
      <3>2. \A k \in 1..12 : CreateShell[k] = Run("makeIOManager", "io") => k = 6
        BY StatementParts DEF CreateShell
      <3> QED BY <3>1, <3>2
    <2>3. CASE CreateWithoutEngine
      <3>1. /\ name = "noEngine" /\ CreateShell[place] = Post("stopRouting", "platform")
            /\ place \in 1..12
        BY <2>3, <1>2, ProgramTable DEF CreateWithoutEngine, Abandon, Inv, Types, CreateShell
      <3>2. \A k \in 1..12 : CreateShell[k] = Post("stopRouting", "platform") => k = 11
        BY StatementParts DEF CreateShell
      <3> QED BY <3>1, <3>2
    <2> QED BY <2>1, <2>2, <2>3
  <1>4. name \in {"noView", "noWaiter", "noEngine"} BY DEF Failures
  <1>5. "view" \in alive <=> name # "noView" BY <1>2, <1>3, <1>4 DEF Inv, AliveAt
  <1>6. "shell" \in alive BY <1>2, <1>3, <1>4 DEF Inv, AliveAt
  <1>7. ASSUME NEW t \in Runners PROVE Elements(queue[t]) \subseteq LeftTasks(name)
    <2>1. Elements(queue[t]) \subseteq NewTasks BY <1>2 DEF Inv, Young
    <2>2. /\ "makeRasterizer" \in Elements(queue[t]) => name = "noWaiter"
          /\ "makeIOManager" \notin Elements(queue[t])
          /\ "makeEngine" \notin Elements(queue[t])
      BY <1>3, <1>4, TaskWindows DEF Inv, Queued
    <2>3. "setUpContext" \in Elements(queue[t]) => name # "noView"
      BY <1>5, NeedsTable DEF Inv, Claims
    <2> QED BY <2>1, <2>2, <2>3 DEF NewTasks, LeftTasks
  <1>8. ASSUME NEW t \in Runners PROVE Elements(todo[t]) \subseteq LeftStatements(name)
    <2> DEFINE q == Elements(todo[t])
    <2>1. q \subseteq NewStatements /\ Promising(todo[t]) BY <1>2 DEF Inv, Young
    <2>2. /\ Signal("rasterizerMade") \in q \/ Make("rasterizer") \in q => name = "noWaiter"
          /\ Signal("ioMade") \notin q /\ Make("io") \notin q
          /\ Signal("engineMade") \notin q /\ Make("engine") \notin q
      BY <1>3, <1>4, StatementWindows DEF Inv
    <2>3. Signal("snapshots") \in q => name = "noWaiter" BY <2>1, <2>2 DEF Promising
    <2>4. Signal("weakIo") \notin q /\ Signal("unrefQueue") \notin q
      <3>1. todo[t] \in IOBegun => Signal("ioMade") \in q
        BY ShortElements, FiveElements DEF IOBegun
      <3> QED BY <2>1, <2>2, <3>1 DEF Promising
    <2>5. Use("view") \in q => name # "noView"
      BY <1>5 DEF Inv, Claims, NeedOf, Objects
    <2> QED BY <2>1, <2>2, <2>3, <2>4, <2>5 DEF NewStatements, LeftStatements
  <1>9. \A t \in Runners : host[t] # t => queue[t] = <<>> /\ todo[t] = <<>>
    BY EmptyThreads DEF Inv
  <1>10. waiter = "none" /\ misused = {} BY <1>2 DEF Inv, Young, NothingMisused
  <1> QED BY <1>1, <1>2, <1>6, <1>7, <1>8, <1>9, <1>10 DEF Abandoned, Inv, Types, Objects

\* The other threads execute what is left.
LEMMA LeftStep ==
  ASSUME Abandoned, NEW t \in Runners, t # "platform", ThreadStep(t)
  PROVE  Abandoned'
  <1>0. /\ host["platform"] = "platform" /\ call \in {"noView", "noWaiter", "noEngine"}
        /\ todo \in [Runners -> Seq(Statements)] /\ queue \in [Runners -> Seq(Tasks)]
        /\ "platform" \in Runners
    BY HostFacts DEF Abandoned, Failures, Runners
  <1>1. CASE StartTask(t)
    <2>1. /\ UNCHANGED <<host, signalled, alive, misused, call, place, changes, surface,
                         wantsFrame, frames, waiting, waiter, missed>>
          /\ queue[t] # <<>> /\ queue' = [queue EXCEPT ![t] = Tail(@)]
          /\ todo' = [todo EXCEPT ![t] = Body(Head(queue[t]))]
      BY <1>1 DEF StartTask, objectVars, callVars, frameVars, waitVars
    <2>2. /\ Tail(queue[t]) \in Seq(Tasks) /\ Head(queue[t]) \in Tasks
          /\ Head(queue[t]) \in LeftTasks(call)
          /\ Elements(Tail(queue[t])) \subseteq LeftTasks(call)
      BY <1>0, <2>1, TailElements DEF Abandoned
    <2>3. /\ Body(Head(queue[t])) \in Seq(Statements)
          /\ Elements(Body(Head(queue[t]))) \subseteq LeftStatements(call)
      BY <2>2, BodySeq, BodyTable, <1>0 DEF LeftTasks, LeftStatements
    <2>4. host[t] = t BY <2>1 DEF Abandoned
    <2>5. /\ queue' \in [Runners -> Seq(Tasks)] /\ todo' \in [Runners -> Seq(Statements)]
          /\ queue'[t] = Tail(queue[t]) /\ todo'[t] = Body(Head(queue[t]))
          /\ \A u \in Runners : u # t => queue'[u] = queue[u] /\ todo'[u] = todo[u]
      BY <1>0, <2>1, <2>2, <2>3
    <2> QED BY <1>0, <2>1, <2>2, <2>3, <2>4, <2>5 DEF Abandoned, Crashed, Body
  <1>2. CASE Communicate(t) \/ UseObject(t) \/ Affect(t)
    <2> DEFINE s == Head(todo[t])
    <2>1. todo[t] # <<>> /\ Statement(t) = s
      BY <1>0, <1>2 DEF Communicate, UseObject, Affect, CanExecute, Statement
    <2>2. /\ Tail(todo[t]) \in Seq(Statements) /\ s \in LeftStatements(call)
          /\ Elements(Tail(todo[t])) \subseteq LeftStatements(call)
      BY <1>0, <2>1, TailElements DEF Abandoned
    <2>3. /\ s.do \in {"use", "signal", "wait", "make"}
          /\ s.do = "use" => s.what \in {"shell", "view"}
          /\ s.do = "use" /\ s.what = "view" => call # "noView"
          /\ s.do = "make" => s.what = "rasterizer"
          /\ s.do = "signal" => s.what = "context" \/ call = "noWaiter"
      BY <2>2, StatementParts DEF LeftStatements
    <2>4. Continue(t) => todo' = [todo EXCEPT ![t] = Tail(@)] /\ UNCHANGED place
      <3>1. <<>> \o Tail(todo[t]) = Tail(todo[t]) BY <2>2, ConcatEmptySeq
      <3> QED BY <2>1, <3>1 DEF Continue, ContinueWith
    <2> HIDE DEF s
    <2>5. /\ Continue(t)
          /\ UNCHANGED <<host, queue, call, changes, wantsFrame, frames, waiting, waiter,
                         missed>>
          /\ surface' \in BOOLEAN
          /\ alive' \subseteq alive \cup {"rasterizer"} /\ alive \subseteq alive'
          /\ misused' \subseteq Mishaps(call)
      <3>1. CASE Communicate(t)
        <4>1. /\ Continue(t) /\ UNCHANGED queue
              /\ UNCHANGED <<host, alive, call, changes, surface, wantsFrame, frames,
                             waiting, waiter, missed>>
          BY <3>1, <2>1, <2>3 DEF Communicate, frameVars, waitVars
        <4>2. misused' \subseteq Mishaps(call)
          <5>1. TouchesLocals(s) => "promises" \in Mishaps(call)
            BY <2>3 DEF TouchesLocals, Promises, Mishaps
          <5>2. misused' \subseteq misused \cup (IF TouchesLocals(s) THEN {"promises"} ELSE {})
            BY <3>1, <2>1 DEF Communicate
          <5> QED BY <5>1, <5>2 DEF Abandoned
        <4> QED BY <4>1, <4>2 DEF Abandoned
      <3>2. CASE UseObject(t)
        <4>1. /\ Continue(t)
              /\ surface' = (surface /\ "rasterizer" \in alive')
              /\ UNCHANGED <<host, queue, call, changes, wantsFrame, frames, waiting, waiter,
                             missed>>
              /\ \/ s.do = "make" /\ alive' = alive \cup {s.what} /\ UNCHANGED misused
                 \/ s.do = "use" /\ misused' = misused \cup ({s.what} \ alive) /\ UNCHANGED alive
          BY <3>2, <2>1, <2>3 DEF UseObject, waitVars
        <4>2. s.do = "use" => {s.what} \ alive \subseteq Mishaps(call)
          BY <1>0, <2>3 DEF Mishaps, Abandoned
        <4>3. surface' \in BOOLEAN BY <4>1 DEF Abandoned
        <4> QED BY <4>1, <4>2, <4>3, <2>3 DEF Abandoned
      <3>3. ~Affect(t) BY <2>1, <2>3 DEF Affect
      <3> QED BY <1>2, <3>1, <3>2, <3>3
    <2>6. /\ todo' \in [Runners -> Seq(Statements)] /\ todo'[t] = Tail(todo[t])
          /\ \A u \in Runners : u # t => todo'[u] = todo[u]
          /\ UNCHANGED place
      BY <1>0, <2>2, <2>4, <2>5
    <2>7. host[t] = t BY <2>1 DEF Abandoned
    <2>8. /\ alive' \subseteq Objects /\ "shell" \in alive' /\ "engine" \notin alive'
      BY <2>5 DEF Abandoned, Objects
    <2>9. ~Crashed BY DEF ThreadStep
    <2> QED BY <1>0, <2>2, <2>5, <2>6, <2>7, <2>8, <2>9 DEF Abandoned, Body
  <1> QED BY <1>1, <1>2 DEF ThreadStep

\* ~Shell comes as far as the engine.
LEMMA DestroyStep ==
  ASSUME Abandoned, ThreadStep("platform")
  PROVE  Abandoned'
  <1>0. /\ host["platform"] = "platform" /\ call \in {"noView", "noWaiter", "noEngine"}
        /\ todo \in [Runners -> Seq(Statements)] /\ "platform" \in Runners
    BY HostFacts DEF Abandoned, Failures, Runners
  <1>1. ~StartTask("platform") /\ ~Crashed BY <1>0 DEF StartTask, ThreadStep
  <1>2. Program(call) = DestroyShell BY <1>0 DEF Program, Failures
  <1>3. Body("endIsolates") = <<Use("engine"), Signal("isolatesEnded")>> BY DEF Body
  <1>4. Body("endIsolates") \in Seq(Statements) BY BodySeq, TaskTable DEF Tasks, Runners
  <1>5. CASE place = 1
    <2>1. todo["platform"] = <<>> BY <1>5 DEF Abandoned
    <2>2. Statement("platform") = Run("endIsolates", "platform")
      BY <2>1, <1>2, <1>5 DEF Statement, DestroyShell
    <2>3. /\ Statement("platform").do = "run" /\ Statement("platform").what = "endIsolates"
          /\ Statement("platform").on = "platform"
      BY <2>2, StatementParts
    <2>4. Communicate("platform") BY <1>1, <2>3 DEF ThreadStep, UseObject, Affect
    <2>5. /\ RunNowOrPostTask("platform", Statement("platform")) /\ UNCHANGED misused
          /\ UNCHANGED <<host, alive, call, changes, surface, wantsFrame, frames, waiting,
                         waiter, missed>>
      BY <2>3, <2>4 DEF Communicate, TouchesLocals, frameVars, waitVars
    <2>6. ContinueWith("platform", Body("endIsolates")) /\ UNCHANGED queue
      BY <1>0, <2>3, <2>5 DEF RunNowOrPostTask
    <2>7. todo' = [todo EXCEPT !["platform"] = Body("endIsolates")] /\ place' = 2
      BY <1>5, <2>1, <2>6 DEF ContinueWith
    <2>8. /\ todo' \in [Runners -> Seq(Statements)] /\ todo'["platform"] = Body("endIsolates")
          /\ \A u \in Runners : u # "platform" => todo'[u] = todo[u]
      BY <1>0, <1>4, <2>7
    <2>9. Body("endIsolates")' = Body("endIsolates") BY DEF Body
    <2> QED BY <1>0, <2>5, <2>6, <2>7, <2>8, <2>9 DEF Abandoned
  <1>6. CASE place = 2
    <2>1. todo["platform"] = Body("endIsolates") BY <1>1, <1>6 DEF Abandoned
    <2>2. todo["platform"] # <<>> /\ Head(todo["platform"]) = Use("engine")
      BY <2>1, <1>3
    <2>3. Statement("platform").do = "use" /\ Statement("platform").what = "engine"
      BY <2>2, StatementParts DEF Statement
    <2>4. UseObject("platform") BY <1>1, <2>3 DEF ThreadStep, Communicate, Affect
    <2>5. /\ Continue("platform")
          /\ surface' = (surface /\ "rasterizer" \in alive')
          /\ misused' = misused \cup ({"engine"} \ alive)
          /\ UNCHANGED <<host, queue, call, changes, alive, wantsFrame, frames, waiting,
                         waiter, missed>>
      BY <2>3, <2>4 DEF UseObject, waitVars
    <2>6. todo' = [todo EXCEPT !["platform"] = <<>> \o Tail(@)] /\ UNCHANGED place
      BY <2>2, <2>5 DEF Continue, ContinueWith
    <2>7. Tail(todo["platform"]) \in Seq(Statements) BY <1>0, <2>2, TailElements
    <2>8. <<>> \o Tail(todo["platform"]) = Tail(todo["platform"]) BY <2>7, ConcatEmptySeq
    <2>9. /\ todo' \in [Runners -> Seq(Statements)]
          /\ \A u \in Runners : u # "platform" => todo'[u] = todo[u]
      BY <1>0, <2>6, <2>7, <2>8
    <2>10. misused' \subseteq Mishaps(call) /\ Crashed'
      BY <1>0, <2>5 DEF Mishaps, Crashed, Abandoned
    <2>11. surface' \in BOOLEAN BY <2>5 DEF Abandoned
    <2> QED BY <1>0, <1>6, <2>5, <2>6, <2>9, <2>10, <2>11 DEF Abandoned
  <1> QED BY <1>5, <1>6 DEF Abandoned

LEMMA AbandonedKept ==
  ASSUME Abandoned, [Next]_vars
  PROVE  Abandoned'
  <1>1. /\ call \in {"noView", "noWaiter", "noEngine"} /\ waiter = "none"
        /\ "engine" \notin alive /\ place \in {1, 2}
    BY DEF Abandoned, Failures
  <1>2. ASSUME NEW t \in Runners, ThreadStep(t) PROVE Abandoned'
    BY <1>2, LeftStep, DestroyStep
  <1>3. /\ ~CreateWithoutView /\ ~CreateWithoutWaiter /\ ~CreateWithoutEngine
        /\ ~Create /\ ~OnPlatformViewCreated /\ ~OnPlatformViewDestroyed
        /\ ~Screenshot /\ ~Destroy /\ ~OnAnimatorDraw
        /\ ~WaitForFirstFrame /\ ~Waiting /\ ~TimeOut
    BY <1>1 DEF CreateWithoutView, CreateWithoutWaiter, CreateWithoutEngine, Abandon, Create,
                OnPlatformViewCreated, OnPlatformViewDestroyed, Screenshot, Destroy, Begin,
                OnAnimatorDraw, WaitForFirstFrame, IsSetUp, Waiting, CheckWaiting, FallAsleep,
                TimeOut
  <1>4. ~Return
    <2>1. Len(Program(call)) = 11 BY <1>1 DEF Program, Failures, DestroyShell
    <2> QED BY <1>1, <2>1 DEF Return
  <1>5. CASE UNCHANGED vars
    BY <1>5 DEF vars, threadVars, objectVars, callVars, frameVars, waitVars, Abandoned,
                Crashed, Body
  <1> QED BY <1>2, <1>3, <1>4, <1>5 DEF Next

-----------------------------------------------------------------------------
(* Every step.                                                             *)

LEMMA NextInv ==
  ASSUME Inv, [Next]_vars
  PROVE  Inv' \/ Abandoned'
  <1>1. ASSUME NEW t \in Runners, ThreadStep(t) PROVE Inv'
    <2>1. TaskStep(t) \/ StartTask(t) \/ CallStep
      BY <1>1, TaskStepCases, CallStepCases DEF ThreadStep, Inv
    <2> QED BY <2>1, StepKeeps
  <1>2. CASE OnAnimatorDraw
    <2>1. "ui" \in Runners BY DEF Runners
    <2> QED BY <1>2, <2>1, StepKeeps
  <1>3. changes \in 0..MaxChanges + 1 /\ MaxChanges \in Nat
        /\ (changes % 2 = 1 => changes <= MaxChanges)
    BY ShellLifecycleAssumption DEF Inv, Types
  <1>4. CASE Create BY <1>3, <1>4, BeginKeeps DEF Create, Calls
  <1>5. CASE OnPlatformViewCreated
    <2>1. /\ changes' = changes + 1 /\ changes < MaxChanges /\ changes % 2 = 0
          /\ Begin("createSurface") /\ IsSetUp
      BY <1>5 DEF OnPlatformViewCreated
    <2>2. changes' \in 0..MaxChanges + 1 /\ changes' <= MaxChanges /\ changes' % 2 = 1
      BY <1>3, <2>1
    <2> QED BY <2>1, <2>2, BeginKeeps DEF Calls
  <1>6. CASE OnPlatformViewDestroyed
    <2>1. /\ changes' = changes + 1 /\ changes % 2 = 1
          /\ Begin("destroySurface") /\ IsSetUp
      BY <1>6 DEF OnPlatformViewDestroyed
    <2>2. changes' \in 0..MaxChanges + 1 /\ changes' % 2 = 0
      BY <1>3, <2>1
    <2> QED BY <2>1, <2>2, BeginKeeps DEF Calls
  <1>7. CASE Screenshot BY <1>3, <1>7, BeginKeeps DEF Screenshot, Calls
  <1>8. CASE Destroy BY <1>3, <1>8, BeginKeeps DEF Destroy, Calls
  <1>9. CASE Return BY <1>9, ReturnKeeps
  <1>10. CASE WaitForFirstFrame \/ Waiting \/ TimeOut \/ UNCHANGED vars BY <1>10, WaiterKeeps
  <1>11. CASE CreateWithoutView \/ CreateWithoutWaiter \/ CreateWithoutEngine
    BY <1>11, AbandonStarts
  <1> QED BY <1>1, <1>2, <1>4, <1>5, <1>6, <1>7, <1>8, <1>9, <1>10, <1>11 DEF Next

\* What the tasks, the latches and the objects of a shell have to do with each
\* other at every step, unless its creation has failed: the inductive invariant.
THEOREM Invariance == Spec => [](Inv \/ Abandoned)
  <1>1. Init => Inv BY InitInv
  <1>2. Inv /\ [Next]_vars => Inv' \/ Abandoned' BY NextInv
  <1>3. Abandoned /\ [Next]_vars => Abandoned' BY AbandonedKept
  <1> QED BY <1>1, <1>2, <1>3, PTL DEF Spec

\* The variables keep their types, a thread that no runner is on has no tasks,
\* and a call never runs past the end of its program.
THEOREM TypeCorrect == Spec => []TypeOK
  <1>1. Inv => TypeOK
    <2> SUFFICES ASSUME Inv PROVE TypeOK OBVIOUS
    <2>1. misused = {} BY DEF Inv, NothingMisused
    <2> QED BY <2>1, EmptyThreads DEF Inv, Types, TypeOK
  <1>2. Abandoned => TypeOK
    <2> SUFFICES ASSUME Abandoned PROVE TypeOK OBVIOUS
    <2>1. call \in {"noView", "noWaiter", "noEngine"} /\ place \in {1, 2}
      BY DEF Abandoned, Failures
    <2>2. place \in 1..Len(Program(call)) + 1
      <3>1. Len(Program(call)) = 11 BY <2>1 DEF Program, Failures, DestroyShell
      <3> QED BY <2>1, <3>1
    <2>3. misused \subseteq Objects \cup {"promises"}
      BY <2>1 DEF Abandoned, Mishaps, Objects
    <2> QED BY <2>2, <2>3 DEF Abandoned, TypeOK
  <1> QED BY <1>1, <1>2, Invariance, PTL

\* No task and no call touches a part of the shell before it is made or after it
\* is destroyed, whichever runners share threads, however many surfaces the
\* shell is given and frames it draws: CreateShellOnPlatformThread, Setup,
\* OnPlatformViewCreated, OnPlatformViewDestroyed, Screenshot, OnAnimatorDraw and
\* ~Shell, whose tasks capture raw pointers.  Where CreateShellOnPlatformThread
\* returns early, it is no more than the Mishaps of that return that are misused:
\* the engine by ~Shell, the view and the promises by the tasks left behind.
THEOREM LatchesProtectTheShell == Spec => []NothingDeadIsUsed
  <1>1. Inv => NothingDeadIsUsed BY DEF Inv, NothingMisused, NothingDeadIsUsed
  <1>2. Abandoned => NothingDeadIsUsed BY DEF Abandoned, NothingDeadIsUsed
  <1> QED BY <1>1, <1>2, Invariance, PTL

\* OnPlatformViewDestroyed is synchronous: when it has returned the rasterizer
\* has no surface, and the task of OnPlatformViewCreated that sets one up is over.
THEOREM TeardownIsSynchronous == Spec => []SurfaceGoneAfterDestroy
  <1>1. Inv => SurfaceGoneAfterDestroy
    BY DEF Inv, Surfaces, NoSurface, Tearing, SurfaceGoneAfterDestroy
  <1>2. Abandoned => SurfaceGoneAfterDestroy
    BY DEF Abandoned, Failures, SurfaceGoneAfterDestroy
  <1> QED BY <1>1, <1>2, Invariance, PTL

\* A thread asleep in WaitForFirstFrame after the first frame is about to be
\* notified, or has missed the notification that is given without the mutex.
THEOREM FirstFrameNoticed == Spec => []FirstFrameIsNoticed
  <1>1. Inv => FirstFrameIsNoticed BY DEF Inv, Frames, FirstFrameIsNoticed
  <1>2. Abandoned => FirstFrameIsNoticed BY DEF Abandoned, FirstFrameIsNoticed
  <1> QED BY <1>1, <1>2, Invariance, PTL

-----------------------------------------------------------------------------
(* Nobody waits for everybody.                                             *)

\* The latches that tasks wait for: who sets one, who waits for it, and the
\* places of the call from the sending of the one to that of the other.
Inner == {"context", "weakIo", "unrefQueue", "snapshots"}
SetterOf(l) ==
  CASE l = "context" -> "setUpContext"
    [] l \in {"weakIo", "unrefQueue"} -> "makeIOManager"
    [] l = "snapshots" -> "makeRasterizer"
WaiterOf(l) == IF l = "context" THEN "makeIOManager" ELSE "makeEngine"
InGap(l, name, k) ==
  name = "create" /\ CASE l = "context" -> k = 6
                       [] l \in {"weakIo", "unrefQueue"} -> k = 7
                       [] l = "snapshots" -> k \in 5..7

\* What is left of the tasks that wait for them.
EngineRests ==
  {<<Use("shell"), Wait("weakIo"), Wait("unrefQueue"), Wait("snapshots"), Make("engine"),
     Signal("engineMade")>>,
   <<Wait("weakIo"), Wait("unrefQueue"), Wait("snapshots"), Make("engine"),
     Signal("engineMade")>>,
   <<Wait("unrefQueue"), Wait("snapshots"), Make("engine"), Signal("engineMade")>>,
   <<Wait("snapshots"), Make("engine"), Signal("engineMade")>>}
IORests ==
  {<<Make("io"), Signal("weakIo"), Signal("unrefQueue"), Signal("ioMade"), Wait("context"),
     Use("view")>>,
   <<Signal("weakIo"), Signal("unrefQueue"), Signal("ioMade"), Wait("context"), Use("view")>>,
   <<Signal("unrefQueue"), Signal("ioMade"), Wait("context"), Use("view")>>,
   <<Signal("ioMade"), Wait("context"), Use("view")>>,
   <<Wait("context"), Use("view")>>}
RestsOf(l) == IF l = "context" THEN IORests ELSE EngineRests
Rest(q) == \A l \in Inner : Wait(l) \in Elements(q) => q \in RestsOf(l)

Owed(l) == InGap(l, call, place) \/ Queued(WaiterOf(l)) \/ Pending(Wait(l))
Coming(l) == Queued(SetterOf(l)) \/ Pending(Signal(l)) \/ l \in signalled

\* What a task waits for is set, or will be by a task that is not behind it.
Chains ==
  /\ \A t \in Runners : Rest(todo[t])
  /\ \A l \in Inner : Owed(l) => Coming(l)
  /\ Pending(Wait("context")) =>
       ~Queued("makeIOManager") /\ call # "unborn" /\ (call = "create" => place >= 7)
  /\ \A l \in Inner : \A t \in Runners :
       /\ NoneBehind(queue[t], WaiterOf(l), {SetterOf(l)})
       /\ Wait(l) \in Elements(todo[t]) => SetterOf(l) \notin Elements(queue[t])

\* What is waited for is not left to the platform thread, which is in the call.
Elsewhere ==
  \A a \in Awaited \cup {"setUpContext"} :
    (a = "drainIO" => DrainsElsewhere) => a \notin Elements(queue["platform"])

\* In the window of a task, it is on its way; drainIO is the end of tearDown.
OnWay(a) == \/ Started(a)
            \/ a = "tearDown" /\ Started("drainIO")
            \/ a = "drainIO" /\ Started("tearDown")
UnderWay == \A a \in Awaited : InWindow(a, call, place) => OnWay(a)

Progress == Chains /\ Elsewhere /\ UnderWay

\* A thread that can go on with what it does, or begin a task.
Ready(t) ==
  \/ CanExecute(t) /\ (Statement(t).do = "wait" => Statement(t).what \in signalled)
  \/ todo[t] = <<>> /\ queue[t] # <<>> /\ t # host["platform"]
CanReturn == todo[host["platform"]] = <<>> /\ place > Len(Program(call))

\* A call never waits in vain: some thread can go on, or the call is through, or
\* a creation that failed has ended the process.
NobodyIsStuck ==
  DrainsElsewhere /\ call \in Calls \cup Failures =>
    CanReturn \/ Crashed \/ \E t \in Runners : Ready(t)

LEMMA InnerTable ==
  /\ SetterOf("context") = "setUpContext" /\ WaiterOf("context") = "makeIOManager"
  /\ SetterOf("weakIo") = "makeIOManager" /\ WaiterOf("weakIo") = "makeEngine"
  /\ SetterOf("unrefQueue") = "makeIOManager" /\ WaiterOf("unrefQueue") = "makeEngine"
  /\ SetterOf("snapshots") = "makeRasterizer" /\ WaiterOf("snapshots") = "makeEngine"
  /\ RestsOf("context") = IORests /\ RestsOf("weakIo") = EngineRests
  /\ RestsOf("unrefQueue") = EngineRests /\ RestsOf("snapshots") = EngineRests
  BY DEF SetterOf, WaiterOf, RestsOf

LEMMA GapTable ==
  ASSUME NEW name, NEW k
  PROVE  /\ InGap("context", name, k) <=> name = "create" /\ k = 6
         /\ InGap("weakIo", name, k) <=> name = "create" /\ k = 7
         /\ InGap("unrefQueue", name, k) <=> name = "create" /\ k = 7
         /\ InGap("snapshots", name, k) <=> name = "create" /\ k \in 5..7
  BY DEF InGap

LEMMA EngineRest ==
  ASSUME NEW q \in EngineRests
  PROVE  /\ q # <<>> /\ \A a, r : Head(q) # Run(a, r)
         /\ \A x : Head(q) # Signal(x) /\ Head(q) # Do(x)
         /\ Signal("engineMade") \in Elements(q)
         /\ \A l \in Inner : Signal(l) \notin Elements(q)
         /\ Wait("context") \notin Elements(q)
         /\ \A l \in Inner : Wait(l) \in Elements(Tail(q)) => Tail(q) \in EngineRests
         /\ \A l \in Inner : Head(q) = Wait(l) => Wait(l) \notin Elements(Tail(q))
  <1>1. CASE q = <<Use("shell"), Wait("weakIo"), Wait("unrefQueue"), Wait("snapshots"),
                   Make("engine"), Signal("engineMade")>>
    <2>1. /\ Head(q) = Use("shell") /\ q # <<>>
          /\ Tail(q) = <<Wait("weakIo"), Wait("unrefQueue"), Wait("snapshots"),
                         Make("engine"), Signal("engineMade")>>
          /\ Elements(q) = {Use("shell"), Wait("weakIo"), Wait("unrefQueue"),
                            Wait("snapshots"), Make("engine"), Signal("engineMade")}
      BY <1>1, ShortElements
    <2> QED BY <2>1, StatementParts DEF EngineRests, Inner
  <1>2. CASE q = <<Wait("weakIo"), Wait("unrefQueue"), Wait("snapshots"), Make("engine"),
                   Signal("engineMade")>>
    <2>1. /\ Head(q) = Wait("weakIo") /\ q # <<>>
          /\ Tail(q) = <<Wait("unrefQueue"), Wait("snapshots"), Make("engine"),
                         Signal("engineMade")>>
          /\ Elements(q) = {Wait("weakIo"), Wait("unrefQueue"), Wait("snapshots"),
                            Make("engine"), Signal("engineMade")}
      BY <1>2, FiveElements
    <2>2. Elements(Tail(q)) = {Wait("unrefQueue"), Wait("snapshots"), Make("engine"),
                               Signal("engineMade")}
      <3>1. Tail(q) = <<Wait("unrefQueue"), Wait("snapshots"), Make("engine"),
                        Signal("engineMade")>> BY <2>1
      <3>2. Elements(<<Wait("unrefQueue"), Wait("snapshots"), Make("engine"),
                       Signal("engineMade")>>) =
              {Wait("unrefQueue"), Wait("snapshots"), Make("engine"), Signal("engineMade")}
        BY ShortElements
      <3> QED BY <3>1, <3>2
    <2> QED BY <2>1, <2>2, StatementParts DEF EngineRests, Inner
  <1>3. CASE q = <<Wait("unrefQueue"), Wait("snapshots"), Make("engine"),
                   Signal("engineMade")>>
    <2>1. /\ Head(q) = Wait("unrefQueue") /\ q # <<>>
          /\ Tail(q) = <<Wait("snapshots"), Make("engine"), Signal("engineMade")>>
          /\ Elements(q) = {Wait("unrefQueue"), Wait("snapshots"), Make("engine"),
                            Signal("engineMade")}
      BY <1>3, ShortElements
    <2>2. Elements(Tail(q)) = {Wait("snapshots"), Make("engine"), Signal("engineMade")}
      <3>1. Tail(q) = <<Wait("snapshots"), Make("engine"), Signal("engineMade")>> BY <2>1
      <3>2. Elements(<<Wait("snapshots"), Make("engine"), Signal("engineMade")>>) =
              {Wait("snapshots"), Make("engine"), Signal("engineMade")} BY ShortElements
      <3> QED BY <3>1, <3>2
    <2> QED BY <2>1, <2>2, StatementParts DEF EngineRests, Inner
  <1>4. CASE q = <<Wait("snapshots"), Make("engine"), Signal("engineMade")>>
    <2>1. /\ Head(q) = Wait("snapshots") /\ q # <<>>
          /\ Tail(q) = <<Make("engine"), Signal("engineMade")>>
          /\ Elements(q) = {Wait("snapshots"), Make("engine"), Signal("engineMade")}
      BY <1>4, ShortElements
    <2>2. Elements(Tail(q)) = {Make("engine"), Signal("engineMade")}
      BY <2>1, ShortElements
    <2> QED BY <2>1, <2>2, StatementParts DEF EngineRests, Inner
  <1> QED BY <1>1, <1>2, <1>3, <1>4 DEF EngineRests

LEMMA IORest ==
  ASSUME NEW q \in IORests
  PROVE  /\ q # <<>> /\ \A a, r : Head(q) # Run(a, r)
         /\ \A x : Head(q) # Do(x)
         /\ Signal("context") \notin Elements(q)
         /\ \A l \in Inner \ {"context"} : Wait(l) \notin Elements(q)
         /\ Wait("context") \in Elements(Tail(q)) => Tail(q) \in IORests
         /\ Head(q) = Wait("context") => q = <<Wait("context"), Use("view")>>
         /\ Head(q) = Wait("context") => Wait("context") \notin Elements(Tail(q))
  <1>1. CASE q = <<Make("io"), Signal("weakIo"), Signal("unrefQueue"), Signal("ioMade"),
                   Wait("context"), Use("view")>>
    <2>1. /\ Head(q) = Make("io") /\ q # <<>>
          /\ Tail(q) = <<Signal("weakIo"), Signal("unrefQueue"), Signal("ioMade"),
                         Wait("context"), Use("view")>>
          /\ Elements(q) = {Make("io"), Signal("weakIo"), Signal("unrefQueue"),
                            Signal("ioMade"), Wait("context"), Use("view")}
      BY <1>1, ShortElements
    <2> QED BY <2>1, StatementParts DEF IORests, Inner
  <1>2. CASE q = <<Signal("weakIo"), Signal("unrefQueue"), Signal("ioMade"), Wait("context"),
                   Use("view")>>
    <2>1. /\ Head(q) = Signal("weakIo") /\ q # <<>>
          /\ Tail(q) = <<Signal("unrefQueue"), Signal("ioMade"), Wait("context"), Use("view")>>
          /\ Elements(q) = {Signal("weakIo"), Signal("unrefQueue"), Signal("ioMade"),
                            Wait("context"), Use("view")}
      BY <1>2, FiveElements
    <2> QED BY <2>1, StatementParts DEF IORests, Inner
  <1>3. CASE q = <<Signal("unrefQueue"), Signal("ioMade"), Wait("context"), Use("view")>>
    <2>1. /\ Head(q) = Signal("unrefQueue") /\ q # <<>>
          /\ Tail(q) = <<Signal("ioMade"), Wait("context"), Use("view")>>
          /\ Elements(q) = {Signal("unrefQueue"), Signal("ioMade"), Wait("context"), Use("view")}
      BY <1>3, ShortElements
    <2> QED BY <2>1, StatementParts DEF IORests, Inner
  <1>4. CASE q = <<Signal("ioMade"), Wait("context"), Use("view")>>
    <2>1. /\ Head(q) = Signal("ioMade") /\ q # <<>>
          /\ Tail(q) = <<Wait("context"), Use("view")>>
          /\ Elements(q) = {Signal("ioMade"), Wait("context"), Use("view")}
      BY <1>4, ShortElements
    <2> QED BY <2>1, StatementParts DEF IORests, Inner
  <1>5. CASE q = <<Wait("context"), Use("view")>>
    <2>1. /\ Head(q) = Wait("context") /\ q # <<>> /\ Tail(q) = <<Use("view")>>
          /\ Elements(q) = {Wait("context"), Use("view")}
      BY <1>5, ShortElements
    <2>2. Elements(Tail(q)) = {Use("view")} BY <2>1, ShortElements
    <2> QED BY <1>5, <2>1, <2>2, StatementParts DEF IORests, Inner
  <1> QED BY <1>1, <1>2, <1>3, <1>4, <1>5 DEF IORests

\* What has a wait in it is left of the task that waits.
LEMMA RestTail ==
  ASSUME NEW q \in Seq(Statements), q # <<>>, Rest(q)
  PROVE  /\ Rest(Tail(q))
         /\ \A l \in Inner : Head(q) = Wait(l) => Wait(l) \notin Elements(Tail(q))
  <1>1. Head(q) \in Elements(q) /\ Elements(Tail(q)) \subseteq Elements(q) BY TailElements
  <1>2. ASSUME NEW l \in Inner, Wait(l) \in Elements(Tail(q)) PROVE Tail(q) \in RestsOf(l)
    <2>1. q \in RestsOf(l) BY <1>1, <1>2 DEF Rest
    <2> QED BY <1>2, <2>1, EngineRest, IORest DEF RestsOf
  <1>3. ASSUME NEW l \in Inner, Head(q) = Wait(l) PROVE Wait(l) \notin Elements(Tail(q))
    <2>1. q \in RestsOf(l) BY <1>1, <1>3 DEF Rest
    <2> QED BY <1>3, <2>1, EngineRest, IORest DEF RestsOf
  <1> QED BY <1>2, <1>3 DEF Rest

\* The tasks that wait and those that set.
LEMMA RestBody ==
  ASSUME NEW a \in Tasks
  PROVE  /\ Rest(Body(a))
         /\ \A l \in Inner : Wait(l) \in Elements(Body(a)) => a = WaiterOf(l)
         /\ \A l \in Inner : a = SetterOf(l) => Signal(l) \in Elements(Body(a))
  <1>1. ASSUME NEW l \in Inner, Wait(l) \in Elements(Body(a)) PROVE a = WaiterOf(l)
    <2>1. CASE a \in TasksOf("platform") BY <1>1, <2>1, BodyTable, TaskTable, StatementParts
    <2>2. CASE a \in TasksOf("raster") BY <1>1, <2>2, BodyTable, TaskTable, StatementParts
    <2>3. CASE a \in TasksOf("ui")
      BY <1>1, <2>3, BodyTable, TaskTable, StatementParts, InnerTable DEF Inner
    <2>4. CASE a \in TasksOf("io")
      BY <1>1, <2>4, BodyTable, TaskTable, StatementParts, InnerTable DEF Inner
    <2> QED BY <2>1, <2>2, <2>3, <2>4 DEF Tasks, Runners
  <1>2. ASSUME NEW l \in Inner, a = SetterOf(l) PROVE Signal(l) \in Elements(Body(a))
    BY <1>2, BodyTable, InnerTable DEF Inner
  <1>3. Body("makeEngine") \in EngineRests /\ Body("makeIOManager") \in IORests
    BY DEF Body, EngineRests, IORests
  <1>4. \A l \in Inner : Wait(l) \in Elements(Body(a)) => Body(a) \in RestsOf(l)
    BY <1>1, <1>3, InnerTable DEF Inner
  <1> QED BY <1>1, <1>2, <1>4 DEF Rest

LEMMA InnerTasks ==
  ASSUME NEW l \in Inner
  PROVE  /\ SetterOf(l) \in Tasks /\ WaiterOf(l) \in Awaited /\ WaiterOf(l) \in Tasks
         /\ SetterOf(l) \in Awaited \cup {"setUpContext"}
  BY InnerTable, TaskTable DEF Inner, Tasks, Runners, Awaited

LEMMA InnerThread ==
  ASSUME Homes, NEW t \in Runners, NEW s \in Elements(todo[t])
  PROVE  /\ s = Wait("context") => t = host["io"]
         /\ s \in {Wait("weakIo"), Wait("unrefQueue"), Wait("snapshots")} => t = host["ui"]
         /\ s \in {Signal("weakIo"), Signal("unrefQueue")} => t = host["io"]
         /\ s \in {Signal("snapshots"), Signal("context")} => t = host["raster"]
  <1>1. PICK r \in Runners : s \in StatementsOf(r) /\ host[r] = t BY DEF Homes
  <1>2. CASE r = "platform" BY <1>1, <1>2, StatementParts DEF StatementsOf
  <1>3. CASE r = "raster" BY <1>1, <1>3, StatementParts DEF StatementsOf
  <1>4. CASE r = "ui" BY <1>1, <1>4, StatementParts DEF StatementsOf
  <1>5. CASE r = "io" BY <1>1, <1>5, StatementParts DEF StatementsOf
  <1> QED BY <1>2, <1>3, <1>4, <1>5 DEF Runners

\* Who sends what to whom.
LEMMA QueueSent ==
  ASSUME Types, Homes, Shapes, NEW t \in Runners,
         TaskStep(t) \/ StartTask(t) \/ CallStep \/ OnAnimatorDraw
  PROVE  \A u \in Runners :
           \/ queue'[u] = queue[u]
           \/ u = t /\ StartTask(t)
           \/ \E a \in Tasks :
                /\ queue'[u] = Append(queue[u], a)
                /\ Elements(queue'[u]) = Elements(queue[u]) \cup {a}
                /\ \/ a \in {"scheduleFrame", "setUpSurface", "draw", "stopRouting"}
                   \/ a = "drainIO" /\ u = host["io"] /\ u # host["raster"]
                   \/ u # "platform" /\ \E r \in Runners : RunAt(call, place, a, r)
  <1> DEFINE Sent(u, a) == \/ a \in {"scheduleFrame", "setUpSurface", "draw", "stopRouting"}
                           \/ a = "drainIO" /\ u = host["io"] /\ u # host["raster"]
                           \/ u # "platform" /\ \E r \in Runners : RunAt(call, place, a, r)
             Goal(u) == \/ queue'[u] = queue[u]
                        \/ \E a \in Tasks :
                             /\ queue'[u] = Append(queue[u], a)
                             /\ Elements(queue'[u]) = Elements(queue[u]) \cup {a}
                             /\ Sent(u, a)
  <1> HIDE DEF Sent
  <1>1. ASSUME NEW r \in Runners, NEW a \in Tasks, Sends(r, a), Sent(host[r], a)
        PROVE  \A u \in Runners : Goal(u)
    <2>1. /\ queue'[host[r]] = Append(queue[host[r]], a)
          /\ Elements(queue'[host[r]]) = Elements(queue[host[r]]) \cup {a}
          /\ \A u \in Runners : u # host[r] => queue'[u] = queue[u]
      BY <1>1, SendsDelta
    <2> QED BY <1>1, <2>1
  <1>2. CASE SendStep(t)
    <2>1. PICK a \in Tasks, r \in Runners, s \in Statements :
            /\ Executes(t, s) /\ Sends(r, a)
            /\ \/ a = "drainIO" /\ r = "io" /\ s = Run(a, r) /\ host[r] # t
               \/ a = "scheduleFrame" /\ r = "ui" /\ s = Run(a, r)
               \/ a = "setUpSurface" /\ r = "raster" /\ s = Run(a, r)
               \/ a = "draw" /\ r = "raster" /\ s = Post(a, r)
      BY <1>2, SendStepDelta
    <2>2. s \in Elements(todo[t]) BY <2>1, ExecutesDelta
    <2>3. Sent(host[r], a) BY <2>1, <2>2, StatementThread DEF Sent
    <2>4. \A u \in Runners : Goal(u) BY <1>1, <2>1, <2>3
    <2> QED BY <2>4 DEF Sent
  <1>3. CASE CallSends
    <2>1. PICK a \in Tasks, r \in Runners :
           /\ Sends(r, a)
           /\ \/ RunAt(call, place, a, r) /\ host[r] # "platform"
              \/ a = "stopRouting" /\ r = "platform" /\ call = "create" /\ place = 11
      BY <1>3, CallSendsDelta
    <2>2. Sent(host[r], a) BY <2>1 DEF Sent
    <2>3. \A u \in Runners : Goal(u) BY <1>1, <2>1, <2>2
    <2> QED BY <2>3 DEF Sent
  <1>4. CASE StartTask(t) BY <1>4, StartDelta
  <1>5. CASE UNCHANGED queue BY <1>5
  <1> QED BY <1>2, <1>3, <1>4, <1>5, InlineDelta, PlainDelta, FrameDelta, CallRunsDelta,
             PlainCallDelta, DrawDelta DEF TaskStep, CallStep
-----------------------------------------------------------------------------
(* The tasks that wait for each other.                                     *)

LEMMA RestStep ==
  ASSUME Types, Homes, Shapes, \A v \in Runners : Rest(todo[v]), NEW t \in Runners,
         TaskStep(t) \/ StartTask(t) \/ CallStep \/ OnAnimatorDraw
  PROVE  \A u \in Runners : Rest(todo'[u])
  <1>0. ASSUME NEW q, \A l \in Inner : Wait(l) \notin Elements(q) PROVE Rest(q)
    BY <1>0 DEF Rest
  <1>1. CASE SendStep(t) \/ SetStep(t) \/ PassStep(t) \/ TouchStep(t) \/ DoStep(t)
    <2>1. PICK s : Executes(t, s) BY <1>1, SendStepDelta, PlainDelta
    <2>2. /\ \A u \in Runners : u # t => todo'[u] = todo[u]
          /\ todo[t] \in Seq(Statements) /\ todo[t] # <<>> /\ todo'[t] = Tail(todo[t])
      BY <2>1, ExecutesDelta
    <2>3. Rest(todo'[t]) BY <2>2, RestTail
    <2> QED BY <2>2, <2>3
  <1>2. CASE InlineStep(t)
    <2>1. PICK a \in Tasks, r \in Runners :
           /\ a \in {"drainIO", "scheduleFrame", "setUpSurface"}
           /\ \A u \in Runners : u # t => todo'[u] = todo[u]
           /\ Elements(Tail(todo[t])) \subseteq AfterRun
           /\ Elements(todo'[t]) = Elements(Body(a)) \cup Elements(Tail(todo[t]))
      BY <1>2, InlineDelta
    <2>2. \A l \in Inner : Wait(l) \notin AfterRun BY StatementParts DEF AfterRun
    <2>3. \A l \in Inner : Wait(l) \notin Elements(Body(a))
      BY <2>1, RestBody, InnerTable DEF Inner
    <2>4. Rest(todo'[t]) BY <1>0, <2>1, <2>2, <2>3
    <2> QED BY <2>1, <2>4
  <1>3. CASE FrameStep(t)
    <2>1. /\ \A u \in Runners : u # t => todo'[u] = todo[u]
          /\ Elements(todo'[t]) = {Do("clearWaiting"), Do("notify")}
      BY <1>3, FrameDelta
    <2>2. Rest(todo'[t]) BY <1>0, <2>1, StatementParts
    <2> QED BY <2>1, <2>2
  <1>4. CASE OnAnimatorDraw
    <2>1. /\ \A u \in Runners : u # host["ui"] => todo'[u] = todo[u]
          /\ Elements(todo'[host["ui"]]) = {Use("rasterizer"), Post("draw", "raster")}
      BY <1>4, DrawDelta
    <2>2. Rest(todo'[host["ui"]]) BY <1>0, <2>1, StatementParts
    <2> QED BY <2>1, <2>2
  <1>5. CASE StartTask(t)
    <2>1. /\ \A u \in Runners : u # t => todo'[u] = todo[u]
          /\ Head(queue[t]) \in Tasks /\ todo'[t] = Body(Head(queue[t]))
      BY <1>5, StartDelta
    <2>2. Rest(todo'[t]) BY <2>1, RestBody
    <2> QED BY <2>1, <2>2
  <1>6. CASE CallRuns
    <2>1. PICK a \in Tasks, r \in Runners :
           /\ todo'["platform"] = Body(a)
           /\ \A u \in Runners : u # "platform" => todo'[u] = todo[u]
      BY <1>6, CallRunsDelta
    <2>2. Rest(todo'["platform"]) BY <2>1, RestBody
    <2> QED BY <2>1, <2>2
  <1>7. CASE UNCHANGED todo BY <1>7
  <1> QED BY <1>1, <1>2, <1>3, <1>4, <1>5, <1>6, <1>7, CallSendsDelta, PlainCallDelta
             DEF TaskStep, CallStep

\* Tasks stay in their queues until they begin.
LEMMA QueuedKept ==
  ASSUME Types, Homes, Shapes, NEW t \in Runners,
         TaskStep(t) \/ StartTask(t) \/ CallStep \/ OnAnimatorDraw, NEW a, Queued(a)
  PROVE  \/ Queued(a)'
         \/ StartTask(t) /\ Head(queue[t]) = a /\ todo'[t] = Body(a)
  <1>1. PICK u \in Runners : a \in Elements(queue[u]) BY DEF Queued
  <1>2. CASE queue'[u] = queue[u] BY <1>1, <1>2 DEF Queued
  <1>3. CASE u = t /\ StartTask(t)
    <2>1. /\ Elements(queue[t]) = {Head(queue[t])} \cup Elements(queue'[t])
          /\ todo'[t] = Body(Head(queue[t]))
      BY <1>3, StartDelta
    <2> QED BY <1>1, <1>3, <2>1 DEF Queued
  <1>4. CASE \E b \in Tasks : Elements(queue'[u]) = Elements(queue[u]) \cup {b}
    BY <1>1, <1>4 DEF Queued
  <1>5. \/ queue'[u] = queue[u]
        \/ u = t /\ StartTask(t)
        \/ \E b \in Tasks : Elements(queue'[u]) = Elements(queue[u]) \cup {b}
    BY QueueSent
  <1> QED BY <1>2, <1>3, <1>4, <1>5

\* A latch to be set stays to be set until it is.
LEMMA SignalKept ==
  ASSUME Types, Homes, Shapes, NEW t \in Runners,
         TaskStep(t) \/ StartTask(t) \/ CallStep \/ OnAnimatorDraw, NEW l, Pending(Signal(l))
  PROVE  Pending(Signal(l))' \/ l \in signalled'
  <1>1. PICK u \in Runners : Signal(l) \in Elements(todo[u]) BY DEF Pending
  <1> SUFFICES ASSUME Signal(l) \notin Elements(todo'[u]) PROVE l \in signalled'
    BY DEF Pending
  <1>2. todo'[u] # todo[u] BY <1>1
  <1>3. todo[u] # <<>> BY <1>1, NilElements
  <1>4. CASE SetStep(t)
    <2>1. PICK k \in Latches : Executes(t, Signal(k)) /\ Sets(k) BY <1>4 DEF SetStep
    <2>2. PICK s : s = Signal(k) /\ Executes(t, s) BY <2>1
    <2>3. /\ \A v \in Runners : v # t => todo'[v] = todo[v]
          /\ Elements(todo[t]) = {s} \cup Elements(todo'[t])
      BY <2>2, ExecutesDelta
    <2>4. Signal(l) = Signal(k) BY <1>1, <1>2, <2>2, <2>3
    <2>5. l = k BY <2>4, StatementParts
    <2> QED BY <2>1, <2>5 DEF Sets
  <1>5. CASE SendStep(t) \/ PassStep(t) \/ TouchStep(t) \/ DoStep(t)
    <2>1. \E s : Executes(t, s) /\ s.do # "signal"
      <3>1. CASE SendStep(t) BY <3>1, SendStepDelta, StatementParts
      <3>2. CASE PassStep(t) BY <3>2, StatementParts DEF PassStep
      <3>3. CASE TouchStep(t)
        <4>1. PICK s \in {Make(x) : x \in {"rasterizer", "engine", "io"}}
                           \cup {Use(x) : x \in Objects}
                           \cup {Drop(x) : x \in {"engine", "rasterizer", "io", "view"}} :
                Executes(t, s)
          BY <3>3 DEF TouchStep
        <4>2. s.do # "signal" BY <4>1, StatementParts
        <4> QED BY <4>1, <4>2
      <3>4. CASE DoStep(t) BY <3>4, StatementParts DEF DoStep
      <3> QED BY <1>5, <3>1, <3>2, <3>3, <3>4
    <2>2. PICK s : Executes(t, s) /\ s.do # "signal" BY <2>1
    <2>3. u = t /\ Elements(todo[t]) = {s} \cup Elements(todo'[t])
      BY <1>2, <2>2, ExecutesDelta
    <2>4. Signal(l) = s BY <1>1, <2>3
    <2> QED BY <2>2, <2>4, StatementParts
  <1>6. CASE InlineStep(t)
    <2>1. PICK a \in Tasks, r \in Runners :
           /\ a \in TasksOf(r) /\ host[r] = t
           /\ \A v \in Runners : v # t => todo'[v] = todo[v]
           /\ Run(a, r) \in Elements(todo[t])
           /\ Elements(todo[t]) = {Run(a, r)} \cup Elements(Tail(todo[t]))
           /\ Elements(todo'[t]) = Elements(Body(a)) \cup Elements(Tail(todo[t]))
      BY <1>6, InlineDelta
    <2>2. Signal(l) # Run(a, r) BY StatementParts
    <2> QED BY <1>1, <1>2, <2>1, <2>2
  <1>7. CASE FrameStep(t)
    <2>1. /\ \A v \in Runners : v # t => todo'[v] = todo[v]
          /\ Elements(todo[t]) = {Do("testWaiting")}
      BY <1>7, FrameDelta
    <2>2. Signal(l) # Do("testWaiting") BY StatementParts
    <2> QED BY <1>1, <1>2, <2>1, <2>2
  <1>8. CASE OnAnimatorDraw BY <1>2, <1>3, <1>8, DrawDelta
  <1>9. CASE StartTask(t) BY <1>2, <1>3, <1>9, StartDelta
  <1>10. CASE CallRuns BY <1>2, <1>3, <1>10, CallRunsDelta
  <1>11. CASE UNCHANGED todo BY <1>2, <1>11
  <1> QED BY <1>4, <1>5, <1>6, <1>7, <1>8, <1>9, <1>10, <1>11, CallSendsDelta, PlainCallDelta
             DEF TaskStep, CallStep

\* A latch stays set until somebody has waited for it.
LEMMA LatchKept ==
  ASSUME Types, Shapes, NEW t \in Runners,
         TaskStep(t) \/ StartTask(t) \/ CallStep \/ OnAnimatorDraw, NEW l \in signalled
  PROVE  \/ l \in signalled'
         \/ l \in Inner /\ Executes(t, Wait(l)) /\ UNCHANGED <<queue, callVars>>
         \/ CallWaits /\ WaitAt(call, place, l)
  <1>1. CASE PassStep(t)
    <2>1. PICK k \in {"weakIo", "unrefQueue", "snapshots", "context"} :
            Executes(t, Wait(k)) /\ Passes(k)
      BY <1>1 DEF PassStep
    <2>2. UNCHANGED <<queue, callVars>> BY <1>1, PlainDelta
    <2>3. l \in signalled' \/ l = k BY <2>1 DEF Passes
    <2>4. k \in Inner BY DEF Inner
    <2> QED BY <2>1, <2>2, <2>3, <2>4
  <1>2. CASE CallWaits BY <1>2 DEF CallWaits, Passes
  <1>3. CASE signalled \subseteq signalled' BY <1>3
  <1>4. SetStep(t) => signalled \subseteq signalled' BY DEF SetStep, Sets
  <1>5. TouchStep(t) \/ DoStep(t) \/ CallTouches \/ CallSetsUp => UNCHANGED signalled
    BY DEF TouchStep, DoStep, CallTouches, CallSetsUp, Touches, Has
  <1> QED BY <1>1, <1>2, <1>3, <1>4, <1>5, SendStepDelta, InlineDelta, FrameDelta, StartDelta,
             CallSendsDelta, CallRunsDelta, DrawDelta DEF TaskStep, CallStep

\* The steps of a call.
LEMMA CallPlaces ==
  ASSUME Types, CallStep
  PROVE  /\ place \in Int /\ place' = place + 1 /\ call' = call
         /\ \/ \E a \in Tasks, r \in Runners :
                 /\ RunAt(call, place, a, r)
                 /\ Queued(a)' \/ todo'["platform"] = Body(a)
            \/ \E l : WaitAt(call, place, l) /\ CallWaits
            \/ \E s : UseAt(call, place, s)
            \/ call = "create" /\ place = 11
            \/ call = "createSurface" /\ place = 4
  <1>1. place \in Int BY ProgramLength DEF Types
  <1>2. CASE CallSends
    <2>1. PICK a \in Tasks, r \in Runners :
           /\ Sends(r, a)
           /\ \/ RunAt(call, place, a, r)
              \/ a = "stopRouting" /\ call = "create" /\ place = 11
           /\ place' = place + 1 /\ call' = call
      BY <1>2, CallSendsDelta
    <2>2. Queued(a)'
      <3>1. host[r] \in Runners /\ a \in Elements(queue'[host[r]]) BY <2>1, SendsDelta
      <3> QED BY <3>1 DEF Queued
    <2> QED BY <1>1, <2>1, <2>2
  <1>3. CASE CallRuns BY <1>1, <1>3, CallRunsDelta DEF Proceeds
  <1>4. CASE CallWaits \/ CallTouches \/ CallSetsUp
    <2>1. place' = place + 1 /\ call' = call BY <1>4, PlainCallDelta
    <2>2. \/ \E l : WaitAt(call, place, l) /\ CallWaits
          \/ \E s : UseAt(call, place, s)
          \/ call = "createSurface" /\ place = 4
      BY <1>4 DEF CallWaits, CallTouches, CallSetsUp
    <2> QED BY <1>1, <2>1, <2>2
  <1> QED BY <1>2, <1>3, <1>4 DEF CallStep

\* Who waits for a latch has been sent, and begun.
LEMMA Waited ==
  ASSUME Shapes, Tokens, Chains, NEW l \in Inner, Pending(Wait(l))
  PROVE  /\ ~InGap(l, call, place) /\ ~Queued(WaiterOf(l))
         /\ call # "unborn" /\ (call = "create" => place >= 7)
  <1>1. CASE l = "context"
    <2>1. ~Queued("makeIOManager") /\ call # "unborn" /\ (call = "create" => place >= 7)
      BY <1>1 DEF Chains
    <2> QED BY <1>1, <2>1, GapTable, InnerTable
  <1>2. CASE l # "context"
    <2>1. PICK t \in Runners : Wait(l) \in Elements(todo[t]) BY DEF Pending
    <2>2. todo[t] \in EngineRests BY <1>2, <2>1 DEF Chains, Rest, RestsOf
    <2>3. Signal("engineMade") \in Elements(todo[t]) BY <2>2, EngineRest
    <2>4. call = "create" /\ place = 8 BY <2>3, StatementWindows
    <2>5. "makeEngine" \in Awaited /\ Pending(EndOf("makeEngine"))
      BY <2>3, EndTable DEF Awaited, Pending
    <2>6. ~Queued("makeEngine") BY <2>5 DEF Tokens
    <2> QED BY <1>2, <2>4, <2>6, GapTable, InnerTable DEF Inner
  <1> QED BY <1>1, <1>2

\* Who sets it is sent before.
LEMMA SetterSent ==
  ASSUME Shapes, Tokens, Chains, NEW l \in Inner, NEW r, RunAt(call, place, SetterOf(l), r)
  PROVE  ~Queued(WaiterOf(l)) /\ ~Pending(Wait(l))
  <1>1. call = "create" /\ place \in 4..6 /\ (l = "context" => place = 5)
    BY InnerTable DEF RunAt, Inner
  <1>2. ~Pending(Wait(l)) BY <1>1, Waited
  <1>3. ~Queued(WaiterOf(l)) BY <1>1, TaskWindows, InnerTable DEF Inner
  <1> QED BY <1>2, <1>3

LEMMA WaiterSent ==
  ASSUME NEW l \in Inner, NEW r, RunAt(call, place, WaiterOf(l), r)
  PROVE  InGap(l, call, place)
  <1>1. /\ l = "context" => call = "create" /\ place = 6
        /\ l # "context" => call = "create" /\ place = 7
    BY InnerTable DEF RunAt, Inner
  <1> QED BY <1>1, GapTable DEF Inner

\* The wait is new, or was owed before, but for the sending of the setter.
LEMMA OwedStep ==
  ASSUME Types, Homes, Shapes, Tokens, NEW t \in Runners,
         TaskStep(t) \/ StartTask(t) \/ CallStep \/ OnAnimatorDraw,
         NEW l \in Inner, Owed(l)'
  PROVE  Owed(l) \/ Coming(l)'
  <1>1. CASE InGap(l, call', place')
    <2>1. CASE ~CallStep
      <3>1. call' = call /\ place' = place BY <2>1, CallSame
      <3> QED BY <1>1, <3>1 DEF Owed
    <2>2. CASE CallStep
      <3>1. place \in Int /\ place' = place + 1 /\ call' = call BY <2>2, CallPlaces
      <3>2. \/ InGap(l, call, place)
            \/ /\ call = "create" /\ place \in 4..6
               /\ \A a, r : RunAt(call, place, a, r) => a = SetterOf(l)
        BY <1>1, <3>1, GapTable, InnerTable DEF Inner, RunAt
      <3>3. CASE call = "create" /\ place \in 4..6
                   /\ \A a, r : RunAt(call, place, a, r) => a = SetterOf(l)
        <4>1. /\ \A k : ~WaitAt(call, place, k)
              /\ \A s : ~UseAt(call, place, s)
          BY <3>3 DEF WaitAt, UseAt
        <4>2. PICK a \in Tasks : a = SetterOf(l) /\ (Queued(a)' \/ todo'["platform"] = Body(a))
          BY <2>2, <3>3, <4>1, CallPlaces
        <4>3. todo'["platform"] = Body(a) => Pending(Signal(l))'
          <5>1. Signal(l) \in Elements(Body(a)) /\ "platform" \in Runners
            BY <4>2, RestBody DEF Runners
          <5> QED BY <5>1 DEF Pending
        <4> QED BY <4>2, <4>3 DEF Coming
      <3> QED BY <3>2, <3>3 DEF Owed
    <2> QED BY <2>1, <2>2
  <1>2. CASE Queued(WaiterOf(l))'
    <2>1. PICK u \in Runners : WaiterOf(l) \in Elements(queue'[u]) BY <1>2 DEF Queued
    <2>2. WaiterOf(l) \in Elements(queue[u]) \/ \E r : RunAt(call, place, WaiterOf(l), r)
      <3>1. WaiterOf(l) \notin {"scheduleFrame", "setUpSurface", "draw", "stopRouting",
                                "drainIO"} BY InnerTable DEF Inner
      <3>2. u = t /\ StartTask(t) => Elements(queue'[u]) \subseteq Elements(queue[u])
        BY StartDelta
      <3> QED BY <2>1, <3>1, <3>2, QueueSent
    <2> QED BY <2>2, WaiterSent DEF Owed, Queued
  <1>3. CASE Pending(Wait(l))'
    <2>1. PICK u \in Runners : Wait(l) \in Elements(todo'[u]) BY <1>3 DEF Pending
    <2>2. \/ Wait(l) \in Elements(todo[u])
          \/ u = t /\ StartTask(t) /\ Wait(l) \in Elements(Body(Head(queue[t])))
          \/ \E a \in Tasks, r \in Runners : RunAt(call, place, a, r) /\ todo'[u] = Body(a)
      BY <2>1, TodoGrows, StatementParts
    <2>3. CASE u = t /\ StartTask(t) /\ Wait(l) \in Elements(Body(Head(queue[t])))
      <3>1. Head(queue[t]) \in Tasks /\ Head(queue[t]) \in Elements(queue[t])
        BY <2>3, StartDelta
      <3>2. Head(queue[t]) = WaiterOf(l) BY <2>3, <3>1, RestBody
      <3> QED BY <3>1, <3>2 DEF Owed, Queued
    <2>4. CASE \E a \in Tasks, r \in Runners : RunAt(call, place, a, r) /\ todo'[u] = Body(a)
      <3>1. PICK a \in Tasks, r \in Runners : RunAt(call, place, a, r) /\ todo'[u] = Body(a)
        BY <2>4
      <3>2. a = WaiterOf(l) BY <2>1, <3>1, RestBody
      <3> QED BY <3>1, <3>2, WaiterSent DEF Owed
    <2> QED BY <2>2, <2>3, <2>4 DEF Owed, Pending
  <1> QED BY <1>1, <1>2, <1>3 DEF Owed

\* The latch stays set, or to be set, until its waiter has waited.
LEMMA ComingStep ==
  ASSUME Types, Homes, Shapes, Tokens, Chains, NEW t \in Runners,
         TaskStep(t) \/ StartTask(t) \/ CallStep \/ OnAnimatorDraw,
         NEW l \in Inner, Coming(l)
  PROVE  Coming(l)' \/ ~Owed(l)'
  <1>1. CASE Queued(SetterOf(l))
    <2>1. \/ Queued(SetterOf(l))'
          \/ todo'[t] = Body(SetterOf(l))
      BY <1>1, QueuedKept
    <2>2. CASE todo'[t] = Body(SetterOf(l))
      <3>1. Signal(l) \in Elements(Body(SetterOf(l))) BY InnerTasks, RestBody
      <3> QED BY <2>2, <3>1 DEF Coming, Pending
    <2> QED BY <2>1, <2>2 DEF Coming
  <1>2. CASE Pending(Signal(l)) BY <1>2, SignalKept DEF Coming
  <1>3. CASE l \in signalled
    <2>1. \/ l \in signalled'
          \/ Executes(t, Wait(l)) /\ UNCHANGED <<queue, callVars>>
          \/ WaitAt(call, place, l)
      BY <1>3, LatchKept
    <2>2. ~WaitAt(call, place, l) BY DEF WaitAt, Inner
    <2>3. CASE Executes(t, Wait(l)) /\ UNCHANGED <<queue, callVars>>
      <3>0. PICK s : s = Wait(l) /\ Executes(t, s) BY <2>3
      <3>1. /\ todo[t] \in Seq(Statements) /\ todo[t] # <<>> /\ Head(todo[t]) = Wait(l)
            /\ todo'[t] = Tail(todo[t]) /\ Wait(l) \in Elements(todo[t])
            /\ \A u \in Runners : Elements(todo'[u]) \subseteq Elements(todo[u])
        BY <3>0, ExecutesDelta
      <3>2. ~InGap(l, call, place) /\ ~Queued(WaiterOf(l)) BY <3>1, Waited DEF Pending
      <3>3. ~InGap(l, call', place') /\ ~Queued(WaiterOf(l))'
        BY <2>3, <3>2 DEF callVars, Queued
      <3>4. Wait(l) \notin Elements(todo'[t]) BY <3>1, RestTail DEF Chains
      <3>5. ASSUME NEW u \in Runners, Wait(l) \in Elements(todo'[u]) PROVE FALSE
        <4>1. Wait(l) \in Elements(todo[u]) BY <3>1, <3>5
        <4>2. PICK r \in {"io", "ui"} : t = host[r] /\ u = host[r]
          BY <3>1, <4>1, InnerThread DEF Inner
        <4> QED BY <3>4, <3>5, <4>2
      <3> QED BY <3>3, <3>5 DEF Owed, Pending
    <2> QED BY <2>1, <2>2, <2>3 DEF Coming
  <1> QED BY <1>1, <1>2, <1>3 DEF Coming

\* Its setter is not behind its waiter.
LEMMA ChainsQueues ==
  ASSUME Types, Homes, Shapes, Tokens, Chains, Elsewhere, NEW t \in Runners,
         TaskStep(t) \/ StartTask(t) \/ CallStep \/ OnAnimatorDraw, NEW l \in Inner
  PROVE  /\ \A u \in Runners : NoneBehind(queue'[u], WaiterOf(l), {SetterOf(l)})
         /\ \A u \in Runners : Wait(l) \in Elements(todo'[u]) =>
              SetterOf(l) \notin Elements(queue'[u])
  <1> DEFINE a == SetterOf(l)
             b == WaiterOf(l)
  <1>0. /\ \A u \in Runners : queue[u] \in Seq(Tasks)
        /\ \A u \in Runners : NoneBehind(queue[u], b, {a})
        /\ \A u \in Runners : Wait(l) \in Elements(todo[u]) => a \notin Elements(queue[u])
    BY DEF Types, Chains
  <1>1. a \notin Elements(queue["platform"])
    <2>1. a # "drainIO" BY InnerTable DEF Inner
    <2> QED BY <2>1, InnerTasks DEF Elsewhere
  <1>2. a \notin {"scheduleFrame", "setUpSurface", "draw", "stopRouting", "drainIO"}
    BY InnerTable DEF Inner
  <1>3. \A u \in Runners :
           \/ queue'[u] = queue[u]
           \/ u = t /\ StartTask(t)
           \/ \E c \in Tasks :
                /\ queue'[u] = Append(queue[u], c)
                /\ Elements(queue'[u]) = Elements(queue[u]) \cup {c}
                /\ c = a => ~Queued(b) /\ ~Pending(Wait(l))
    BY <1>2, QueueSent, SetterSent
  <1>4. StartTask(t) => /\ queue[t] # <<>> /\ queue'[t] = Tail(queue[t])
                        /\ Elements(queue'[t]) \subseteq Elements(queue[t])
                        /\ Head(queue[t]) \in Tasks
    BY StartDelta
  <1> HIDE DEF a, b
  <1>5. ASSUME NEW u \in Runners PROVE NoneBehind(queue'[u], b, {a})
    <2>1. CASE queue'[u] = queue[u] BY <1>0, <2>1
    <2>2. CASE u = t /\ StartTask(t) BY <1>0, <1>4, <2>2, NoneBehindTail
    <2>3. ASSUME NEW c \in Tasks, queue'[u] = Append(queue[u], c), c = a => ~Queued(b)
          PROVE  NoneBehind(queue'[u], b, {a})
      <3>1. c \in {a} => b \notin Elements(queue[u]) BY <2>3 DEF Queued
      <3>2. NoneBehind(Append(queue[u], c), b, {a}) BY <1>0, <3>1, NoneBehindAppend
      <3> QED BY <2>3, <3>2
    <2> QED BY <1>3, <2>1, <2>2, <2>3
  <1>6. ASSUME NEW u \in Runners, Wait(l) \in Elements(todo'[u])
        PROVE  a \notin Elements(queue'[u])
    <2>1. CASE Wait(l) \in Elements(todo[u])
      BY <1>0, <1>3, <1>4, <2>1 DEF Pending
    <2>2. CASE u = t /\ StartTask(t) /\ Wait(l) \in Elements(Body(Head(queue[t])))
      <3>1. Head(queue[t]) = b BY <1>4, <2>2, RestBody DEF b
      <3> QED BY <1>0, <1>4, <2>2, <3>1, NoneBehindTail
    <2>3. CASE u = "platform" /\ UNCHANGED queue BY <1>1, <2>3 DEF a
    <2> QED BY <1>6, <2>1, <2>2, <2>3, TodoGrows, StatementParts
  <1> QED BY <1>5, <1>6 DEF a, b

\* The IO manager's task comes after the sending of the engine's.
LEMMA ContextLate ==
  ASSUME Types, Homes, Shapes, Tokens, Chains, NEW t \in Runners,
         TaskStep(t) \/ StartTask(t) \/ CallStep \/ OnAnimatorDraw, Pending(Wait("context"))'
  PROVE  ~Queued("makeIOManager")' /\ call' # "unborn" /\ (call' = "create" => place' >= 7)
  <1>0. /\ call' = call /\ place \in Int /\ (place' = place \/ (CallStep /\ place' = place + 1))
    BY CallSame, CallPlaces, ProgramLength DEF Types
  <1>1. "context" \in Inner /\ WaiterOf("context") = "makeIOManager"
    BY InnerTable DEF Inner
  <1>2. Pending(Wait("context")) => ~Queued("makeIOManager") /\ call # "unborn"
                                      /\ (call = "create" => place >= 7)
    BY DEF Chains
  <1>3. "makeIOManager" \in Awaited /\ EndOf("makeIOManager") = Signal("ioMade")
    BY EndTable DEF Awaited
  <1>4. CASE Pending(Wait("context"))
    <2>1. Queued("makeIOManager")' => \E r : RunAt(call, place, "makeIOManager", r)
      <3>1. StartTask(t) => Elements(queue'[t]) \subseteq Elements(queue[t]) BY StartDelta
      <3> QED BY <1>2, <1>4, <3>1, QueueSent DEF Queued
    <2>2. ~\E r : RunAt(call, place, "makeIOManager", r)
      BY <1>2, <1>4 DEF RunAt
    <2> QED BY <1>0, <1>2, <1>4, <2>1, <2>2
  <1>5. CASE ~Pending(Wait("context"))
    <2>1. PICK u \in Runners : Wait("context") \in Elements(todo'[u]) BY DEF Pending
    <2>2. \/ u = t /\ StartTask(t) /\ Wait("context") \in Elements(Body(Head(queue[t])))
          \/ \E a \in Tasks, r \in Runners : RunAt(call, place, a, r) /\ todo'[u] = Body(a)
      <3>1. Wait("context") \notin Elements(todo[u]) BY <1>5 DEF Pending
      <3>2. /\ Wait("context") \notin {Do("scheduleFrame"), Do("setUp")}
            /\ Wait("context") \notin {Use("io"), Signal("surfaceDestroyed"), Do("clearWaiting"),
                                      Do("notify"), Use("rasterizer"), Post("draw", "raster")}
        BY StatementParts
      <3>3. \/ u = t /\ StartTask(t) /\ Wait("context") \in Elements(Body(Head(queue[t])))
            \/ \E a \in Tasks, r \in Runners : RunAt(call, place, a, r) /\ todo'[u] = Body(a)
        BY <2>1, <3>1, <3>2, TodoGrows
      <3> QED BY <3>3
    <2>3. /\ todo'[u] = Body("makeIOManager")
          /\ Queued("makeIOManager") \/ \E r : RunAt(call, place, "makeIOManager", r)
      <3>1. CASE u = t /\ StartTask(t) /\ Wait("context") \in Elements(Body(Head(queue[t])))
        <4>1. Head(queue[t]) \in Tasks /\ Head(queue[t]) \in Elements(queue[t])
                /\ todo'[t] = Body(Head(queue[t]))
          BY <3>1, StartDelta
        <4>2. Head(queue[t]) = "makeIOManager" BY <1>1, <3>1, <4>1, RestBody
        <4> QED BY <3>1, <4>1, <4>2 DEF Queued
      <3>2. CASE \E a \in Tasks, r \in Runners : RunAt(call, place, a, r) /\ todo'[u] = Body(a)
        <4>1. PICK a \in Tasks, r \in Runners : RunAt(call, place, a, r) /\ todo'[u] = Body(a)
          BY <3>2
        <4>2. a = "makeIOManager" BY <1>1, <2>1, <4>1, RestBody
        <4> QED BY <4>1, <4>2
      <3> QED BY <2>2, <3>1, <3>2
    <2>4. Tokens' BY TokensStep
    <2>5. Signal("ioMade") \in Elements(todo'[u]) BY <2>3, BodyTable
    <2>6. ~Queued("makeIOManager")' /\ InWindow("makeIOManager", call', place')
      BY <1>3, <2>4, <2>5 DEF Tokens, Pending, Started
    <2>7. call' = "create" /\ place' \in 7..10 BY <2>6, WindowsOf
    <2> QED BY <2>6, <2>7
  <1> QED BY <1>4, <1>5

LEMMA ChainsStep ==
  ASSUME Types, Homes, Shapes, Tokens, Chains, Elsewhere, NEW t \in Runners,
         TaskStep(t) \/ StartTask(t) \/ CallStep \/ OnAnimatorDraw
  PROVE  Chains'
  <1>1. \A u \in Runners : Rest(todo'[u]) BY RestStep DEF Chains
  <1>2. \A l \in Inner : Owed(l)' => Coming(l)'
    <2> SUFFICES ASSUME NEW l \in Inner, Owed(l)', ~Coming(l)' PROVE FALSE OBVIOUS
    <2>1. Owed(l) BY OwedStep
    <2>2. Coming(l) BY <2>1 DEF Chains
    <2> QED BY <2>2, ComingStep
  <1> QED BY <1>1, <1>2, ContextLate, ChainsQueues DEF Chains
-----------------------------------------------------------------------------
(* What a call waits for is on its way.                                    *)

LEMMA ElsewhereStep ==
  ASSUME Types, Homes, Shapes, Elsewhere, NEW t \in Runners,
         TaskStep(t) \/ StartTask(t) \/ CallStep \/ OnAnimatorDraw
  PROVE  Elsewhere'
  <1>1. DrainsElsewhere' <=> DrainsElsewhere BY CallSame DEF DrainsElsewhere
  <1>2. SUFFICES ASSUME NEW a \in Awaited \cup {"setUpContext"},
                        a = "drainIO" => DrainsElsewhere,
                        a \in Elements(queue'["platform"])
                 PROVE  FALSE
    <2>1. (Awaited \cup {"setUpContext"})' = Awaited \cup {"setUpContext"} BY DEF Awaited
    <2> QED BY <1>1, <2>1 DEF Elsewhere
  <1>3. "platform" \in Runners /\ host["platform"] = "platform"
    BY HostFacts DEF Types, Runners
  <1>4. a \notin Elements(queue["platform"]) BY <1>2 DEF Elsewhere
  <1>5. StartTask(t) => Elements(queue'[t]) \subseteq Elements(queue[t]) BY StartDelta
  <1>6. a = "drainIO" => ~("platform" = host["io"] /\ "platform" # host["raster"])
    BY <1>2, <1>3 DEF DrainsElsewhere
  <1>7. a \notin {"scheduleFrame", "setUpSurface", "draw", "stopRouting"}
    BY <1>2 DEF Awaited
  <1> QED BY <1>2, <1>3, <1>4, <1>5, <1>6, <1>7, QueueSent

\* The end of the teardown on the raster thread is that of its IO task.
LEMMA DrainKept ==
  ASSUME Types, Homes, Shapes, NEW t \in Runners,
         TaskStep(t) \/ StartTask(t) \/ CallStep \/ OnAnimatorDraw, Pending(Run("drainIO", "io"))
  PROVE  \/ Pending(Run("drainIO", "io"))'
         \/ Queued("drainIO")' \/ Pending(Signal("surfaceDestroyed"))'
  <1> DEFINE run == Run("drainIO", "io")
  <1>1. PICK u \in Runners : run \in Elements(todo[u]) BY DEF Pending
  <1> SUFFICES ASSUME run \notin Elements(todo'[u])
               PROVE  Queued("drainIO")' \/ Pending(Signal("surfaceDestroyed"))'
    BY DEF Pending
  <1>2. todo'[u] # todo[u] BY <1>1
  <1>3. todo[u] # <<>> BY <1>1, NilElements
  <1>4. run.do = "run" /\ run.what = "drainIO" BY StatementParts
  <1> HIDE DEF run
  <1>5. CASE SendStep(t)
    <2>1. PICK a \in Tasks, r \in Runners, s \in Statements :
            /\ Executes(t, s) /\ Sends(r, a)
            /\ \/ a = "drainIO" /\ r = "io" /\ s = Run(a, r)
               \/ a = "scheduleFrame" /\ r = "ui" /\ s = Run(a, r)
               \/ a = "setUpSurface" /\ r = "raster" /\ s = Run(a, r)
               \/ a = "draw" /\ r = "raster" /\ s = Post(a, r)
      BY <1>5, SendStepDelta
    <2>2. u = t /\ Elements(todo[t]) = {s} \cup Elements(todo'[t])
      BY <1>2, <2>1, ExecutesDelta
    <2>3. s = run BY <1>1, <2>2
    <2>4. a = "drainIO" BY <1>4, <2>1, <2>3, StatementParts
    <2>5. host[r] \in Runners /\ a \in Elements(queue'[host[r]]) BY <2>1, SendsDelta
    <2> QED BY <2>4, <2>5 DEF Queued
  <1>6. CASE SetStep(t) \/ PassStep(t) \/ TouchStep(t) \/ DoStep(t)
    <2>1. \E s : Executes(t, s) /\ s.do # "run"
      <3>1. CASE SetStep(t) BY <3>1, StatementParts DEF SetStep
      <3>2. CASE PassStep(t) BY <3>2, StatementParts DEF PassStep
      <3>3. CASE TouchStep(t)
        <4>1. PICK s \in {Make(x) : x \in {"rasterizer", "engine", "io"}}
                           \cup {Use(x) : x \in Objects}
                           \cup {Drop(x) : x \in {"engine", "rasterizer", "io", "view"}} :
                Executes(t, s)
          BY <3>3 DEF TouchStep
        <4>2. s.do # "run" BY <4>1, StatementParts
        <4> QED BY <4>1, <4>2
      <3>4. CASE DoStep(t) BY <3>4, StatementParts DEF DoStep
      <3> QED BY <1>6, <3>1, <3>2, <3>3, <3>4
    <2>2. PICK s : Executes(t, s) /\ s.do # "run" BY <2>1
    <2>3. u = t /\ Elements(todo[t]) = {s} \cup Elements(todo'[t])
      BY <1>2, <2>2, ExecutesDelta
    <2> QED BY <1>1, <1>4, <2>2, <2>3
  <1>7. CASE InlineStep(t)
    <2>1. PICK a \in Tasks, r \in Runners :
           /\ a \in TasksOf(r) /\ host[r] = t
           /\ \A v \in Runners : v # t => todo'[v] = todo[v]
           /\ Run(a, r) \in Elements(todo[t])
           /\ Elements(todo[t]) = {Run(a, r)} \cup Elements(Tail(todo[t]))
           /\ Elements(todo'[t]) = Elements(Body(a)) \cup Elements(Tail(todo[t]))
      BY <1>7, InlineDelta
    <2>2. u = t /\ run = Run(a, r) BY <1>1, <1>2, <2>1
    <2>3. a = "drainIO" BY <1>4, <2>2, StatementParts
    <2>4. Signal("surfaceDestroyed") \in Elements(Body(a)) BY <2>3, BodyTable
    <2> QED BY <2>1, <2>4 DEF Pending
  <1>8. CASE FrameStep(t)
    <2>1. /\ \A v \in Runners : v # t => todo'[v] = todo[v]
          /\ Elements(todo[t]) = {Do("testWaiting")}
      BY <1>8, FrameDelta
    <2>2. run # Do("testWaiting") BY <1>4, StatementParts
    <2> QED BY <1>1, <1>2, <2>1, <2>2
  <1>9. CASE OnAnimatorDraw BY <1>2, <1>3, <1>9, DrawDelta
  <1>10. CASE StartTask(t) BY <1>2, <1>3, <1>10, StartDelta
  <1>11. CASE CallRuns BY <1>2, <1>3, <1>11, CallRunsDelta
  <1>12. CASE UNCHANGED todo BY <1>2, <1>12
  <1> QED BY <1>5, <1>6, <1>7, <1>8, <1>9, <1>10, <1>11, <1>12, CallSendsDelta, PlainCallDelta
             DEF TaskStep, CallStep

\* A task's end is in it.
LEMMA EndIsInBody ==
  ASSUME NEW a \in Awaited
  PROVE  EndOf(a) \in Elements(Body(a))
  BY EndTable, BodyTable DEF Awaited

\* A task that has been sent is queued, under way or over until it is waited for.
LEMMA OnWayKept ==
  ASSUME Types, Homes, Shapes, NEW t \in Runners,
         TaskStep(t) \/ StartTask(t) \/ CallStep \/ OnAnimatorDraw,
         NEW a \in Awaited, Started(a)
  PROVE  \/ Started(a)' \/ (a = "tearDown" /\ Started("drainIO")')
         \/ CallWaits /\ WaitAt(call, place, LatchOf(a))
  <1>1. CASE Queued(a)
    <2>1. Queued(a)' \/ todo'[t] = Body(a) BY <1>1, QueuedKept
    <2>2. todo'[t] = Body(a) => Pending(EndOf(a))' BY EndIsInBody DEF Pending
    <2> QED BY <2>1, <2>2 DEF Started
  <1>2. CASE Pending(EndOf(a)) /\ a # "tearDown"
    <2>1. EndOf(a) = Signal(LatchOf(a)) BY <1>2 DEF EndOf
    <2>2. Pending(Signal(LatchOf(a)))' \/ LatchOf(a) \in signalled'
      BY <1>2, <2>1, SignalKept
    <2> QED BY <2>1, <2>2 DEF Started
  <1>3. CASE Pending(EndOf(a)) /\ a = "tearDown"
    <2>1. EndOf("tearDown") = Run("drainIO", "io")
            /\ EndOf("drainIO") = Signal("surfaceDestroyed")
      BY EndTable
    <2>2. \/ Pending(EndOf("tearDown"))' \/ Queued("drainIO")' \/ Pending(EndOf("drainIO"))'
      BY <1>3, <2>1, DrainKept
    <2> QED BY <1>3, <2>2 DEF Started
  <1>4. CASE LatchOf(a) \in signalled
    <2>1. LatchOf(a) \notin Inner BY LatchTable DEF Inner, Awaited
    <2> QED BY <1>4, <2>1, LatchKept DEF Started
  <1> QED BY <1>1, <1>2, <1>3, <1>4 DEF Started

\* A window begins where the task is sent.
LEMMA WindowBegins ==
  ASSUME NEW name, NEW k \in Int, NEW a \in Awaited,
         InWindow(a, name, k + 1), ~InWindow(a, name, k)
  PROVE  /\ a # "drainIO" => \A b, r : RunAt(name, k, b, r) => b = a
         /\ a = "drainIO" => \A b, r : RunAt(name, k, b, r) => b = "tearDown"
         /\ \A l : ~WaitAt(name, k, l)
         /\ \A s : ~UseAt(name, k, s)
         /\ ~(name = "create" /\ k = 11) /\ ~(name = "createSurface" /\ k = 4)
  <1>1. \/ a = "makeRasterizer" /\ name = "create" /\ k = 4
        \/ a = "makeIOManager" /\ name = "create" /\ k = 6
        \/ a = "makeEngine" /\ name = "create" /\ k = 7
        \/ a = "createSurfaceIO" /\ name = "createSurface" /\ k = 2
        \/ a \in {"tearDown", "drainIO"} /\ name = "destroySurface" /\ k = 2
        \/ a = "screenshot" /\ name = "screenshot" /\ k = 1
        \/ a = "endIsolates" /\ name = "destroy" /\ k = 1
        \/ a = "dropEngine" /\ name = "destroy" /\ k = 3
        \/ a = "dropRasterizer" /\ name = "destroy" /\ k = 5
        \/ a = "dropIOManager" /\ name = "destroy" /\ k = 7
        \/ a = "dropView" /\ name = "destroy" /\ k = 9
    BY WindowsOf DEF Awaited
  <1>2. /\ \A l : ~WaitAt(name, k, l)
        /\ \A s : ~UseAt(name, k, s)
        /\ ~(name = "create" /\ k = 11) /\ ~(name = "createSurface" /\ k = 4)
    BY <1>1 DEF WaitAt, UseAt
  <1>3. /\ a # "drainIO" => \A b, r : RunAt(name, k, b, r) => b = a
        /\ a = "drainIO" => \A b, r : RunAt(name, k, b, r) => b = "tearDown"
    BY <1>1 DEF RunAt
  <1> QED BY <1>2, <1>3

\* It ends where the task has been waited for.
LEMMA WindowEnds ==
  ASSUME NEW name, NEW k \in Int, NEW a \in Awaited, WaitAt(name, k, LatchOf(a))
  PROVE  /\ ~InWindow(a, name, k + 1)
         /\ a = "drainIO" => ~InWindow("tearDown", name, k + 1)
  BY LatchTable, WindowsOf DEF WaitAt, Awaited

LEMMA UnderWayStep ==
  ASSUME Types, Homes, Shapes, UnderWay, NEW t \in Runners,
         TaskStep(t) \/ StartTask(t) \/ CallStep \/ OnAnimatorDraw
  PROVE  UnderWay'
  <1> SUFFICES ASSUME NEW a \in Awaited, InWindow(a, call', place') PROVE OnWay(a)'
    <2>1. Awaited' = Awaited BY DEF Awaited
    <2> QED BY <2>1 DEF UnderWay, InWindow
  <1>0. {"tearDown", "drainIO"} \subseteq Awaited BY DEF Awaited
  <1>1. CASE InWindow(a, call, place)
    <2>1. OnWay(a) BY <1>1 DEF UnderWay
    <2>2. PICK b \in Awaited : /\ Started(b)
                               /\ b # a => a \in {"tearDown", "drainIO"}
                                             /\ b \in {"tearDown", "drainIO"}
      BY <1>0, <2>1 DEF OnWay
    <2>3. ~(CallWaits /\ WaitAt(call, place, LatchOf(b)))
      <3> SUFFICES ASSUME CallWaits, WaitAt(call, place, LatchOf(b)) PROVE FALSE OBVIOUS
      <3>1. CallStep BY DEF CallStep
      <3>2. place \in Int /\ place' = place + 1 /\ call' = call BY <3>1, CallPlaces
      <3>3. b # "tearDown" BY LatchTable DEF WaitAt
      <3> QED BY <2>2, <3>2, <3>3, WindowEnds
    <2>4. Started(b)' \/ (b = "tearDown" /\ Started("drainIO")')
      BY <2>2, <2>3, OnWayKept
    <2> QED BY <2>2, <2>4 DEF OnWay
  <1>2. CASE ~InWindow(a, call, place)
    <2>1. CallStep BY <1>2, CallSame
    <2>2. place \in Int /\ place' = place + 1 /\ call' = call BY <2>1, CallPlaces
    <2>3. PICK b \in Tasks : /\ Queued(b)' \/ todo'["platform"] = Body(b)
                             /\ b = IF a = "drainIO" THEN "tearDown" ELSE a
      BY <1>2, <2>1, <2>2, CallPlaces, WindowBegins
    <2>4. b \in Awaited BY <1>0, <2>3
    <2>5. Started(b)'
      <3>1. todo'["platform"] = Body(b) => Pending(EndOf(b))'
        BY <2>4, EndIsInBody DEF Pending, Runners
      <3> QED BY <2>3, <3>1 DEF Started
    <2> QED BY <2>3, <2>5 DEF OnWay
  <1> QED BY <1>1, <1>2
-----------------------------------------------------------------------------
(* A call always goes on.                                                  *)

LEMMA InitProgress ==
  ASSUME Init
  PROVE  Progress
  <1>1. /\ call = "unborn" /\ place = 1 /\ signalled = {}
        /\ \A t \in Runners : /\ queue[t] = <<>> /\ todo[t] = <<>>
                              /\ Elements(queue[t]) = {} /\ Elements(todo[t]) = {}
    BY NilElements DEF Init
  <1>2. Chains
    <2>1. \A l : NoneBehind(<<>>, WaiterOf(l), {SetterOf(l)}) BY DEF NoneBehind
    <2>2. \A l \in Inner : ~Owed(l) BY <1>1 DEF Owed, InGap, Queued, Pending
    <2> QED BY <1>1, <2>1, <2>2 DEF Chains, Rest, Pending
  <1>3. Elsewhere BY <1>1 DEF Elsewhere, Runners
  <1>4. UnderWay
    <2>1. \A a \in Awaited : ~InWindow(a, call, 1) BY UseWindows
    <2> QED BY <1>1, <2>1 DEF UnderWay
  <1> QED BY <1>2, <1>3, <1>4 DEF Progress

\* Calls begin and end outside of all windows.
LEMMA ProgressSame ==
  ASSUME Progress, UNCHANGED <<host, queue, todo, signalled>>,
         \/ UNCHANGED <<call, place>>
         \/ /\ place' = 1 /\ call' # "unborn"
            /\ call = "unborn" <=> call' = "create"
  PROVE  Progress'
  <1>1. /\ \A a : Queued(a)' <=> Queued(a)
        /\ \A s : Pending(s)' <=> Pending(s)
    BY DEF Queued, Pending
  <1>2. \A l \in Inner : Owed(l)' => Coming(l)'
    <2> TAKE l \in Inner
    <2>1. InGap(l, call', place') => InGap(l, call, place)
      <3>1. ~InGap(l, call', 1) BY GapTable DEF Inner
      <3> QED BY <3>1
    <2>2. Owed(l)' => Owed(l) BY <1>1, <2>1 DEF Owed
    <2>3. Coming(l) => Coming(l)' BY <1>1 DEF Coming
    <2> QED BY <2>2, <2>3 DEF Progress, Chains
  <1>3. Pending(Wait("context"))' => /\ ~Queued("makeIOManager")' /\ call' # "unborn"
                                     /\ call' = "create" => place' >= 7
    BY <1>1 DEF Progress, Chains
  <1>4. Chains' BY <1>2, <1>3 DEF Progress, Chains
  <1>5. Elsewhere' BY DEF Progress, Elsewhere, DrainsElsewhere
  <1>6. UnderWay'
    <2> SUFFICES ASSUME NEW a \in Awaited, InWindow(a, call', place') PROVE OnWay(a)'
      <3>1. Awaited' = Awaited BY DEF Awaited
      <3> QED BY <3>1 DEF UnderWay, InWindow
    <2>1. ~InWindow(a, call', 1) BY UseWindows
    <2>2. OnWay(a) BY <2>1 DEF Progress, UnderWay
    <2> QED BY <1>1, <2>2 DEF OnWay, Started
  <1> QED BY <1>4, <1>5, <1>6 DEF Progress

LEMMA NextProgress ==
  ASSUME Inv, Progress, [Next]_vars
  PROVE  Progress' \/ Abandoned'
  <1>0. "ui" \in Runners BY DEF Runners
  <1>1. ASSUME NEW t \in Runners, TaskStep(t) \/ StartTask(t) \/ CallStep \/ OnAnimatorDraw
        PROVE  Progress'
    BY <1>1, ChainsStep, ElsewhereStep, UnderWayStep DEF Inv, Progress
  <1>2. CASE OnAnimatorDraw BY <1>0, <1>1, <1>2
  <1>3. ASSUME NEW t \in Runners, ThreadStep(t) PROVE Progress'
    <2>1. TaskStep(t) \/ StartTask(t) \/ CallStep
      BY <1>3, TaskStepCases, CallStepCases DEF ThreadStep, Inv
    <2> QED BY <1>1, <2>1
  <1>4. CASE \E name \in Calls : Begin(name)
    <2>1. PICK name \in Calls : Begin(name) BY <1>4
    <2>2. /\ UNCHANGED <<host, queue, todo, signalled, place>> /\ call' = name
          /\ call \in {"unborn", "none"} /\ (call = "unborn" <=> name = "create")
      BY <2>1 DEF Begin, threadVars
    <2>3. place = 1
      <3>1. Len(Program(call)) = 0 BY <2>2, ProgramTable
      <3> QED BY <3>1 DEF Inv, Types
    <2> QED BY <2>1, <2>2, <2>3, ProgressSame DEF Calls
  <1>5. Create \/ OnPlatformViewCreated \/ OnPlatformViewDestroyed \/ Screenshot \/ Destroy
          => \E name \in Calls : Begin(name)
    BY DEF Create, OnPlatformViewCreated, OnPlatformViewDestroyed, Screenshot, Destroy, Calls
  <1>6. CASE Return
    <2>1. /\ UNCHANGED <<host, queue, todo, signalled>> /\ place' = 1 /\ call' = "none"
          /\ call # "unborn"
      BY <1>6 DEF Return, threadVars
    <2> QED BY <2>1, ProgressSame
  <1>7. CASE WaitForFirstFrame \/ Waiting \/ TimeOut \/ UNCHANGED vars
    <2>1. UNCHANGED <<host, queue, todo, signalled, call, place>>
      BY <1>7 DEF WaitForFirstFrame, Waiting, CheckWaiting, FallAsleep, TimeOut, vars,
                  threadVars, callVars
    <2> QED BY <2>1, ProgressSame
  <1>8. CASE CreateWithoutView \/ CreateWithoutWaiter \/ CreateWithoutEngine
    BY <1>8, AbandonStarts
  <1> QED BY <1>2, <1>3, <1>4, <1>5, <1>6, <1>7, <1>8 DEF Next

\* No thread waits, directly or through others, for what it is to do itself.
LEMMA SomebodyGoesOn ==
  ASSUME Inv, Progress, DrainsElsewhere, call \in Calls, ~CanReturn,
         \A t \in Runners : ~Ready(t)
  PROVE  FALSE
  <1>0. host["platform"] = "platform" /\ \A r \in Runners : host[r] \in Runners
    BY HostFacts DEF Inv, Types
  <1>1. ASSUME NEW t \in Runners, todo[t] # <<>>
        PROVE  \E l \in Inner : /\ Head(todo[t]) = Wait(l) /\ l \notin signalled
                                /\ Wait(l) \in Elements(todo[t]) /\ todo[t] \in RestsOf(l)
    <2>1. /\ Head(todo[t]) \in Statements /\ Head(todo[t]) \in Elements(todo[t])
      BY <1>1, TailElements DEF Inv, Types
    <2>2. Head(todo[t]).do = "wait" /\ Head(todo[t]).what \notin signalled
      BY <1>1 DEF Ready, CanExecute, Statement
    <2>3. PICK l \in Inner : Head(todo[t]) = Wait(l)
      BY <2>1, <2>2, StatementCases, StatementParts DEF Inner
    <2> QED BY <2>1, <2>2, <2>3, StatementParts DEF Progress, Chains, Rest
  <1>2. ASSUME NEW t \in Runners, t # "platform", todo[t] = <<>>, NEW a
        PROVE  a \notin Elements(queue[t])
    <2>1. queue[t] = <<>> BY <1>0, <1>2 DEF Ready
    <2> QED BY <2>1, NilElements
  <1>3. \A l \in Inner : SetterOf(l) \notin Elements(queue["platform"])
    <2>1. \A l \in Inner : SetterOf(l) # "drainIO" BY InnerTable DEF Inner
    <2> QED BY <2>1, InnerTasks DEF Progress, Elsewhere
  \* The setter of a latch that a thread waits for is held up on another.
  <1>4. ASSUME NEW t \in Runners, NEW l \in Inner, Wait(l) \in Elements(todo[t]),
               l \notin signalled
        PROVE  \E u \in Runners : /\ todo[u] # <<>>
                                  /\ \/ Signal(l) \in Elements(todo[u])
                                     \/ SetterOf(l) \in Elements(queue[u]) /\ u # t
    <2>1. Queued(SetterOf(l)) \/ Pending(Signal(l))
      BY <1>4 DEF Progress, Chains, Owed, Coming, Pending
    <2>2. SetterOf(l) \notin Elements(queue[t]) BY <1>4 DEF Progress, Chains
    <2>3. \A u \in Runners : Signal(l) \in Elements(todo[u]) => todo[u] # <<>>
      BY NilElements
    <2>4. \A u \in Runners : SetterOf(l) \in Elements(queue[u]) => todo[u] # <<>>
      BY <1>2, <1>3
    <2> QED BY <2>1, <2>2, <2>3, <2>4 DEF Queued, Pending
  <1>5. \A t \in Runners : todo[t] # <<>> => Head(todo[t]) # Wait("context")
    <2> SUFFICES ASSUME NEW t \in Runners, todo[t] # <<>>, Head(todo[t]) = Wait("context")
                 PROVE  FALSE
      OBVIOUS
    <2>0. "context" \in Inner BY DEF Inner
    <2>1. /\ "context" \notin signalled /\ Wait("context") \in Elements(todo[t])
          /\ todo[t] \in IORests
      BY <1>1, StatementParts, InnerTable
    <2>2. t = host["io"] BY <2>1, InnerThread DEF Inv
    <2>3. PICK u \in Runners : /\ todo[u] # <<>>
                               /\ \/ Signal("context") \in Elements(todo[u])
                                  \/ "setUpContext" \in Elements(queue[u]) /\ u # t
      BY <1>4, <2>0, <2>1, InnerTable
    <2>4. u = host["raster"]
      <3>1. Signal("context") \in Elements(todo[u]) => u = host["raster"]
        BY InnerThread DEF Inv
      <3>2. "setUpContext" \in Elements(queue[u]) => u = host["raster"]
        BY TaskThread, TaskTable DEF Inv, Runners
      <3> QED BY <2>3, <3>1, <3>2
    <2>5. u # t BY <2>1, <2>3, IORest
    <2>6. PICK k \in Inner : /\ Head(todo[u]) = Wait(k) /\ k \notin signalled
                             /\ Wait(k) \in Elements(todo[u]) /\ todo[u] \in RestsOf(k)
      BY <1>1, <2>3
    <2>7. k # "context" BY <2>2, <2>5, <2>6, InnerThread DEF Inv
    <2>8. todo[u] \in EngineRests BY <2>6, <2>7 DEF RestsOf
    <2>9. PICK v \in Runners : /\ todo[v] # <<>>
                               /\ \/ Signal(k) \in Elements(todo[v])
                                  \/ SetterOf(k) \in Elements(queue[v]) /\ v # u
      BY <1>4, <2>6
    <2>10. CASE k = "snapshots"
      <3>1. v = u
        <4>1. Signal(k) \in Elements(todo[v]) => v = host["raster"]
          BY <2>10, InnerThread DEF Inv
        <4>2. "makeRasterizer" \in Elements(queue[v]) => v = host["raster"]
          BY TaskThread, TaskTable DEF Inv, Runners
        <4> QED BY <2>4, <2>9, <2>10, <4>1, <4>2, InnerTable
      <3> QED BY <2>8, <2>9, <3>1, EngineRest
    <2>11. CASE k \in {"weakIo", "unrefQueue"}
      <3>1. ~Queued("makeIOManager")
        BY <2>1 DEF Progress, Chains, Pending
      <3>2. Signal(k) \in Elements(todo[v]) BY <2>9, <2>11, <3>1, InnerTable DEF Queued
      <3>3. v = t BY <2>2, <2>11, <3>2, InnerThread DEF Inv
      <3>4. todo[t] = <<Wait("context"), Use("view")>> BY <2>1, IORest
      <3>5. Elements(<<Wait("context"), Use("view")>>) = {Wait("context"), Use("view")}
        BY ShortElements
      <3> QED BY <3>2, <3>3, <3>4, <3>5, StatementParts
    <2> QED BY <2>7, <2>10, <2>11 DEF Inner
  <1>6. \A t \in Runners : todo[t] = <<>>
    <2> SUFFICES ASSUME NEW t \in Runners, todo[t] # <<>> PROVE FALSE OBVIOUS
    <2>1. PICK l \in Inner : /\ Head(todo[t]) = Wait(l) /\ l \notin signalled
                             /\ Wait(l) \in Elements(todo[t]) /\ todo[t] \in RestsOf(l)
      BY <1>1
    <2>2. l # "context" BY <1>5, <2>1
    <2>3. t = host["ui"] /\ todo[t] \in EngineRests
      BY <2>1, <2>2, InnerThread DEF Inv, Inner, RestsOf
    <2>4. PICK u \in Runners : /\ todo[u] # <<>>
                               /\ \/ Signal(l) \in Elements(todo[u])
                                  \/ SetterOf(l) \in Elements(queue[u]) /\ u # t
      BY <1>4, <2>1
    <2>5. u # t BY <2>3, <2>4, EngineRest
    <2>6. PICK k \in Inner : Head(todo[u]) = Wait(k) /\ Wait(k) \in Elements(todo[u])
      BY <1>1, <2>4
    <2>7. k # "context" BY <1>5, <2>4, <2>6
    <2>8. u = host["ui"] BY <2>6, <2>7, InnerThread DEF Inv, Inner
    <2> QED BY <2>3, <2>5, <2>8
  <1>7. place \in 1..Len(Program(call))
    <2>1. place <= Len(Program(call)) /\ Len(Program(call)) \in Nat
      BY <1>0, <1>6, ProgramLength DEF CanReturn, Inv, Types, Runners
    <2> QED BY <2>1 DEF Inv, Types
  <1>8. PICK l : WaitAt(call, place, l) /\ l \notin signalled
    <2> DEFINE s == Program(call)[place]
    <2>1. s.do = "wait" /\ s.what \notin signalled
      BY <1>0, <1>6, <1>7 DEF Ready, CanExecute, Statement, Runners
    <2>2. \/ \E l : s = Wait(l) /\ WaitAt(call, place, l)
          \/ \E a, r : s = Run(a, r)
          \/ UseAt(call, place, s)
          \/ s = Post("stopRouting", "platform") \/ s = Do("setUp")
      BY <1>7, ProgramCases DEF Inv, Types
    <2> HIDE DEF s
    <2>3. UseAt(call, place, s) => s.do \in {"make", "use", "drop"}
      BY StatementParts DEF UseAt
    <2> QED BY <2>1, <2>2, <2>3, StatementParts
  <1>9. PICK a \in Awaited : /\ LatchOf(a) = l /\ InWindow(a, call, place)
    BY <1>8, LatchTable, WindowsOf DEF WaitAt, Awaited
  <1>10. PICK b \in Awaited : /\ Started(b)
                              /\ b = a \/ (a = "drainIO" /\ b = "tearDown")
    <2>1. OnWay(a) BY <1>9 DEF Progress, UnderWay
    <2>2. a # "tearDown" BY <1>8, <1>9, LatchTable DEF WaitAt
    <2> QED BY <2>1, <2>2 DEF OnWay, Awaited
  <1>11. Queued(b)
    <2>1. ~Pending(EndOf(b)) BY <1>6, NilElements DEF Pending
    <2>2. LatchOf(b) \notin signalled
      <3>1. "tornDown" \notin Latches BY DEF Latches
      <3> QED BY <1>8, <1>9, <1>10, <3>1, LatchTable DEF Inv, Types
    <2> QED BY <1>10, <2>1, <2>2 DEF Started
  <1>12. PICK u \in Runners : b \in Elements(queue[u]) BY <1>11 DEF Queued
  <1>13. u # "platform" BY <1>12 DEF Progress, Elsewhere
  <1> QED BY <1>2, <1>6, <1>12, <1>13

\* ~Shell goes on until it uses the engine that is not there.
LEMMA DestroyGoesOn ==
  ASSUME Abandoned, ~Crashed
  PROVE  \E t \in Runners : Ready(t)
  <1>0. /\ host["platform"] = "platform" /\ call \in {"noView", "noWaiter", "noEngine"}
        /\ "platform" \in Runners
    BY HostFacts DEF Abandoned, Failures, Runners
  <1>1. Program(call) = DestroyShell BY <1>0 DEF Program, Failures
  <1>2. CASE place = 1
    <2>1. todo["platform"] = <<>> BY <1>2 DEF Abandoned
    <2>2. Statement("platform") = Run("endIsolates", "platform")
      BY <2>1, <1>1, <1>2 DEF Statement, DestroyShell
    <2>3. place <= Len(Program(call)) BY <1>1, <1>2 DEF DestroyShell
    <2>4. Ready("platform") BY <1>0, <2>2, <2>3, StatementParts DEF Ready, CanExecute
    <2> QED BY <1>0, <2>4
  <1>3. CASE place = 2
    <2>1. todo["platform"] = <<Use("engine"), Signal("isolatesEnded")>>
      BY <1>3 DEF Abandoned, Body
    <2>2. todo["platform"] # <<>> /\ Statement("platform") = Use("engine")
      BY <2>1 DEF Statement
    <2>3. Ready("platform") BY <2>2, StatementParts DEF Ready, CanExecute
    <2> QED BY <1>0, <2>3
  <1> QED BY <1>2, <1>3 DEF Abandoned

\* A call of the embedder never waits in vain, whichever runners share threads,
\* but for the teardown of a surface by a raster thread of its own with the IO
\* runner on the platform thread: until the call is through, some thread can
\* execute a statement or begin a task.  So no thread waits at a latch of Setup,
\* or at one of a call, for a task that only it can run, nor two for each other.
THEOREM NobodyWaitsInVain == Spec => []NobodyIsStuck
  <1>1. Init => Inv /\ Progress BY InitInv, InitProgress
  <1>2. Inv /\ Progress /\ [Next]_vars => (Inv /\ Progress)' \/ Abandoned'
    BY NextInv, NextProgress
  <1>3. Abandoned /\ [Next]_vars => Abandoned' BY AbandonedKept
  <1>4. Inv /\ Progress => NobodyIsStuck
    <2>1. Inv => call \notin Failures BY DEF Inv, Types, Calls, Failures
    <2> QED BY <2>1, SomebodyGoesOn DEF NobodyIsStuck
  <1>5. Abandoned => NobodyIsStuck BY DestroyGoesOn DEF NobodyIsStuck
  <1> QED BY <1>1, <1>2, <1>3, <1>4, <1>5, PTL DEF Spec
=============================================================================
