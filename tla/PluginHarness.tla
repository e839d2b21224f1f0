--------------------------- MODULE PluginHarness ---------------------------
(***************************************************************************)
(* The life of the server's plugin tree: Loader.load (harness/loader.py)   *)
(* mounts the rows of the configured tree one after the other into a       *)
(* Context (harness/context.py), the lifespan of server.py serves, and     *)
(* Context.dispose unloads what is mounted, the last one first.            *)
(*                                                                         *)
(* What a plugin does in apply() is a sequence of steps: it injects        *)
(* services and registers services, routers, listeners and effects.  A     *)
(* registration is the pair of the plugin and the number of the step.  An  *)
(* effect is a cleanup that takes time and may raise; the other            *)
(* reversals do not.  The plugin whose effect stops the cleanup loop       *)
(* (plugins/runtime.py) shares the model with that loop, which looks up    *)
(* the state backend while others are mounted and unloaded.                *)
(*                                                                         *)
(* Each reversal is a step, so that the loop may run between two of them   *)
(* also where the code does not suspend.                                   *)
(***************************************************************************)
EXTENDS Naturals, Sequences, FiniteSets, SequencesExt

CONSTANTS
  Plugins,      \* the plugins that may be configured
  Steps,        \* per plugin, the sequence of what apply() does
  Trees,        \* the trees that may be configured: sequences of plugins
  Runtime,      \* the plugin with the cleanup loop
  Backend       \* the service the loop prunes

Kinds == {"inject", "service", "router", "listener", "effect"}

ASSUME HarnessAssumption ==
  /\ Steps \in [Plugins -> Seq([kind : Kinds, key : STRING])]
  /\ Trees \subseteq Seq(Plugins)

Refs == UNION {{p} \X DOMAIN Steps[p] : p \in Plugins}

Kind(r) == Steps[r[1]][r[2]].kind
Key(r)  == Steps[r[1]][r[2]].key

VARIABLES
  phase,     \* "load", "apply", "rollback", "serve", "dispose", "unload", "end"
  tree,      \* the rows
  row,       \* the row to be mounted
  at,        \* the next step of apply()
  order,     \* _plugin_order
  refs,      \* _plugin_effects
  live,      \* what is registered in the context
  todo,      \* the references still to be reversed
  awaited,   \* the cleanup being awaited, a set of at most one reference
  cleaned,   \* the cleanups that ran, with or without success
  result,    \* how the life ended
  loop       \* the cleanup loop

vars == <<phase, tree, row, at, order, refs, live, todo, awaited, cleaned,
          result, loop>>

Init ==
  /\ phase = "load" /\ tree \in Trees /\ row = 1 /\ at = 1
  /\ order = <<>> /\ refs = [p \in Plugins |-> <<>>]
  /\ live = {} /\ todo = <<>> /\ awaited = {} /\ cleaned = {}
  /\ result = "none" /\ loop = "none"

Registered(key) == \E r \in live : Kind(r) = "service" /\ Key(r) = key

Finish(how) == phase' = "end" /\ result' = how

-----------------------------------------------------------------------------
(* Loading.                                                                *)

\* The row cannot be resolved, or its configuration is not valid.
RowRefused ==
  /\ phase = "load" /\ row <= Len(tree)
  /\ Finish("refused")
  /\ UNCHANGED <<tree, row, at, order, refs, live, todo, awaited, cleaned, loop>>

\* Context.plugin up to apply(); a duplicate is refused.
Mount ==
  /\ phase = "load" /\ row <= Len(tree)
  /\ IF tree[row] \in ToSet(order)
       THEN Finish("refused") /\ UNCHANGED <<at, order, refs>>
       ELSE /\ phase' = "apply" /\ at' = 1
            /\ order' = Append(order, tree[row])
            /\ refs' = [refs EXCEPT ![tree[row]] = <<>>]
            /\ UNCHANGED result
  /\ UNCHANGED <<tree, row, live, todo, awaited, cleaned, loop>>

Applying == phase = "apply" /\ at <= Len(Steps[tree[row]])

\* A step succeeds: what is injected is there, a service not yet registered.
ApplyStep ==
  LET r == <<tree[row], at>>
  IN  /\ Applying
      /\ Kind(r) = "inject"  => Registered(Key(r))
      /\ Kind(r) = "service" => ~Registered(Key(r))
      /\ at' = at + 1
      /\ IF Kind(r) = "inject"
           THEN UNCHANGED <<live, refs>>
           ELSE /\ live' = live \cup {r}
                /\ refs' = [refs EXCEPT ![r[1]] = Append(@, r)]
      /\ loop' = IF r[1] = Runtime /\ Kind(r) = "effect" THEN "sleep" ELSE loop
      /\ UNCHANGED <<phase, tree, row, order, todo, awaited, cleaned, result>>

ApplyReturns ==
  /\ phase = "apply" /\ ~Applying
  /\ phase' = "load" /\ row' = row + 1
  /\ UNCHANGED <<tree, at, order, refs, live, todo, awaited, cleaned, result,
                 loop>>

\* apply() raises an Exception, before any step or behind the last: the plugin
\* is rolled back.
ApplyRaises ==
  /\ phase = "apply"
  /\ phase' = "rollback"
  /\ order' = RemoveFirst(order, tree[row])
  /\ todo' = Reverse(refs[tree[row]])
  /\ refs' = [refs EXCEPT ![tree[row]] = <<>>]
  /\ UNCHANGED <<tree, row, at, live, awaited, cleaned, result, loop>>

\* The start is cancelled during an await of apply(): no rollback.
ApplyCancelled ==
  /\ phase = "apply"
  /\ Finish("cancelled")
  /\ UNCHANGED <<tree, row, at, order, refs, live, todo, awaited, cleaned, loop>>

\* The rolled back plugin's error leaves load() and ends the start.
RolledBack ==
  /\ phase = "rollback" /\ todo = <<>> /\ awaited = {}
  /\ Finish("refused")
  /\ UNCHANGED <<tree, row, at, order, refs, live, todo, awaited, cleaned, loop>>

Loaded ==
  /\ phase = "load" /\ row = Len(tree) + 1
  /\ phase' = "serve"
  /\ UNCHANGED <<tree, row, at, order, refs, live, todo, awaited, cleaned,
                 result, loop>>

-----------------------------------------------------------------------------
(* Reversing what was registered.                                          *)

\* _reverse, up to the cleanup of an effect.
ReverseNext ==
  LET r == Head(todo)
  IN  /\ phase \in {"rollback", "unload"} /\ todo # <<>> /\ awaited = {}
      /\ live' = live \ {r} /\ todo' = Tail(todo)
      /\ awaited' = IF Kind(r) = "effect" THEN {r} ELSE {}
      /\ UNCHANGED <<phase, tree, row, at, order, refs, cleaned, result, loop>>

StopsLoop(r) == r[1] = Runtime

\* A cleanup ends well; the one of the runtime stops the loop, unless the loop
\* has died of an exception, which it then raises.
CleanupEnds ==
  \E r \in awaited :
    /\ StopsLoop(r) => loop # "dead"
    /\ awaited' = {} /\ cleaned' = cleaned \cup {r}
    /\ loop' = IF StopsLoop(r) THEN "stopped" ELSE loop
    /\ UNCHANGED <<phase, tree, row, at, order, refs, live, todo, result>>

\* Mutated form: a rollback stops at a cleanup that raises.
CleanupRaisesStops ==
  \E r \in awaited :
    /\ StopsLoop(r) => loop = "dead"
    /\ awaited' = {} /\ cleaned' = cleaned \cup {r}
    /\ Finish(IF phase = "rollback" THEN "refused" ELSE "aborted")
    /\ UNCHANGED <<tree, row, at, order, refs, live, todo, loop>>

\* A cleanup raises: a rollback goes on, an unload gives up, and dispose with
\* it.
CleanupRaises ==
  \E r \in awaited :
    /\ StopsLoop(r) => loop = "dead"
    /\ awaited' = {} /\ cleaned' = cleaned \cup {r}
    /\ IF phase = "rollback" THEN UNCHANGED <<phase, result>>
                             ELSE Finish("aborted")
    /\ UNCHANGED <<tree, row, at, order, refs, live, todo, loop>>

-----------------------------------------------------------------------------
(* Disposing.                                                              *)

ShutDown ==
  /\ phase = "serve" /\ phase' = "dispose"
  /\ UNCHANGED <<tree, row, at, order, refs, live, todo, awaited, cleaned,
                 result, loop>>

\* Mutated form: in the order of mounting.
UnloadFirst ==
  /\ phase = "dispose" /\ order # <<>>
  /\ phase' = "unload"
  /\ todo' = Reverse(refs[Head(order)])
  /\ refs' = [refs EXCEPT ![Head(order)] = <<>>]
  /\ order' = Tail(order) \o <<Head(order)>>
  /\ UNCHANGED <<tree, row, at, live, awaited, cleaned, result, loop>>

\* unload() of the last plugin: its references are given up first.
Unload ==
  /\ phase = "dispose" /\ order # <<>>
  /\ phase' = "unload"
  /\ todo' = Reverse(refs[Last(order)])
  /\ refs' = [refs EXCEPT ![Last(order)] = <<>>]
  /\ UNCHANGED <<tree, row, at, order, live, awaited, cleaned, result, loop>>

Unloaded ==
  /\ phase = "unload" /\ todo = <<>> /\ awaited = {}
  /\ phase' = "dispose" /\ order' = Front(order)
  /\ UNCHANGED <<tree, row, at, refs, live, todo, awaited, cleaned, result, loop>>

\* Nothing was registered outside plugins.
Disposed ==
  /\ phase = "dispose" /\ order = <<>>
  /\ Finish("disposed")
  /\ UNCHANGED <<tree, row, at, order, refs, live, todo, awaited, cleaned, loop>>

-----------------------------------------------------------------------------
(* The cleanup loop: cleanup_loop and prune_once.                          *)

LoopWakes ==
  /\ loop = "sleep" /\ phase # "end"
  /\ loop' = IF Registered(Backend) THEN "prune" ELSE "sleep"
  /\ UNCHANGED <<phase, tree, row, at, order, refs, live, todo, awaited, cleaned,
                 result>>

\* The backend's own cleanup has begun.
BackendClosed ==
  \E r \in awaited \cup cleaned : \E k \in DOMAIN Steps[r[1]] :
    Steps[r[1]][k] = [kind |-> "service", key |-> Backend]

\* A backend that is closed raises; one that is open may.
LoopPrunes ==
  /\ loop = "prune" /\ phase # "end"
  /\ \E next \in {"sleep", "dead"} :
       /\ next = "sleep" => ~BackendClosed
       /\ loop' = next
  /\ UNCHANGED <<phase, tree, row, at, order, refs, live, todo, awaited, cleaned,
                 result>>

-----------------------------------------------------------------------------

Load == RowRefused \/ Mount \/ ApplyStep \/ ApplyReturns \/ ApplyRaises
        \/ ApplyCancelled \/ RolledBack \/ Loaded

Reversal == ReverseNext \/ CleanupEnds \/ CleanupRaises

Dispose == Unload \/ Unloaded \/ Disposed

Next == Load \/ Reversal \/ ShutDown \/ Dispose \/ LoopWakes \/ LoopPrunes

Spec == Init /\ [][Next]_vars

-----------------------------------------------------------------------------
(* Properties.                                                             *)

\* The order names a plugin once; everything else has its type.
TypeOK ==
  /\ phase \in {"load", "apply", "rollback", "serve", "dispose", "unload", "end"}
  /\ tree \in Trees /\ row \in 1 .. Len(tree) + 1 /\ at \in Nat \ {0}
  /\ order \in Seq(Plugins) /\ IsInjective(order)
  /\ refs \in [Plugins -> Seq(Refs)]
  /\ live \subseteq Refs /\ todo \in Seq(Refs)
  /\ awaited \subseteq Refs /\ cleaned \subseteq Refs
  /\ result \in {"none", "refused", "cancelled", "disposed", "aborted"}
  /\ loop \in {"none", "sleep", "prune", "dead", "stopped"}

\* Whether r is being used: its plugin is mounted whole, or is in a cleanup.
Uses(r) ==
  /\ Kind(r) = "inject"
  /\ \/ r[1] \in ToSet(order) /\ ~(phase = "apply" /\ r[1] = tree[row] /\ at <= r[2])
        /\ ~(phase \in {"unload", "end"} /\ r[1] = Last(order))
     \/ \E c \in awaited : c[1] = r[1] /\ r[2] < c[2]

\* A service outlives its users: what a plugin injected is registered, and its
\* provider's cleanups have not begun (unless the plugin is its own provider),
\* as long as the plugin is mounted or one of its own cleanups runs, through
\* failed starts and failed shutdowns.
ServicesOutliveUsers ==
  \A r \in Refs : Uses(r) =>
    \E s \in live : /\ Kind(s) = "service" /\ Key(s) = Key(r)
                    /\ s[1] = r[1] \/ \A c \in awaited \cup cleaned : c[1] # s[1]

\* Nothing is half-mounted: whatever is registered belongs to a plugin that is
\* mounted or being rolled back; a start that was refused leaves every plugin
\* before the one that failed whole and nothing of that one, whatever its
\* cleanups raise; disposing leaves nothing, every cleanup having run; and a
\* disposal given up at a cleanup that raised has taken down every plugin
\* mounted after that one and touched none mounted before it.
NothingHalfMounted ==
  /\ \A r \in live : r[1] \in ToSet(order) \cup
                       (IF phase = "rollback" THEN {tree[row]} ELSE {})
  /\ result = "refused" =>
       /\ order = SubSeq(tree, 1, row - 1)
       /\ live = {r \in Refs : r[1] \in ToSet(order) /\ Kind(r) # "inject"}
  /\ result = "disposed" =>
       cleaned = {r \in Refs : r[1] \in ToSet(tree) /\ Kind(r) = "effect"}
  /\ result = "aborted" =>
       \A r \in Refs : Kind(r) # "inject" =>
         /\ r[1] \in ToSet(Front(order)) => r \in live
         /\ r[1] \in ToSet(tree) \ ToSet(order) =>
              r \notin live /\ (Kind(r) = "effect" => r \in cleaned)
=============================================================================
