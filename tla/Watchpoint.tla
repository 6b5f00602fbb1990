------------------------------ MODULE Watchpoint ------------------------------
(***************************************************************************)
(* core/csrc/infrastructure/watchpoint.c, with the commands of sdb.c and   *)
(* the loop of cpu.cpp that use it: a pool of NR_WP list nodes, the doubly *)
(* linked list head of the watchpoints in use and the list free_ of the    *)
(* others.                                                                 *)
(*                                                                         *)
(* The running program appears only as env, what the expressions evaluate  *)
(* to.  Whether an expression evaluates at all depends on its text alone.  *)
(***************************************************************************)
EXTENDS Naturals

CONSTANTS
  NR_WP,
  NULL,
  Expr,      \* expressions that evaluate
  Bad,       \* a text that does not; the empty one, of a fresh node, neither
  Value,
  Zero       \* the value of a fresh node, and of an expression in error

ASSUME WatchpointAssumption ==
  /\ NR_WP \in Nat \ {0}
  /\ NULL \notin 0 .. NR_WP - 1
  /\ Bad \notin Expr
  /\ Zero \in Value

VARIABLES
  head, free_,   \* first node of each list
  wp,            \* wp_pool: next, prev, val, expr of each node
  env,           \* value of every expression now
  state,         \* of the debugger; "ASSERT" and "SEGV_*", named for the
                 \* command that follows a null pointer, are its deaths
  counted,       \* RUNNING for a number of instructions (si N), not for
                 \* ever (c)
  bare           \* history: w was given without an expression

vars == <<head, free_, wp, env, state, counted, bare>>

Node == 0 .. NR_WP - 1
Text == Expr \cup {Bad}
Dead == {"ASSERT", "SEGV_w", "SEGV_d"}

-----------------------------------------------------------------------------
(* The two lists.  The n-th node from p, or NULL beyond the end.           *)
Nth(p) ==
  LET nth[k \in 0 .. NR_WP] ==
        IF k = 0 THEN p ELSE IF nth[k - 1] = NULL THEN NULL ELSE wp[nth[k - 1]].next
  IN  nth

ListFrom(p) == {Nth(p)[k] : k \in 0 .. NR_WP} \ {NULL}
Watched == ListFrom(head)

-----------------------------------------------------------------------------
(* watchpoint.c.  Each operator is the new value of wp; head and free_ are *)
(* assigned where it is used.                                              *)
new_wp ==
  [n \in Node |->
     IF n = free_ THEN [wp[n] EXCEPT !.next = head, !.prev = NULL]
     ELSE IF n = head THEN [wp[n] EXCEPT !.prev = free_]
     ELSE wp[n]]

FreeFaults(w) ==
  \/ free_ = NULL
  \/ w # head /\ (wp[w].prev = NULL \/ wp[w].next = NULL)

(* Mutant: the successor keeps pointing back at the freed node.            *)
free_wp_HalfUnlinked(w) ==
  [n \in Node |->
     CASE n = w -> [wp[n] EXCEPT !.next = free_, !.prev = NULL]
       [] n = free_ -> [wp[n] EXCEPT !.prev = w]
       [] n = wp[w].prev /\ w # head -> [wp[n] EXCEPT !.next = wp[w].next]
       [] OTHER -> wp[n]]
(* Mutant: the predecessor is not linked past the freed node.              *)
free_wp_KeptLinked(w) ==
  [n \in Node |->
     CASE n = w -> [wp[n] EXCEPT !.next = free_, !.prev = NULL]
       [] n = free_ -> [wp[n] EXCEPT !.prev = w]
       [] n = wp[w].next -> [wp[n] EXCEPT !.prev = wp[w].prev]
       [] OTHER -> wp[n]]
(* Nodes w, free_ and the two neighbours of w in use are all different.    *)
free_wp(w) ==
  [n \in Node |->
     CASE n = w -> [wp[n] EXCEPT !.next = free_, !.prev = NULL]
       [] n = free_ -> [wp[n] EXCEPT !.prev = w]
       [] n = wp[w].prev /\ w # head -> [wp[n] EXCEPT !.next = wp[w].next]
       [] n = wp[w].next -> [wp[n] EXCEPT !.prev = IF w = head THEN NULL ELSE wp[w].prev]
       [] OTHER -> wp[n]]

(* check_wp walks the list up to the first expression that fails.          *)
Evaluated ==
  LET nth == Nth(head)
  IN  {nth[k] : k \in {k \in 0 .. NR_WP : \A j \in 0 .. k : nth[j] # NULL /\ wp[nth[j]].expr # Bad}}
Changed(now) == {w \in Evaluated : now[wp[w].expr] # wp[w].val}

(* Mutant: the value seen is not recorded.                                 *)
Recorded_Never(now) == wp
Recorded(now) ==
  [n \in Node |-> IF n \in Changed(now) THEN [wp[n] EXCEPT !.val = now[wp[n].expr]] ELSE wp[n]]

(* Mutant: only the newest watchpoint decides.                             *)
check_wp_Newest(now) == head \in Changed(now)
check_wp(now) == Evaluated = Watched /\ Changed(now) # {}

-----------------------------------------------------------------------------
(* Mutant: the last node of the pool does not end the free list.           *)
Pool_NoEnd == [n \in Node |-> [next |-> n + 1, prev |-> IF n = 0 THEN NULL ELSE n - 1,
                               val |-> Zero, expr |-> Bad]]
Pool ==
  [n \in Node |-> [next |-> IF n = NR_WP - 1 THEN NULL ELSE n + 1,
                   prev |-> IF n = 0 THEN NULL ELSE n - 1,
                   val |-> Zero, expr |-> Bad]]

Init ==
  /\ head = NULL /\ free_ = 0 /\ wp = Pool
  /\ env \in [Expr -> Value]
  /\ state = "STOP" /\ counted = FALSE /\ bare = FALSE

Prompt == state \in {"STOP", "END"}

(* w with an expression that evaluates, with one that does not, or with    *)
(* none: then the node stays in use with whatever text and value it had.   *)
cmd_w_Set(e) ==
  /\ Prompt /\ free_ # NULL
  /\ wp' = [new_wp EXCEPT ![free_].val = env[e], ![free_].expr = e]
  /\ head' = free_ /\ free_' = wp[free_].next
  /\ UNCHANGED <<env, state, counted, bare>>

cmd_w_Invalid ==
  /\ Prompt /\ free_ # NULL
  /\ IF wp[free_].next = NULL
     THEN state' = "SEGV_w" /\ UNCHANGED wp
     ELSE /\ wp' = [n \in Node |->
                     CASE n = free_ -> [wp[n] EXCEPT !.prev = NULL, !.val = Zero]
                       [] n = head \/ n = wp[free_].next ->
                            [wp[n] EXCEPT !.prev = IF n = head THEN NULL ELSE free_]
                       [] OTHER -> wp[n]]
          /\ UNCHANGED state
  /\ UNCHANGED <<head, free_, env, counted, bare>>

cmd_w_Bare ==
  /\ Prompt /\ free_ # NULL
  /\ wp' = new_wp
  /\ head' = free_ /\ free_' = wp[free_].next
  /\ bare' = TRUE
  /\ UNCHANGED <<env, state, counted>>

cmd_w_NoneFree ==
  /\ Prompt /\ free_ = NULL
  /\ state' = "ASSERT"
  /\ UNCHANGED <<head, free_, wp, env, counted, bare>>

(* d NO: delete_wp finds the node whose number is NO, if it is in use.     *)
cmd_d(w) ==
  /\ Prompt /\ w \in Watched
  /\ IF FreeFaults(w)
     THEN state' = "SEGV_d" /\ UNCHANGED <<head, free_, wp>>
     ELSE /\ wp' = free_wp(w)
          /\ head' = IF w = head THEN wp[w].next ELSE head
          /\ free_' = w
          /\ UNCHANGED state
  /\ UNCHANGED <<env, counted, bare>>

(* c and si N, unless the program has ended; si 0 changes nothing.         *)
cpu_exec(si) ==
  /\ state = "STOP"
  /\ state' = "RUNNING" /\ counted' = si
  /\ UNCHANGED <<head, free_, wp, env, bare>>

(* One turn of the loop of execute; that of an si N can be the last.       *)
execute ==
  /\ state = "RUNNING"
  /\ env' \in [Expr -> Value]
  /\ \/ state' = "END" /\ UNCHANGED wp
     \/ \E last \in BOOLEAN :
          /\ last => counted
          /\ wp' = Recorded(env')
          /\ state' = IF check_wp(env') \/ last THEN "STOP" ELSE "RUNNING"
  /\ UNCHANGED <<head, free_, counted, bare>>

Next ==
  \/ \E e \in Expr : cmd_w_Set(e)
  \/ cmd_w_Invalid \/ cmd_w_Bare \/ cmd_w_NoneFree
  \/ \E w \in Node : cmd_d(w)
  \/ \E si \in BOOLEAN : cpu_exec(si)
  \/ execute

Spec == Init /\ [][Next]_vars

-----------------------------------------------------------------------------
TypeOK ==
  /\ {head, free_} \subseteq Node \cup {NULL}
  /\ wp \in [Node -> [next : Node \cup {NULL}, prev : Node \cup {NULL},
                      val : Value, expr : Text]]
  /\ env \in [Expr -> Value]
  /\ state \in {"STOP", "RUNNING", "END"} \cup Dead
  /\ counted \in BOOLEAN
  /\ bare \in BOOLEAN

(* Whatever is added and deleted, in any order, every node is in exactly   *)
(* one of the two lists, both end, and in the list in use every prev is    *)
(* the inverse of next, which free_wp trusts (watchpoint.c).               *)
ListsIntact ==
  /\ ListFrom(head) \cap ListFrom(free_) = {}
  /\ ListFrom(head) \cup ListFrom(free_) = Node
  /\ Nth(head)[NR_WP] = NULL /\ Nth(free_)[NR_WP] = NULL
  /\ head # NULL => wp[head].prev = NULL
  /\ \A w \in Watched : wp[w].next # NULL => wp[wp[w].next].prev = w

(* To the user the pool is a set of watchpoints: adding or deleting one    *)
(* leaves the number, the expression and the value of all others alone.    *)
Set == INSTANCE WatchSet WITH
  Number <- Node, What <- Text,
  watch <- [w \in Watched |-> [expr |-> wp[w].expr, val |-> wp[w].val]]
ImplementsSet == Set!Spec

(* sdb.c on the command w: "When the value of expression change, the       *)
(* program pause."  It does, within an si N too, and pauses for nothing    *)
(* else but the end of the N, as long as w was never given without an      *)
(* expression: the node cmd_w then keeps stops the scan of check_wp before *)
(* all older watchpoints.                                                  *)
SomeWatchedChanges == \E w \in Watched : wp[w].expr # Bad /\ env'[wp[w].expr] # env[wp[w].expr]

PausesExactlyOnChange ==
  [][execute /\ state' # "END" /\ ~bare
       => /\ SomeWatchedChanges => state' = "STOP"
          /\ state' = "STOP" => SomeWatchedChanges \/ counted]_vars

(* sdb.c on the command d: "Delete a watchpoint".  Deleting one that is in *)
(* use does not take the debugger down.                                    *)
DeleteNeverCrashes == state # "SEGV_d"
=============================================================================
