------------------------------ MODULE MCMiddle ------------------------------
(***************************************************************************)
(* The programs whose traces TLC gives to the middle layer: one kind for   *)
(* each of the things that can go wrong, so that none needs many events.   *)
(***************************************************************************)
EXTENDS MiddleLayer

Kind(threads, creators, party, does, addrs, maxEvents, maxBuffers) ==
    [threads |-> threads, creators |-> creators, party |-> party, does |-> does,
     addrs |-> addrs, maxEvents |-> maxEvents, maxBuffers |-> maxBuffers]

MCPrograms ==
    { \* Four threads, two of which create, join in any order, with one sync.
      Kind(0 .. 3, {0, 1}, {}, {"sync"}, {0}, 1, 0),
      \* Three threads with blocks and syncs; the main thread creates, or one it created.
      \* Tasks that get too long, before and after creates, syncs and joins.
      Kind(0 .. 2, {0, 1}, {}, {"block", "long", "sync"}, {0}, 2, 0),
      \* Three syncs: a thread's can all wait for its create, or for those of others.
      Kind(0 .. 2, {0}, {}, {"sync"}, {0}, 3, 0),
      \* Syncs and condition waits on the same address and on others.
      Kind(0 .. 1, {0}, {}, {"sync", "wait"}, {0, 1}, 3, 0),
      \* Two buffers get full, so that a thread's events are not together in the file.
      Kind(0 .. 1, {0}, {}, {"block", "sync"}, {0}, 3, 2),
      \* Two rounds of a barrier, of two created threads or of creator and created.
      Kind(0 .. 2, {0}, {1, 2}, {}, {0}, 4, 0),
      Kind(0 .. 1, {0}, {0, 1}, {"block"}, {0}, 5, 0),
      \* Two rounds with a sync before, between or after them.
      Kind(0 .. 1, {0}, {0, 1}, {"sync"}, {0}, 5, 0),
      \* One round of three threads.
      Kind(0 .. 2, {0}, 0 .. 2, {}, {0}, 3, 0) }

\* Two threads with three syncs are enough to lose one.
LostPrograms == {Kind(0 .. 2, {0}, {}, {"sync"}, {0}, 3, 0)}

=============================================================================
