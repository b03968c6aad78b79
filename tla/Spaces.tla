------------------------------- MODULE Spaces -------------------------------
(***************************************************************************)
(* What processes see of memory: each has its own pages, a byte of one is  *)
(* a byte of no other, fork() copies all of them, exec() replaces them all *)
(* or changes nothing, sbrk() adds zeros or drops the end.                 *)
(***************************************************************************)
EXTENDS Integers, Sequences

CONSTANTS Owner,        \* processes
          PageSize,
          InitImage,    \* memory of the first process
          Images,       \* what exec() makes of memory
          Growth,       \* arguments of sbrk()
          Addrs, Counts, Byte  \* where, how much and what the kernel copies out

VARIABLE space          \* process -> [alive, sz, mem], mem a sequence of pages; or Gone
spaceVars == <<space>>
Gone == [alive |-> FALSE, sz |-> 0, mem |-> <<>>]

SpacesInit == \E p \in Owner : space = [q \in Owner |-> IF q = p THEN InitImage ELSE Gone]

PagesFor(sz) == (sz + PageSize - 1) \div PageSize
ZeroPage == [user |-> TRUE, b |-> [k \in 0 .. PageSize - 1 |-> "nul"]]

Fork(p, q) ==
  /\ space[p] # Gone /\ space[q] = Gone
  /\ space' = [space EXCEPT ![q] = space[p]]

Exec(p) ==
  /\ space[p] # Gone
  /\ \E image \in Images : space' = [space EXCEPT ![p] = image]

Sbrk(p, n) ==
  LET s == space[p]
      sz == s.sz + n
  IN  /\ s # Gone /\ sz >= 0
      /\ space' = [space EXCEPT ![p] =
           [alive |-> TRUE, sz |-> sz,
            mem |-> [v \in 1 .. PagesFor(sz) |-> IF v <= Len(s.mem) THEN s.mem[v] ELSE ZeroPage]]]

(* copyout(): the bytes up to the first page that is not the user's.       *)
Copyout(p, va, x, n) ==
  LET s == space[p]
      Ok(v) == v <= Len(s.mem) /\ s.mem[v].user
      Reached(v) == \A w \in va \div PageSize + 1 .. v : Ok(w)
  IN  /\ s # Gone
      /\ space' = [space EXCEPT ![p].mem =
           [v \in DOMAIN s.mem |-> [s.mem[v] EXCEPT !.b =
              [k \in DOMAIN @ |-> LET a == (v - 1) * PageSize + k
                                  IN  IF a >= va /\ a < va + n /\ Reached(v) THEN x ELSE @[k]]]]]

Exit(p) ==
  /\ space[p] # Gone
  /\ space' = [space EXCEPT ![p] = Gone]

SpacesNext ==
  \/ \E p, q \in Owner : Fork(p, q)
  \/ \E p \in Owner : Exec(p) \/ Exit(p)
  \/ \E p \in Owner, n \in Growth : Sbrk(p, n)
  \/ \E p \in Owner, x \in Byte : \E va \in Addrs, n \in Counts : Copyout(p, va, x, n)

SpacesSpec == SpacesInit /\ [][SpacesNext]_spaceVars
=============================================================================
