--------------------------- MODULE DownloadProofs ---------------------------
(***************************************************************************)
(* Theorems of Download and DownloadRestart, for every size of the file,   *)
(* of its chunks and of the pieces with checksums, all mirrors and any     *)
(* number of connections: what the calls about mirrors, the start and the  *)
(* stop of a download, failures, data and ends of the program do to the    *)
(* inductive invariant, and what follows.                                  *)
(***************************************************************************)
EXTENDS DownloadLemmas, DownloadRestart

-----------------------------------------------------------------------------
(* A download that goes on *)

LEMMA FrameLively ==
  ASSUME NEW s, NEW t, Frame(t) = Frame(s), Lively(s),
         Going(s) /\ s.factory.known /\ ~s.factory.assignTried /\ s.factory.file = "open"
             => /\ \A m \in Mirrors : t.source[m].used => t.source[m].running
                /\ Manned(t) => Attended(t)
  PROVE  Lively(t)
<1>1. SUFFICES ASSUME Going(t)
               PROVE  /\ t.factory.known /\ ~t.factory.assignTried
                      /\ t.factory.file = "open"
                      /\ \A m \in Mirrors : t.source[m].used => t.source[m].running
                      /\ Manned(t) => Attended(t)
  BY DEF Lively
<1>2. Going(s) BY <1>1, FrameFields DEF Going
<1>3. s.factory.known /\ ~s.factory.assignTried /\ s.factory.file = "open" BY <1>2 DEF Lively
<1>4. t.factory.known /\ t.factory.file = "open" BY <1>3, FrameFields
<1>5. ~t.factory.assignTried
  <2>1. ~Postponed(s) /\ Postponed(t) = Postponed(s) BY <1>3, FrameFields DEF Postponed
  <2> QED BY <1>4, <2>1 DEF Postponed
<1> QED BY <1>2, <1>3, <1>4, <1>5

(* What decides whether a download goes on, besides who fetches what *)
Modes(t, s) ==
    /\ t.factory.status = s.factory.status /\ t.factory.startTried = s.factory.startTried
    /\ t.factory.file = s.factory.file /\ t.factory.known = s.factory.known
    /\ Postponed(t) = Postponed(s)
    /\ \A m \in Mirrors : /\ t.source[m].used = s.source[m].used
                          /\ t.source[m].running = s.source[m].running

LEMMA SteadyModes ==
  ASSUME NEW s, NEW t, Steady(t, s)
  PROVE  Modes(t, s)
<1>1. Frame(t) = Frame(s) BY DEF Steady
<1> QED BY <1>1, FrameFields DEF Modes, Steady

LEMMA ModesLively ==
  ASSUME NEW s, NEW t, Modes(t, s), Lively(s),
         s.factory.known /\ Attended(s) => Attended(t)
  PROVE  Lively(t)
<1>1. SUFFICES ASSUME Going(t)
               PROVE  /\ t.factory.known /\ ~t.factory.assignTried
                      /\ t.factory.file = "open"
                      /\ \A m \in Mirrors : t.source[m].used => t.source[m].running
                      /\ Manned(t) => Attended(t)
  BY DEF Lively
<1>2. Going(s) BY <1>1 DEF Going, Modes
<1>3. /\ s.factory.known /\ ~s.factory.assignTried /\ s.factory.file = "open"
      /\ \A m \in Mirrors : s.source[m].used => s.source[m].running
  BY <1>2 DEF Lively
<1>4. t.factory.known /\ t.factory.file = "open" BY <1>3 DEF Modes
<1>5. ~t.factory.assignTried
  <2>1. ~Postponed(s) /\ Postponed(t) = Postponed(s) BY <1>3 DEF Postponed, Modes
  <2> QED BY <1>4, <2>1 DEF Postponed
<1>6. \A m \in Mirrors : t.source[m].used => t.source[m].running BY <1>3 DEF Modes
<1>7. Manned(t) => Manned(s) BY DEF Manned, Modes
<1>8. Manned(t) => Attended(t) BY <1>2, <1>3, <1>7 DEF Lively
<1> QED BY <1>4, <1>5, <1>6, <1>8

LEMMA SteadyLively ==
  ASSUME NEW s, NEW t, Steady(t, s), Lively(s),
         s.factory.known /\ Attended(s) => Attended(t)
  PROVE  Lively(t)
BY SteadyModes, ModesLively

LEMMA RemovedLively ==
  ASSUME NEW L, NEW early, NEW D, NEW r \in Good(L, {}, Nowhere, early, D), NEW m \in Mirrors,
         NEW s, Steady(r, s), Lively(s)
  PROVE  Lively(removeMirror(r, m))
<1> DEFINE t == removeMirror(r, m)
<1>1. t \in Good(L, {}, Nowhere, early, D) /\ Frame(t) = Frame(r)
  <2>1. /\ t \in Good(L, {}, Nowhere, early, D) /\ Frame(t) = Frame(r)
        /\ r.source[m].used => t \in Good(L, {}, Nowhere, early, D \ {m})
    BY RemovedMirror
  <2> QED BY <2>1
<1>2. ~t.source[m].used BY RemovedMirror
<1>3. OthersStay(t, r, m) BY RemovedMirror
<1>4. r.factory.known /\ Going(t) /\ Manned(t) => Attended(t) BY RemovedMirror
<1> HIDE DEF t
<1>5. Frame(t) = Frame(s) BY <1>1 DEF Steady
<1>6. Going(s) => \A x \in Mirrors : t.source[x].used => t.source[x].running
  BY <1>2, <1>3 DEF Steady, Lively, OthersStay
<1>7. Going(s) => Going(t) BY <1>5, FrameFields DEF Going
<1>8. r.factory.known = s.factory.known BY FrameFields DEF Steady
<1>9. Going(s) /\ s.factory.known /\ ~s.factory.assignTried /\ s.factory.file = "open"
          => /\ \A x \in Mirrors : t.source[x].used => t.source[x].running
             /\ Manned(t) => Attended(t)
  BY <1>4, <1>6, <1>7, <1>8
<1>10. Lively(t) BY <1>5, <1>9, FrameLively
<1> QED BY <1>10 DEF t

(* While nobody has to be given chunks, a mirror that is used has some. *)
LEMMA SomebodyFetches ==
  ASSUME NEW s \in State, ~(assignNeeded(s) /\ Used(s) # <<>>), Manned(s)
  PROVE  Attended(s)
<1>1. PICK x \in Mirrors : s.source[x].used BY DEF Manned
<1>2. Used(s) \in Seq(Mirrors) /\ \E i \in 1 .. Len(Used(s)) : Used(s)[i] = x
  BY <1>1, UsedMirrors
<1>3. Used(s) # <<>> BY <1>2
<1>4. PICK i \in 1 .. Len(Used(s)) : s.source[Used(s)[i]].segments # <<>>
  BY <1>3 DEF assignNeeded
<1>5. Used(s)[i] \in Mirrors BY <1>2
<1> QED BY <1>4, <1>5, FirstPlace DEF Attended

-----------------------------------------------------------------------------
(* The loops over the mirrors *)

Idle(s) == \A m \in Mirrors : ~s.source[m].running

LEMMA UsedIsListed ==
  ASSUME NEW L, NEW X, NEW e, NEW early, NEW D, NEW s \in Good(L, X, e, early, D),
         NEW m \in Mirrors, s.source[m].used
  PROVE  s \in Good(L, X, e, early, D \ {m})
<1>1. Mirrored(s, D \ {m}) BY DEF Good, Mirrored
<1> QED BY <1>1 DEF Good

(* Another list of unused mirrors *)
WithUnused(s, q) == [s EXCEPT !.factory.unused = q]
Listed(s, E, q) == \A m \in Mirrors : s.source[m].used \/ m \in E \/ m \in ToSet(q)

LEMMA OtherUnused ==
  ASSUME NEW L, NEW X, NEW e, NEW early, NEW D, NEW E, NEW s \in Good(L, X, e, early, D),
         NEW q \in Seq(Mirrors), Listed(s, E, q)
  PROVE  LET t == WithUnused(s, q)
         IN  /\ t \in Good(L, X, e, early, E) /\ Frame(t) = Frame(s) /\ t.source = s.source
             /\ t.factory.unused = q /\ t.factory.started = s.factory.started
<1> DEFINE f == [s.factory EXCEPT !.unused = q]
           t == [factory |-> f, source |-> s.source, disk |-> s.disk]
<1>1. s \in State /\ Mirrored(s, D) BY DEF Good
<1>2. t = WithUnused(s, q) BY <1>1 DEF State, WithUnused
<1>3. s.factory \in AnyFactory BY <1>1, Parts
<1>4. /\ f \in AnyFactory /\ f.unused = q /\ f.started = s.factory.started
      /\ f.status = s.factory.status /\ f.file = s.factory.file
      /\ f.known = s.factory.known /\ f.sized = s.factory.sized
      /\ f.startTried = s.factory.startTried
      /\ f.findTried = s.factory.findTried /\ f.done = s.factory.done
      /\ f.finished = s.factory.finished /\ f.write = s.factory.write
      /\ f.assignTried = s.factory.assignTried
  BY <1>3 DEF AnyFactory
<1> HIDE DEF f
<1>5. t \in State /\ t.factory = f /\ t.disk = s.disk /\ t.source = s.source
  BY <1>1, <1>4 DEF State
<1> HIDE DEF t
<1>6. Frame(t) = Frame(s) BY <1>4, <1>5 DEF Frame, Postponed
<1>7. Mirrored(t, E) BY <1>1, <1>4, <1>5 DEF Mirrored, Listed
<1>8. t.factory.started = s.factory.started BY <1>4, <1>5
<1>9. t \in Good(L, X, e, early, E) BY <1>5, <1>6, <1>7, <1>8, OtherMirrors
<1> QED BY <1>2, <1>4, <1>5, <1>6, <1>9

LEMMA AddedMirror ==
  ASSUME NEW L, NEW early, NEW D, NEW s \in Good(L, {}, Nowhere, early, D), NEW m \in Mirrors,
         NEW used \in BOOLEAN, NEW n \in Nat \ {0}
  PROVE  LET t == addMirror(s, m, used, n)
         IN  /\ t \in Good(L, {}, Nowhere, early, D \ {m}) /\ Frame(t) = Frame(s)
             /\ Lively(s) => Lively(t)
             /\ Idle(s) /\ s.factory.file # "open" => Idle(t)
<1>1. CASE used /\ s.source[m].used
  <2> DEFINE t == setConnections(s, m, n)
  <2>1. /\ t \in Good(L, {}, Nowhere, early, D) /\ Steady(t, s)
        /\ s.factory.known => Attended(t)
    BY <1>1, SetConnections
  <2>2. addMirror(s, m, used, n) = t BY <1>1 DEF addMirror
  <2> HIDE DEF t
  <2>3. t.source[m].used /\ Frame(t) = Frame(s) BY <1>1, <2>1 DEF Steady
  <2>4. t \in Good(L, {}, Nowhere, early, D \ {m}) BY <2>1, <2>3, UsedIsListed
  <2>5. Lively(s) => Lively(t) BY <2>1, SteadyLively
  <2>6. Idle(s) => Idle(t) BY <2>1 DEF Idle, Steady
  <2> QED BY <2>2, <2>3, <2>4, <2>5, <2>6
<1>2. CASE used /\ ~s.source[m].used
  <2> DEFINE t == addSource(s, m, n)
  <2>1. /\ t \in Good(L, {}, Nowhere, early, D \ {m}) /\ Frame(t) = Frame(s)
        /\ t.source[m].used
        /\ t.source[m].running => Going(s) /\ s.factory.file = "open"
        /\ OthersStay(t, s, m)
        /\ s.factory.known => Attended(t)
        /\ Going(s) /\ s.factory.known /\ ~s.factory.assignTried /\ s.factory.file = "open"
               => t.source[m].running
    BY <1>2, AddedSource
  <2>2. addMirror(s, m, used, n) = t BY <1>2 DEF addMirror
  <2> HIDE DEF t
  <2>3. ASSUME Lively(s) PROVE Lively(t)
    <3>1. Going(s) /\ s.factory.known /\ ~s.factory.assignTried /\ s.factory.file = "open"
              => \A x \in Mirrors : t.source[x].used => t.source[x].running
      BY <2>1, <2>3 DEF OthersStay, Lively
    <3> QED BY <2>1, <2>3, <3>1, FrameLively
  <2>4. Idle(s) /\ s.factory.file # "open" => Idle(t) BY <2>1 DEF Idle, OthersStay
  <2> QED BY <2>1, <2>2, <2>3, <2>4
<1>3. CASE ~used /\ s.source[m].used
  <2>1. addMirror(s, m, used, n) = removeMirror(s, m) BY <1>3 DEF addMirror
  <2> DEFINE t == removeMirror(s, m)
  <2>2. t \in Good(L, {}, Nowhere, early, D \ {m}) /\ Frame(t) = Frame(s)
    BY <1>3, RemovedMirror
  <2>4. OthersStay(t, s, m) /\ ~t.source[m].used BY <2>2, RemovedMirror
  <2> HIDE DEF t
  <2>3. Lively(s) => Lively(removeMirror(s, m)) BY SteadySteps, RemovedLively
  <2>5. Idle(s) => Idle(t) BY <2>2, <2>4 DEF Idle, OthersStay, Good, Mirrored
  <2> QED BY <2>1, <2>2, <2>3, <2>5 DEF t
<1>4. CASE ~used /\ ~s.source[m].used
  <2> DEFINE q == Append(s.factory.unused, m)
             t == WithUnused(s, q)
             u == [t EXCEPT !.source[m].connections = n]
  <2>1. s \in State /\ Mirrored(s, D) BY DEF Good
  <2>2. s.factory.unused \in Seq(Mirrors) BY <2>1, Parts DEF AnyFactory
  <2>3. addMirror(s, m, used, n) = u
    <3> HIDE DEF t, u
    <3>1. addMirror(s, m, used, n) =
              [s EXCEPT !.factory.unused = Append(@, m), !.source[m].connections = n]
      BY <1>4 DEF addMirror
    <3>2. [s EXCEPT !.factory.unused = Append(@, m), !.source[m].connections = n]
              = [s EXCEPT !.factory.unused = q, !.source[m].connections = n]
      OBVIOUS
    <3> QED BY <3>1, <3>2 DEF t, u, WithUnused
  <2>4. q \in Seq(Mirrors) /\ ToSet(q) = ToSet(s.factory.unused) \cup {m}
    BY <2>2, NowListed
  <2> HIDE DEF q
  <2> DEFINE E == D \ {m}
  <2>5. Listed(s, E, q) BY <2>1, <2>4 DEF Mirrored, Listed
  <2> HIDE DEF E
  <2>6. t \in Good(L, {}, Nowhere, early, E) /\ Frame(t) = Frame(s) /\ t.source = s.source
    BY <2>4, <2>5, OtherUnused
  <2> HIDE DEF t
  <2>7. u \in Good(L, {}, Nowhere, early, E) /\ Steady(u, t) /\ Places(u) = Places(t)
    BY <2>6, OtherConnections
  <2> HIDE DEF u
  <2>8. ASSUME Lively(s) PROVE Lively(u)
    <3>1. Places(t) = Places(s) BY <2>6 DEF Places
    <3>2. t.factory.finished = s.factory.finished /\ u.factory.finished = t.factory.finished
      BY <2>6, <2>7, FrameFields DEF Steady
    <3>3. Attended(t) = Attended(s) /\ Attended(u) = Attended(t) BY <2>7, <3>1, <3>2 DEF Attended
    <3>4. Manned(t) = Manned(s) BY <2>6 DEF Manned
    <3>5. Going(s) => /\ \A x \in Mirrors : t.source[x].used => t.source[x].running
                      /\ Manned(t) => Attended(t)
      BY <2>6, <2>8, <3>3, <3>4 DEF Lively
    <3>6. Lively(t) BY <2>6, <2>8, <3>5, FrameLively
    <3> QED BY <2>7, <3>3, <3>6, SteadyLively
  <2>9. Idle(s) => Idle(u) BY <2>6, <2>7 DEF Idle, Steady
  <2> QED BY <2>3, <2>6, <2>7, <2>8, <2>9 DEF Steady, E
<1> QED BY <1>1, <1>2, <1>3, <1>4

(* setMirrors looks at every mirror. *)
LEMMA NewMirrors ==
  ASSUME NEW L, NEW early, NEW D, NEW s \in Good(L, {}, Nowhere, early, D),
         NEW mirrors \in [Mirrors -> [used : BOOLEAN, connections : Nat \ {0}]]
  PROVE  LET t == setMirrors(s, mirrors)
         IN  /\ t \in Good(L, {}, Nowhere, early, {}) /\ Frame(t) = Frame(s)
             /\ Lively(s) => Lively(t)
             /\ Idle(s) /\ s.factory.file # "open" => Idle(t)
<1> DEFINE N == Len(MirrorOrder)
           Rest(n) == {MirrorOrder[k] : k \in n + 1 .. N}
           G(E) == {t \in Good(L, {}, Nowhere, early, E) :
                        /\ Frame(t) = Frame(s) /\ (Lively(s) => Lively(t))
                        /\ Idle(s) /\ s.factory.file # "open" => Idle(t)}
           A == G(Mirrors)
           empty == <<>>
           init0 == WithUnused(s, empty)
           Step(t, m) == addMirror(t, m, mirrors[m].used, mirrors[m].connections)
           Loop(f) == f = [n \in 0 .. N |-> IF n = 0 THEN init0
                                            ELSE Step(f[n - 1], MirrorOrder[n])]
           after == CHOOSE f : Loop(f)
           step == [p \in A \X (1 .. N) |-> Step(p[1], MirrorOrder[p[2]])]
           F == [n \in Nat |-> G(Rest(n))]
<1>1. N \in Nat /\ \A n \in 1 .. N : MirrorOrder[n] \in Mirrors
  BY MirrorsInOrder, MirrorsAssumption
<1>2. empty \in Seq(Mirrors) OBVIOUS
<1> HIDE DEF empty
<1>3. init0 \in A
  <2>1. Listed(s, Mirrors, empty) BY DEF Listed
  <2>2. init0 \in Good(L, {}, Nowhere, early, Mirrors) /\ Frame(init0) = Frame(s)
    BY <1>2, <2>1, OtherUnused
  <2>20. init0.source = s.source
    <3>1. s \in State BY DEF Good
    <3> QED BY <3>1 DEF State, WithUnused, init0
  <2> HIDE DEF init0
  <2>3. ASSUME Lively(s) PROVE Lively(init0)
    <3>1. Places(init0) = Places(s) BY <2>20 DEF Places
    <3>2. init0.factory.finished = s.factory.finished BY <2>2, FrameFields
    <3>3. Attended(init0) = Attended(s) BY <3>1, <3>2 DEF Attended
    <3>4. Manned(init0) = Manned(s) BY <2>20 DEF Manned
    <3>5. Going(s) => /\ \A x \in Mirrors : init0.source[x].used => init0.source[x].running
                      /\ Manned(init0) => Attended(init0)
      BY <2>20, <2>3, <3>3, <3>4 DEF Lively
    <3> QED BY <2>2, <2>3, <3>5, FrameLively
  <2>4. Idle(s) => Idle(init0) BY <2>20 DEF Idle
  <2> QED BY <2>2, <2>3, <2>4
<1> HIDE DEF init0
<1>4. ASSUME NEW E, NEW t \in G(E), NEW m \in Mirrors
      PROVE  Step(t, m) \in G(E \ {m}) /\ Step(t, m) \in G(E)
  <2>1. mirrors[m].used \in BOOLEAN /\ mirrors[m].connections \in Nat \ {0} OBVIOUS
  <2> DEFINE used == mirrors[m].used
             number == mirrors[m].connections
  <2> HIDE DEF used, number
  <2>5. used \in BOOLEAN /\ number \in Nat \ {0} /\ t \in Good(L, {}, Nowhere, early, E)
    BY <2>1 DEF used, number
  <2> HIDE DEF G
  <2>2. /\ Step(t, m) \in Good(L, {}, Nowhere, early, E \ {m}) /\ Frame(Step(t, m)) = Frame(t)
        /\ Lively(t) => Lively(Step(t, m))
        /\ Idle(t) /\ t.factory.file # "open" => Idle(Step(t, m))
    <3>1. /\ addMirror(t, m, used, number) \in Good(L, {}, Nowhere, early, E \ {m})
          /\ Frame(addMirror(t, m, used, number)) = Frame(t)
      <4>1. addMirror(t, m, used, number) \in Good(L, {}, Nowhere, early, E \ {m})
        BY <2>5, AddedMirror
      <4>2. /\ addMirror(t, m, used, number) \in Good(L, {}, Nowhere, early, E \ {m})
            /\ Frame(addMirror(t, m, used, number)) = Frame(t)
            /\ Lively(t) => Lively(addMirror(t, m, used, number))
        BY <2>5, <4>1, AddedMirror
      <4> QED BY <4>2
    <3>3. Lively(t) => Lively(addMirror(t, m, used, number)) BY <2>5, AddedMirror
    <3>4. Idle(t) /\ t.factory.file # "open" => Idle(addMirror(t, m, used, number))
      BY <2>5, AddedMirror
    <3>2. Step(t, m) = addMirror(t, m, used, number) BY DEF used, number
    <3> HIDE DEF Step
    <3> QED BY <3>1, <3>2, <3>3, <3>4
  <2>4. t.factory.file = s.factory.file BY FrameFields DEF G
  <2>3. E \ {m} \subseteq E OBVIOUS
  <2> HIDE DEF Step
  <2> QED BY <2>2, <2>3, <2>4, MoreOpen DEF G
<1> HIDE DEF G, Step
<1>5. step \in [A \X (1 .. N) -> A] BY <1>1, <1>4
<1>6. \A t \in A, n \in 1 .. N : step[<<t, n>>] = Step(t, MirrorOrder[n]) OBVIOUS
<1> HIDE DEF step
<1>7. Iterations(A, init0, N, step) # {} BY <1>1, <1>3, <1>5, IterationsExist
<1>8. PICK g : Loop(g)
  <2>1. PICK g \in Iterations(A, init0, N, step) : TRUE BY <1>7
  <2>2. \A n \in 1 .. N : n - 1 \in 0 .. N BY <1>1
  <2>3. \A n \in 1 .. N : g[n] = Step(g[n - 1], MirrorOrder[n])
    BY <1>6, <2>2 DEF Iterations
  <2>4. Loop(g) BY <1>1, <2>3 DEF Iterations
  <2> QED BY <2>4
<1>9. Loop(after) BY <1>8
<1> HIDE DEF after, N
<1>10. after[0] = init0 BY <1>1, <1>9
<1>11. \A n \in 1 .. N : after[n] = Step(after[n - 1], MirrorOrder[n])
  <2>1. \A n \in 1 .. N : n \in 0 .. N /\ n # 0 BY <1>1
  <2> QED BY <1>9, <2>1
<1>12. F[0] = A /\ F[N] = G({}) /\ \A n \in 1 .. N : F[n - 1] = G(Rest(n - 1)) /\ F[n] = G(Rest(n))
  <2>1. Rest(0) = Mirrors BY <1>1, MirrorsInOrder DEF N
  <2>2. Rest(N) = {} BY <1>1
  <2> HIDE DEF Rest
  <2>3. F[0] = A /\ F[N] = G({}) BY <1>1, <2>1, <2>2
  <2>4. \A n \in 1 .. N : n \in Nat /\ n - 1 \in Nat BY <1>1
  <2> QED BY <2>3, <2>4
<1>13. ASSUME NEW n \in 1 .. N, after[n - 1] \in F[n - 1] PROVE after[n] \in F[n]
  <2>1. Rest(n) = Rest(n - 1) \ {MirrorOrder[n]}
    <3>1. \A k \in n + 1 .. N : MirrorOrder[k] # MirrorOrder[n]
      BY <1>1, MirrorsAssumption DEF IsInjective, N
    <3>2. \A k : k \in n .. N <=> k = n \/ k \in n + 1 .. N BY <1>1
    <3>3. (n - 1) + 1 = n BY <1>1
    <3> QED BY <3>1, <3>2, <3>3
  <2> HIDE DEF Rest, F
  <2> QED BY <1>1, <1>4, <1>11, <1>12, <1>13, <2>1
<1> HIDE DEF F, Rest
<1>14. \A n \in 0 .. N : after[n] \in F[n]
  BY <1>1, <1>3, <1>10, <1>12, <1>13, IterationsAdvance
<1>15. after[N] \in G({}) BY <1>1, <1>12, <1>14
<1>16. setMirrors(s, mirrors) = after[N]
  BY DEF setMirrors, ForEach, after, init0, empty, Step, N, WithUnused
<1> QED BY <1>15, <1>16 DEF G

-----------------------------------------------------------------------------
(* What start does with the mirrors *)

(* The start goes on with nothing that runs. *)
Quiet(s) == s.factory.status # "Running" \/ s.factory.startTried

LEMMA TakenMirror ==
  ASSUME NEW L, NEW D, NEW early, NEW s \in Good(L, {}, Nowhere, early, D), s.factory.unused # <<>>,
         \A m \in Mirrors : ~s.source[m].used
  PROVE  LET t == takeFirstUnused(s)
         IN  /\ t \in Good(L, {}, Nowhere, early, D) /\ Frame(t) = Frame(s)
             /\ Quiet(s) => Idle(t)
             /\ s.factory.known => Attended(t)
<1> DEFINE m == Head(s.factory.unused)
           q == Tail(s.factory.unused)
           E == D \cup {m}
           u == WithUnused(s, q)
           n == s.source[m].connections
           t == addSource(u, m, n)
<1>1. s \in State /\ Mirrored(s, D) BY DEF Good
<1>2. s.factory.unused \in Seq(Mirrors) BY <1>1, Parts DEF AnyFactory
<1>3. m \in Mirrors /\ q \in Seq(Mirrors) BY <1>2
<1>4. Listed(s, E, q)
  <2> DEFINE list == s.factory.unused
  <2>1. ASSUME NEW y \in ToSet(list), y # m PROVE y \in ToSet(q)
    <3>1. /\ Len(list) \in Nat /\ Len(q) = Len(list) - 1 /\ m = list[1]
          /\ \A i \in 1 .. Len(q) : q[i] = list[i + 1]
      BY <1>2
    <3>2. PICK i \in 1 .. Len(list) : y = list[i] BY <1>2, <2>1 DEF ToSet
    <3>3. i - 1 \in 1 .. Len(q) /\ (i - 1) + 1 = i BY <2>1, <3>1, <3>2
    <3>4. q[i - 1] = y BY <3>1, <3>2, <3>3
    <3> HIDE DEF q
    <3> QED BY <1>3, <3>3, <3>4 DEF ToSet
  <2> HIDE DEF q, m
  <2> QED BY <1>1, <2>1 DEF Mirrored, Listed, E
<1>5. n \in Nat \ {0} /\ ~s.source[m].used /\ ~s.source[m].running
  BY <1>1, <1>3, Parts DEF Mirrored
<1>6. t = takeFirstUnused(s) BY DEF takeFirstUnused, WithUnused
<1> HIDE DEF m, q, E
<1>7. /\ u \in Good(L, {}, Nowhere, early, E) /\ Frame(u) = Frame(s) /\ u.source = s.source
  BY <1>3, <1>4, OtherUnused
<1> HIDE DEF u, n
<1>8. /\ t \in Good(L, {}, Nowhere, early, E \ {m}) /\ Frame(t) = Frame(u)
      /\ t.source[m].running => Going(u)
      /\ \A x \in Mirrors : x # m => t.source[x].running = u.source[x].running
      /\ u.factory.known => Attended(t)
  <2>1. ~u.source[m].used BY <1>5, <1>7
  <2>2. u \in Good(L, {}, Nowhere, early, E) BY <1>7
  <2>3. t \in Good(L, {}, Nowhere, early, E \ {m}) /\ Frame(t) = Frame(u)
    <3>1. /\ t \in Good(L, {}, Nowhere, early, E \ {m}) /\ Frame(t) = Frame(u)
          /\ t.source[m].used /\ OthersStay(t, u, m)
          /\ u.factory.known => Attended(t)
      BY <1>3, <1>5, <2>1, <2>2, AddedSource
    <3> QED BY <3>1
  <2>4. t.source[m].running => Going(u)
    BY <1>3, <1>5, <2>1, <2>2, AddedSource
  <2>5. OthersStay(t, u, m) BY <1>3, <1>5, <2>1, <2>2, AddedSource
  <2>6. u.factory.known => Attended(t) BY <1>3, <1>5, <2>1, <2>2, AddedSource
  <2> QED BY <2>3, <2>4, <2>5, <2>6 DEF OthersStay
<1>9. t \in Good(L, {}, Nowhere, early, D)
  <2>1. E \ {m} \subseteq D BY DEF E
  <2> QED BY <1>8, <2>1, MoreOpen
<1>10. /\ u.factory.status = s.factory.status
      /\ u.factory.startTried = s.factory.startTried
      /\ u.factory.known = s.factory.known
  BY <1>7, FrameFields
<1>11. Quiet(s) => Idle(t)
  <2>1. \A x \in Mirrors : ~s.source[x].running BY <1>1 DEF Mirrored
  <2> HIDE DEF t
  <2> QED BY <1>7, <1>8, <1>10, <2>1 DEF Quiet, Idle, Going
<1> HIDE DEF t
<1> QED BY <1>6, <1>7, <1>8, <1>9, <1>10, <1>11

LEMMA AssignedAll ==
  ASSUME NEW L, NEW early, NEW D, NEW s \in Good(L, {}, Nowhere, early, D)
  PROVE  LET t == ForEachUsed(s, assignSegments)
         IN  /\ t \in Good(L, {}, Nowhere, early, D) /\ Steady(t, s)
             /\ s.factory.known /\ Attended(s) => Attended(t)
<1> DEFINE A == {t \in Around(L, s, early, D) :
                     s.factory.known /\ Attended(s) => Attended(t)}
           list == Used(s)
           N == Len(list)
           Loop(f) == f = [n \in 0 .. N |-> IF n = 0 THEN s
                                            ELSE assignSegments(f[n - 1], list[n])]
           after == CHOOSE f : Loop(f)
           step == [p \in A \X (1 .. N) |-> assignSegments(p[1], list[p[2]])]
<1>1. N \in Nat /\ \A n \in 1 .. N : list[n] \in Mirrors /\ s.source[list[n]].used
  BY UsedMirrors
<1>2. s \in A BY SteadySteps DEF Around
<1> HIDE DEF list, N
<1>3. ASSUME NEW t \in A, NEW n \in 1 .. N PROVE assignSegments(t, list[n]) \in A
  <2>1. t \in Good(L, {}, Nowhere, early, D) /\ Steady(t, s) BY DEF Around
  <2>2. list[n] \in Mirrors /\ t.source[list[n]].used BY <1>1, <2>1 DEF Steady
  <2> DEFINE u == assignSegments(t, list[n])
  <2>3. /\ u \in Good(L, {}, Nowhere, early, D) /\ Steady(u, t)
        /\ t.factory.known => Attended(u)
    BY <2>1, <2>2, AssignedSegments
  <2>4. t.factory.known = s.factory.known BY <2>1, FrameFields DEF Steady
  <2> HIDE DEF u
  <2>5. Steady(u, s) BY <2>1, <2>3, SteadySteps
  <2> QED BY <2>3, <2>4, <2>5 DEF Around, u
<1> HIDE DEF A
<1>4. step \in [A \X (1 .. N) -> A] BY <1>3
<1>5. \A t \in A, n \in 1 .. N : step[<<t, n>>] = assignSegments(t, list[n]) OBVIOUS
<1> HIDE DEF step
<1>6. Iterations(A, s, N, step) # {} BY <1>1, <1>2, <1>4, IterationsExist
<1>7. PICK g : Loop(g)
  <2>1. PICK g \in Iterations(A, s, N, step) : TRUE BY <1>6
  <2>2. \A n \in 1 .. N : n - 1 \in 0 .. N BY <1>1
  <2>3. \A n \in 1 .. N : g[n] = assignSegments(g[n - 1], list[n])
    BY <1>5, <2>2 DEF Iterations
  <2>4. Loop(g) BY <1>1, <2>3 DEF Iterations
  <2> QED BY <2>4
<1>8. Loop(after) BY <1>7
<1> HIDE DEF after
<1>9. after[0] = s BY <1>1, <1>8
<1>10. \A n \in 1 .. N : after[n] = assignSegments(after[n - 1], list[n])
  <2>1. \A n \in 1 .. N : n \in 0 .. N /\ n # 0 BY <1>1
  <2> QED BY <1>8, <2>1
<1>11. \A n \in 0 .. N : after[n] \in A BY <1>1, <1>2, <1>3, <1>9, <1>10, IterationsStay
<1>12. after[N] \in A BY <1>1, <1>11
<1>13. after[N] = ForEachUsed(s, assignSegments) BY DEF ForEachUsed, ForEach, after, list, N
<1> QED BY <1>12, <1>13 DEF A, Around

(* All mirrors are removed. *)
LEMMA RemovedMirrors ==
  ASSUME NEW L, NEW early, NEW s \in Good(L, {}, Nowhere, early, {})
  PROVE  LET t == ForEachUsed(s, removeMirror)
         IN  /\ t \in Good(L, {}, Nowhere, early, {}) /\ Frame(t) = Frame(s)
             /\ \A m \in Mirrors : ~t.source[m].used
<1> DEFINE list == Used(s)
           N == Len(list)
           G(n) == {t \in Good(L, {}, Nowhere, early, {}) :
                        /\ Frame(t) = Frame(s)
                        /\ \A m \in Mirrors : t.source[m].used => s.source[m].used
                        /\ \A k \in 1 .. n : ~t.source[list[k]].used}
           A == G(0)
           Loop(f) == f = [n \in 0 .. N |-> IF n = 0 THEN s
                                            ELSE removeMirror(f[n - 1], list[n])]
           after == CHOOSE f : Loop(f)
           step == [p \in A \X (1 .. N) |-> removeMirror(p[1], list[p[2]])]
           F == [n \in Nat |-> G(n)]
<1>1. N \in Nat /\ \A n \in 1 .. N : list[n] \in Mirrors BY UsedMirrors
<1>2. \A m \in Mirrors : s.source[m].used => \E n \in 1 .. N : list[n] = m BY UsedMirrors
<1>3. s \in A OBVIOUS
<1> HIDE DEF list, N
<1>4. ASSUME NEW i \in 1 .. N, NEW t \in G(i - 1)
      PROVE  removeMirror(t, list[i]) \in G(i)
  <2> DEFINE m == list[i]
             u == removeMirror(t, m)
  <2>1. m \in Mirrors BY <1>1
  <2>2. /\ u \in Good(L, {}, Nowhere, early, {}) /\ Frame(u) = Frame(t)
        /\ ~u.source[m].used
        /\ OthersStay(u, t, m)
    BY <2>1, RemovedMirror
  <2> HIDE DEF u
  <2>3. \A k \in 1 .. i : k \in 1 .. i - 1 \/ k = i BY <1>1
  <2>4. \A k \in 1 .. i : list[k] \in Mirrors BY <1>1
  <2>5. \A k \in 1 .. i : ~u.source[list[k]].used BY <2>2, <2>3, <2>4 DEF OthersStay
  <2>6. \A x \in Mirrors : u.source[x].used => s.source[x].used BY <2>2 DEF OthersStay
  <2> QED BY <2>2, <2>5, <2>6 DEF u
<1>5. ASSUME NEW t \in A, NEW m \in Mirrors PROVE removeMirror(t, m) \in A
  <2> DEFINE u == removeMirror(t, m)
  <2>1. /\ u \in Good(L, {}, Nowhere, early, {}) /\ Frame(u) = Frame(t)
        /\ ~u.source[m].used
        /\ OthersStay(u, t, m)
    BY RemovedMirror
  <2> HIDE DEF u
  <2>2. \A x \in Mirrors : u.source[x].used => s.source[x].used BY <2>1 DEF OthersStay
  <2> QED BY <2>1, <2>2 DEF u
<1>6. \A t : t \in G(N) => /\ t \in Good(L, {}, Nowhere, early, {}) /\ Frame(t) = Frame(s)
                           /\ \A m \in Mirrors : ~t.source[m].used
  BY <1>2
<1> HIDE DEF G
<1>7. step \in [A \X (1 .. N) -> A] BY <1>1, <1>5
<1>8. \A t \in A, n \in 1 .. N : step[<<t, n>>] = removeMirror(t, list[n]) OBVIOUS
<1> HIDE DEF step
<1>9. Iterations(A, s, N, step) # {} BY <1>1, <1>3, <1>7, IterationsExist
<1>10. PICK g : Loop(g)
  <2>1. PICK g \in Iterations(A, s, N, step) : TRUE BY <1>9
  <2>2. \A n \in 1 .. N : n - 1 \in 0 .. N BY <1>1
  <2>3. \A n \in 1 .. N : g[n] = removeMirror(g[n - 1], list[n])
    BY <1>8, <2>2 DEF Iterations
  <2>4. Loop(g) BY <1>1, <2>3 DEF Iterations
  <2> QED BY <2>4
<1>11. Loop(after) BY <1>10
<1> HIDE DEF after
<1>12. after[0] = s BY <1>1, <1>11
<1>13. \A n \in 1 .. N : after[n] = removeMirror(after[n - 1], list[n])
  <2>1. \A n \in 1 .. N : n \in 0 .. N /\ n # 0 BY <1>1
  <2> QED BY <1>11, <2>1
<1>14. F[0] = A /\ F[N] = G(N) /\ \A n \in 1 .. N : F[n - 1] = G(n - 1) /\ F[n] = G(n)
  <2>1. \A n \in 1 .. N : n \in Nat /\ n - 1 \in Nat BY <1>1
  <2> QED BY <1>1, <2>1
<1>15. \A n \in 1 .. N : after[n - 1] \in F[n - 1] => after[n] \in F[n]
  <2>1. ASSUME NEW n \in 1 .. N, after[n - 1] \in F[n - 1] PROVE after[n] \in F[n]
    <3>1. after[n - 1] \in G(n - 1) BY <1>14, <2>1
    <3> HIDE DEF F
    <3>2. removeMirror(after[n - 1], list[n]) \in G(n) BY <1>4, <3>1
    <3> QED BY <1>13, <1>14, <3>2
  <2> QED BY <2>1
<1> HIDE DEF F
<1>16. \A n \in 0 .. N : after[n] \in F[n]
  BY <1>1, <1>3, <1>12, <1>14, <1>15, IterationsAdvance
<1>17. after[N] \in G(N) BY <1>1, <1>14, <1>16
<1>18. after[N] = ForEachUsed(s, removeMirror) BY DEF ForEachUsed, ForEach, after, list, N
<1> QED BY <1>6, <1>17, <1>18

-----------------------------------------------------------------------------
(* start and stop *)

(* The modes differ, but not the chunks and their segments. *)
LEMMA OtherModes ==
  ASSUME NEW L, NEW X, NEW e, NEW early, NEW D, NEW E, NEW s \in Good(L, X, e, early, D),
         NEW t \in State, t.source = s.source, Recorded(L, t, X), Mirrored(t, E),
         t.factory.started = s.factory.started, t.factory.finished = s.factory.finished,
         Exact => Kept(L, s) \subseteq Kept(L, t), \A p \in Places(s) : Searches(t, At(s, p))
  PROVE  t \in Good(L, X, e, early, E)
<1>1. Fitting(L, s, X, e, early) /\ Apart(s) /\ Covered(s, X) BY DEF Good
<1>2. Places(t) = Places(s) /\ \A p \in Places(s) : At(t, p) = At(s, p) BY DEF Places, At
<1>3. Taken(t, X) = Taken(s, X) BY DEF Taken
<1>4. Fitting(L, t, X, e, early)
  <2>1. ASSUME NEW p \in Places(s)
        PROVE  Fits(t, X, early, p[1], At(s, p)) /\ (p # e => Adds(L, t, At(s, p)))
    <3>1. Fits(s, X, early, p[1], At(s, p)) /\ (p # e => Adds(L, s, At(s, p)))
      BY <1>1 DEF Fitting
    <3>2. Fits(t, X, early, p[1], At(s, p)) BY <1>3, <3>1 DEF Fits, Fetches, Wakes, HasStarted
    <3>3. p # e => Adds(L, t, At(s, p)) BY <3>1 DEF Adds, Behind
    <3> QED BY <3>2, <3>3
  <2> QED BY <1>2, <2>1 DEF Fitting
<1>5. Apart(t) BY <1>1, <1>2 DEF Apart
<1>6. Covered(t, X) BY <1>1, <1>2, <1>3 DEF Covered
<1> QED BY <1>4, <1>5, <1>6 DEF Good

LEMMA OtherFactory ==
  ASSUME NEW s \in State, NEW f \in AnyFactory
  PROVE  LET t == [factory |-> f, source |-> s.source, disk |-> s.disk]
         IN  t \in State /\ t.factory = f /\ t.source = s.source /\ t.disk = s.disk
BY DEF State

(* What a mode does not decide *)
Beside(f, g) ==
    /\ f.unused = g.unused /\ f.started = g.started /\ f.sized = g.sized /\ f.done = g.done
    /\ f.finished = g.finished /\ f.write = g.write

(* What a start and a stop do not touch *)
Untouched(t, s) == /\ t.disk = s.disk /\ t.factory.finished = s.factory.finished
                   /\ t.factory.write = s.factory.write

(* What is right when the write under way ends remains so. *)
Grows(t, s) == Exact => s.disk \cup RightUnits(s.factory.write)
                            \subseteq t.disk \cup RightUnits(t.factory.write)

LEMMA OtherRecords ==
  ASSUME NEW L, NEW X, NEW s, NEW t, Recorded(L, s, X), Beside(t.factory, s.factory),
         t.disk = s.disk, t.factory.known = s.factory.known \/ t.factory.known = (s.factory.known \/ s.factory.sized)
  PROVE  Recorded(L, t, X) /\ Kept(L, t) = Kept(L, s)
<1>1. Kept(L, t) = Kept(L, s) BY DEF Kept, Beside
<1> QED BY <1>1 DEF Recorded, Beside

LEMMA Initialized ==
  ASSUME NEW L, NEW early, NEW D, NEW s \in Good(L, {}, Nowhere, early, D)
  PROVE  LET t == init(s)
         IN  /\ t \in Good(L, {}, Nowhere, early, D) /\ t.source = s.source /\ t.disk = s.disk
             /\ Beside(t.factory, s.factory)
             /\ t.factory.status = s.factory.status /\ t.factory.file = s.factory.file
             /\ t.factory.startTried = s.factory.startTried
             /\ t.factory.findTried = s.factory.findTried
             /\ t.factory.known = (s.factory.known \/ s.factory.sized)
<1> DEFINE k == s.factory.known \/ s.factory.sized
           f == [s.factory EXCEPT !.known = k]
           t == [factory |-> f, source |-> s.source, disk |-> s.disk]
<1>1. s \in State /\ Recorded(L, s, {}) /\ Mirrored(s, D) /\ Fitting(L, s, {}, Nowhere, early) BY DEF Good
<1>2. s.factory \in AnyFactory BY <1>1, Parts
<1>3. t = init(s) BY <1>1 DEF State, init
<1>4. k \in BOOLEAN OBVIOUS
<1>5. k = (s.factory.known \/ s.factory.sized) OBVIOUS
<1> HIDE DEF k
<1>6. /\ f \in AnyFactory /\ Beside(f, s.factory) /\ f.known = k
      /\ f.status = s.factory.status /\ f.file = s.factory.file
      /\ f.startTried = s.factory.startTried /\ f.findTried = s.factory.findTried
  BY <1>2, <1>4 DEF AnyFactory, Beside
<1> HIDE DEF f
<1>7. t \in State /\ t.factory = f /\ t.source = s.source /\ t.disk = s.disk
  BY <1>1, <1>6, OtherFactory
<1> HIDE DEF t
<1>8. Recorded(L, t, {}) /\ Kept(L, t) = Kept(L, s)
  BY <1>1, <1>5, <1>6, <1>7, OtherRecords
<1>9. Mirrored(t, D) BY <1>1, <1>6, <1>7 DEF Mirrored, Beside
<1>10. \A p \in Places(s) : Searches(t, At(s, p))
  <2>1. \A p \in Places(s) : Searches(s, At(s, p)) BY <1>1 DEF Fitting, Fits
  <2> QED BY <1>6, <1>7, <2>1 DEF Searches, Beside
<1>11. t \in Good(L, {}, Nowhere, early, D)
  BY <1>6, <1>7, <1>8, <1>9, <1>10, OtherModes DEF Beside
<1> QED BY <1>3, <1>5, <1>6, <1>7, <1>11

(* start no longer remembers that chunks could not be assigned. *)
LEMMA TriedAgain ==
  ASSUME NEW L, NEW X, NEW e, NEW early, NEW D, NEW s \in Good(L, X, e, early, D)
  PROVE  LET t == [s EXCEPT !.factory.assignTried = FALSE]
         IN  /\ t \in Good(L, X, e, early, D) /\ t.source = s.source /\ t.disk = s.disk
             /\ ~t.factory.assignTried /\ Beside(t.factory, s.factory)
             /\ t.factory.status = s.factory.status /\ t.factory.file = s.factory.file
             /\ t.factory.known = s.factory.known
             /\ t.factory.startTried = s.factory.startTried
<1> DEFINE b == FALSE
           f == [s.factory EXCEPT !.assignTried = b]
           t == [factory |-> f, source |-> s.source, disk |-> s.disk]
<1>1. s \in State /\ Recorded(L, s, X) /\ Mirrored(s, D) /\ Fitting(L, s, X, e, early) BY DEF Good
<1>2. t = [s EXCEPT !.factory.assignTried = b]
  <2> HIDE DEF b
  <2> QED BY <1>1 DEF State
<1>3. s.factory \in AnyFactory BY <1>1, Parts
<1>4. ~b /\ b \in BOOLEAN OBVIOUS
<1> HIDE DEF b
<1>5. /\ f \in AnyFactory /\ Beside(f, s.factory) /\ f.assignTried = b
      /\ f.status = s.factory.status /\ f.file = s.factory.file
      /\ f.known = s.factory.known /\ f.startTried = s.factory.startTried
      /\ f.findTried = s.factory.findTried
  BY <1>3, <1>4 DEF AnyFactory, Beside
<1> HIDE DEF f
<1>6. t \in State /\ t.factory = f /\ t.disk = s.disk /\ t.source = s.source
  BY <1>1, <1>5, OtherFactory
<1> HIDE DEF t
<1>7. Recorded(L, t, X) /\ Kept(L, t) = Kept(L, s) BY <1>1, <1>5, <1>6, OtherRecords
<1>8. Mirrored(t, D) BY <1>1, <1>5, <1>6 DEF Mirrored, Beside
<1>9. \A p \in Places(s) : Searches(t, At(s, p))
  <2>1. \A p \in Places(s) : Searches(s, At(s, p)) BY <1>1 DEF Fitting, Fits
  <2> QED BY <1>5, <1>6, <2>1 DEF Searches, Beside
<1>10. t \in Good(L, X, e, early, D)
  BY <1>5, <1>6, <1>7, <1>8, <1>9, OtherModes DEF Beside
<1> QED BY <1>2, <1>4, <1>5, <1>6, <1>10 DEF b

LEMMA AssignedTried ==
  ASSUME NEW L, NEW early, NEW D, NEW s \in Good(L, {}, Nowhere, early, D), s.factory.known
  PROVE  LET t == AssignTried(s)
         IN  /\ t \in Good(L, {}, Nowhere, early, D) /\ Untouched(t, s)
             /\ t.factory.known /\ ~t.factory.assignTried
             /\ t.factory.file = s.factory.file
             /\ Attended(s) => Attended(t)
             /\ \A m \in Mirrors : /\ t.source[m].used = s.source[m].used
                                   /\ t.source[m].running = s.source[m].running
<1> DEFINE t == [s EXCEPT !.factory.assignTried = FALSE]
           u == ForEachUsed(t, assignSegments)
<1>1. AssignTried(s) = IF ~s.factory.assignTried THEN s ELSE u BY DEF AssignTried
<1>2. CASE ~s.factory.assignTried
  <2>1. AssignTried(s) = s BY <1>1, <1>2
  <2> QED BY <1>2, <2>1 DEF Untouched
<1>3. CASE s.factory.assignTried
  <2>1. /\ t \in Good(L, {}, Nowhere, early, D) /\ t.source = s.source /\ Untouched(t, s)
        /\ t.factory.known /\ ~t.factory.assignTried /\ t.factory.file = s.factory.file
    BY TriedAgain DEF Untouched, Beside
  <2> HIDE DEF t
  <2>2. /\ u \in Good(L, {}, Nowhere, early, D) /\ Steady(u, t)
        /\ t.factory.known /\ Attended(t) => Attended(u)
    BY <2>1, AssignedAll
  <2> HIDE DEF u
  <2>3. Frame(u) = Frame(t) BY <2>2 DEF Steady
  <2>4. /\ u.disk = t.disk /\ u.factory.finished = t.factory.finished
        /\ u.factory.write = t.factory.write
        /\ u.factory.known = t.factory.known /\ u.factory.file = t.factory.file
        /\ Postponed(u) = Postponed(t)
    BY <2>3, FrameFields
  <2>5. ~u.factory.assignTried BY <2>1, <2>4 DEF Postponed
  <2>6. \A m \in Mirrors : /\ u.source[m].used = s.source[m].used
                           /\ u.source[m].running = s.source[m].running
    BY <2>1, <2>2 DEF Steady
  <2>7. Untouched(u, s) BY <2>1, <2>4 DEF Untouched
  <2>8. Attended(s) => Attended(t) BY <2>1 DEF Attended, Places, Untouched
  <2> QED BY <1>1, <1>3, <2>1, <2>2, <2>4, <2>5, <2>6, <2>7, <2>8
<1> QED BY <1>2, <1>3

LEMMA NoSearch ==
  ASSUME NEW L, NEW X, NEW e, NEW early, NEW D, NEW s \in Good(L, X, e, early, D),
         s.factory.file # "open" \/ s.factory.sized \/ ~s.factory.findTried
         \/ ~s.factory.startTried \/ s.factory.status # "Running"
  PROVE  \A p \in Places(s) : ~At(s, p).finding
<1>1. \A p \in Places(s) : Searches(s, At(s, p)) BY DEF Good, Fitting, Fits
<1> QED BY <1>1 DEF Searches

(* A start that has to wait *)
LEMMA TriedStart ==
  ASSUME NEW L, NEW D, NEW s \in Good(L, {}, Nowhere, FALSE, D), Idle(s),
         NEW t \in State, t.source = s.source, t.disk = s.disk,
         Beside(t.factory, s.factory), t.factory.startTried,
         t.factory.known = s.factory.known \/ t.factory.known = (s.factory.known \/ s.factory.sized),
         \/ /\ t.factory.findTried = s.factory.findTried
            /\ t.factory.file = s.factory.file /\ t.factory.status = s.factory.status
         \/ s.factory.file # "open"
  PROVE  t \in Good(L, {}, Nowhere, FALSE, D)
<1>1. Recorded(L, s, {}) /\ Mirrored(s, D) BY DEF Good
<1>2. Recorded(L, t, {}) /\ Kept(L, t) = Kept(L, s) BY <1>1, OtherRecords
<1>3. Mirrored(t, D) BY <1>1 DEF Mirrored, Beside, Idle
<1>4. \A p \in Places(s) : Searches(t, At(s, p))
  <2>1. \A p \in Places(s) : Searches(s, At(s, p)) BY DEF Good, Fitting, Fits
  <2> QED BY <2>1 DEF Searches, Beside
<1> QED BY <1>2, <1>3, <1>4, OtherModes DEF Beside

LEMMA FindingSegments ==
  ASSUME NEW m
  PROVE  LET seg == startTransfer(m, FindingSegment)
         IN  /\ seg \in AnySegment /\ seg.finding /\ seg.cur = 0 /\ seg.end = 0
             /\ seg.offset = 0 /\ seg.pos = 0 /\ seg.buffer = <<>> /\ seg.timers = 0
<1> DEFINE zero == 0
           b == TRUE
           new == NewSegment(ChunkSize, 0, 0)
           old == [new EXCEPT !.finding = b, !.curSize = zero, !.left = zero]
           seg == startTransfer(m, old)
<1>1. zero = 0 /\ zero \in Int /\ b /\ b \in BOOLEAN OBVIOUS
<1>2. /\ new \in AnySegment /\ new.cur = 0 /\ new.end = 0 /\ new.offset = 0 /\ new.pos = 0
      /\ new.buffer = <<>> /\ new.timers = 0
  <2>1. ChunkSize * 0 = 0 /\ ChunkSize * (0 - 0) + ChunkSize \in Int /\ ChunkSize \in 1 .. ChunkSize
    BY SizesAssumption
  <2> QED BY <2>1, SizesAssumption DEF NewSegment, AnySegment
<1>3. old = FindingSegment BY DEF FindingSegment
<1> HIDE DEF new, zero, b
<1>4. /\ old \in AnySegment /\ old.finding = b /\ old.cur = 0 /\ old.end = 0 /\ old.offset = 0
      /\ old.pos = 0 /\ old.buffer = <<>> /\ old.timers = 0
  BY <1>1, <1>2 DEF AnySegment
<1> HIDE DEF old
<1>5. Same(seg, old) /\ seg.buffer = old.buffer /\ (seg.pos = old.pos \/ seg.pos = old.offset)
  BY <1>4, StartedSegments
<1> HIDE DEF seg
<1> QED BY <1>1, <1>3, <1>4, <1>5 DEF Same, seg

(* The first used mirror is asked for the size of the file. *)
LEMMA SearchStarted ==
  ASSUME NEW L, NEW D, NEW s \in Good(L, {}, Nowhere, FALSE, D), Idle(s), s.factory.file = "open",
         ~s.factory.sized, ~s.factory.findTried, Used(s) # <<>>
  PROVE  LET t == Tried(LookForSize(s))
         IN  /\ t \in Good(L, {}, Nowhere, FALSE, D) /\ t.factory.status = "Running"
             /\ t.factory.startTried /\ Untouched(t, s)
<1> DEFINE m == FirstUsed(s)
           seg == startTransfer(m, FindingSegment)
           list == Append(s.source[m].segments, seg)
           w == WithSegments(s, m, list)
           b == TRUE
           run == "Running"
           f == [s.factory EXCEPT !.findTried = b, !.status = run, !.startTried = b]
           t == [factory |-> f, source |-> w.source, disk |-> s.disk]
           p == <<m, Len(s.source[m].segments) + 1>>
<1>1. /\ s \in State /\ Recorded(L, s, {}) /\ Mirrored(s, D) /\ Fitting(L, s, {}, Nowhere, FALSE)
      /\ Apart(s) /\ Covered(s, {})
  BY DEF Good
<1>2. m \in Mirrors /\ s.source[m].used /\ ~s.source[m].running BY UsedMirrors DEF Idle
<1>3. s.factory \in AnyFactory BY <1>1, Parts
<1>4. t = Tried(LookForSize(s))
  <2> DEFINE u == [s EXCEPT !.factory.findTried = b]
             g == [s.factory EXCEPT !.findTried = b]
             v == addSegment(u, m, seg)
  <2>1. u = [factory |-> g, source |-> s.source, disk |-> s.disk]
    <3> HIDE DEF b
    <3> QED BY <1>1 DEF State
  <2>2. FirstUsed(u) = m
    <3>1. u.source = s.source BY <2>1
    <3> HIDE DEF u
    <3> QED BY <3>1 DEF FirstUsed, Used
  <2>3. LookForSize(s) = findFileSize(u) BY DEF LookForSize
  <2>4. findFileSize(u) = [v EXCEPT !.factory.status = run]
    <3> HIDE DEF u
    <3> QED BY <2>2 DEF findFileSize
  <2>5. v = [factory |-> g, source |-> w.source, disk |-> s.disk]
    <3> HIDE DEF seg, m, g
    <3>1. v = WithSegments(u, m, list) BY <1>2, <2>1 DEF addSegment
    <3> HIDE DEF list
    <3>2. w = [factory |-> s.factory, source |-> w.source, disk |-> s.disk]
          /\ w.source = [s.source EXCEPT ![m].segments = list]
      BY <1>1 DEF WithSegments, State
    <3> HIDE DEF w
    <3> QED BY <2>1, <3>1, <3>2, ZenonT(60) DEF WithSegments
  <2> HIDE DEF v, u, w
  <2>6. [v EXCEPT !.factory.status = run]
            = [factory |-> [g EXCEPT !.status = run], source |-> w.source, disk |-> s.disk]
    <3> HIDE DEF g
    <3> QED BY <2>5
  <2>7. Tried(LookForSize(s)) = [factory |-> [[g EXCEPT !.status = run] EXCEPT !.startTried = b],
                                 source |-> w.source, disk |-> s.disk]
    <3> DEFINE h == [g EXCEPT !.status = run]
               x == [v EXCEPT !.factory.status = run]
    <3>1. Tried(x) = [x EXCEPT !.factory.startTried = b] BY DEF Tried
    <3> HIDE DEF g, b
    <3>2. x = [factory |-> h, source |-> w.source, disk |-> s.disk] BY <2>6
    <3> HIDE DEF h, x
    <3>3. [x EXCEPT !.factory.startTried = b] =
              [factory |-> [h EXCEPT !.startTried = b], source |-> w.source, disk |-> s.disk]
      BY <3>2
    <3> QED BY <2>3, <2>4, <3>1, <3>3 DEF h, x
  <2> QED BY <2>7
<1> HIDE DEF m
<1>5. /\ seg \in AnySegment /\ seg.finding /\ seg.cur = 0 /\ seg.end = 0
      /\ seg.offset = 0 /\ seg.pos = 0 /\ seg.buffer = <<>> /\ seg.timers = 0
  BY FindingSegments
<1> HIDE DEF seg
<1>6. /\ w \in State
      /\ \A x \in Mirrors : /\ w.source[x].used = s.source[x].used
                            /\ w.source[x].running = s.source[x].running
                            /\ x # m => w.source[x] = s.source[x]
      /\ Places(w) = Places(s) \cup {p} /\ At(w, p) = seg
  <2> DEFINE new == <<m, Len(s.source[m].segments) + 1>>
  <2>1. w = WithSegments(s, m, Append(s.source[m].segments, seg)) /\ p = new
    BY DEF w
  <2> HIDE DEF w, p, list, t, f
  <2>2. OneMore(w, s, m, seg, p) BY <1>1, <1>2, <1>5, <2>1, OneAppended
  <2> QED BY <2>2 DEF OneMore
<1> HIDE DEF w
<1>7. b /\ b \in BOOLEAN /\ run = "Running" /\ run \in {"Stopped", "Running", "Finished"} OBVIOUS
<1> HIDE DEF b, run
<1>8. /\ f \in AnyFactory /\ Beside(f, s.factory) /\ f.status = run /\ f.startTried = b
      /\ f.findTried = b /\ f.known = s.factory.known /\ f.file = s.factory.file
  BY <1>3, <1>7 DEF AnyFactory, Beside
<1> HIDE DEF f
<1>9. t \in State /\ t.factory = f /\ t.source = w.source /\ t.disk = s.disk
  <2>1. w.source \in [Mirrors -> AnySource] BY <1>6 DEF State
  <2> QED BY <1>1, <1>8, <2>1 DEF State
<1> HIDE DEF t
<1>10. Taken(s, {}) = {} /\ Taken(t, {}) = {}
  <2>1. s.factory.started = {} BY <1>1 DEF Recorded
  <2> QED BY <1>8, <1>9, <2>1 DEF Taken, Beside
<1>11. Places(s) = {}
  <2>1. ASSUME NEW q \in Places(s) PROVE FALSE
    <3>1. ~At(s, q).finding BY NoSearch
    <3>2. Held(At(s, q)) \subseteq {} /\ At(s, q).cur <= At(s, q).end
      BY <1>1, <1>10, <3>1 DEF Fitting, Fits, Fetches
    <3>3. At(s, q).cur \in Int /\ At(s, q).end \in Int BY <1>1, Parts DEF AnySegment
    <3>4. At(s, q).cur \in Held(At(s, q)) BY <3>1, <3>2, <3>3 DEF Held, Owned
    <3> QED BY <3>2, <3>4
  <2> QED BY <2>1
<1>12. \A q \in Places(t) : q = p /\ At(t, q) = seg
  BY <1>6, <1>9, <1>11 DEF Places, At
<1>13. Recorded(L, t, {}) BY <1>1, <1>8, <1>9, OtherRecords
<1>14. Mirrored(t, D)
  <2>1. ASSUME NEW y \in Mirrors
        PROVE  /\ ~t.source[y].running
               /\ ~t.source[y].used => t.source[y].segments = <<>>
               /\ t.source[y].used \/ y \in D \/ y \in ToSet(t.factory.unused)
    BY <1>1, <1>2, <1>6, <1>8, <1>9 DEF Mirrored, Idle, Beside
  <2> QED BY <2>1 DEF Mirrored
<1>15. Searches(t, seg)
  BY <1>5, <1>7, <1>8, <1>9 DEF Searches, Beside
<1>16. Held(seg) = {} BY <1>5 DEF Held
<1>17. Fitting(L, t, {}, Nowhere, FALSE)
  <2>1. Wakes(t, m, seg) BY <1>2, <1>6, <1>9 DEF Wakes
  <2>2. p[1] = m OBVIOUS
  <2> HIDE DEF p
  <2> QED BY <1>5, <1>12, <1>15, <1>16, <2>1, <2>2 DEF Fitting, Fits, Fetches, Rests, Adds
<1>18. Apart(t) BY <1>12 DEF Apart
<1>19. Covered(t, {}) BY <1>10 DEF Covered
<1>20. t.factory.status = "Running" /\ t.factory.startTried /\ Untouched(t, s)
  BY <1>7, <1>8, <1>9 DEF Untouched, Beside
<1> QED BY <1>4, <1>9, <1>13, <1>14, <1>17, <1>18, <1>19, <1>20 DEF Good

LEMMA StartedSources ==
  ASSUME NEW L, NEW early, NEW D, NEW s \in Good(L, {}, Nowhere, early, D), Idle(s), s.factory.known
  PROVE  LET t == StartSources(s)
         IN  /\ t \in Good(L, {}, Nowhere, FALSE, D) /\ t.factory.status = "Running"
             /\ Untouched(t, s)
             /\ s.factory.file = "open" /\ ~s.factory.assignTried /\ (Manned(s) => Attended(s))
                    => Lively(t)
<1> DEFINE new == [m \in Mirrors |-> IF s.source[m].used THEN Started(m, s.source[m])
                                     ELSE s.source[m]]
           b == FALSE
           run == "Running"
           f == [s.factory EXCEPT !.startTried = b, !.status = run]
           t == [factory |-> f, source |-> new, disk |-> s.disk]
<1>1. s \in State /\ Recorded(L, s, {}) BY DEF Good
<1>2. s.factory \in AnyFactory /\ \A m \in Mirrors : s.source[m] \in AnySource BY <1>1, Parts
<1>3. t = StartSources(s)
  <2> DEFINE v == WithSources(s, Started)
  <2>1. v = [factory |-> s.factory, source |-> new, disk |-> s.disk]
    BY <1>1 DEF WithSources, State
  <2> HIDE DEF v, new
  <2>2. [v EXCEPT !.factory.startTried = FALSE, !.factory.status = "Running"] = t
    <3>1. [v EXCEPT !.factory.startTried = b] =
              [factory |-> [s.factory EXCEPT !.startTried = b], source |-> new, disk |-> s.disk]
      <4> HIDE DEF b
      <4> QED BY <2>1
    <3> DEFINE g == [s.factory EXCEPT !.startTried = b]
    <3> HIDE DEF g
    <3>2. [[factory |-> g, source |-> new, disk |-> s.disk] EXCEPT !.factory.status = run]
              = [factory |-> [g EXCEPT !.status = run], source |-> new, disk |-> s.disk]
      OBVIOUS
    <3> QED BY <3>1, <3>2 DEF g
  <2> QED BY <2>2 DEF StartSources, v
<1>4. new \in [Mirrors -> AnySource]
  <2>1. \A m \in Mirrors : Started(m, s.source[m]) \in AnySource BY <1>2, StartedType
  <2> QED BY <1>2, <2>1
<1>5. \A m \in Mirrors :
          new[m] = IF s.source[m].used THEN Started(m, s.source[m]) ELSE s.source[m]
  OBVIOUS
<1>6. ~b /\ b \in BOOLEAN /\ run = "Running" /\ run \in {"Stopped", "Running", "Finished"} OBVIOUS
<1> HIDE DEF b, run, new
<1>7. /\ f \in AnyFactory /\ Beside(f, s.factory) /\ f.status = run /\ f.startTried = b
      /\ f.known = s.factory.known /\ f.file = s.factory.file
      /\ f.assignTried = s.factory.assignTried
  BY <1>2, <1>6 DEF AnyFactory, Beside
<1> HIDE DEF f
<1>8. t \in State /\ t.factory = f /\ t.source = new /\ t.disk = s.disk
  BY <1>1, <1>4, <1>7 DEF State
<1> HIDE DEF t
<1>9. Recorded(L, t, {}) /\ Kept(L, t) = Kept(L, s) BY <1>1, <1>7, <1>8, OtherRecords
<1>10. \A p \in Places(s) : ~At(s, p).finding BY NobodySearches
<1>11. \A m \in Mirrors :
           \/ t.source[m] = s.source[m]
           \/ /\ ~s.source[m].running /\ s.source[m].used
              /\ t.source[m] = Started(m, s.source[m])
  BY <1>5, <1>8 DEF Idle
<1>12. \A m \in Mirrors : s.source[m].used => t.source[m].running
  BY <1>2, <1>5, <1>8, StartedType
<1>13. t.factory.status = "Running" /\ ~t.factory.startTried BY <1>6, <1>7, <1>8
<1>14. t \in Good(L, {}, Nowhere, FALSE, D)
  BY <1>7, <1>8, <1>9, <1>10, <1>11, <1>12, <1>13, StartedMirrors, ZenonT(60) DEF Beside
<1>15. Untouched(t, s) BY <1>7, <1>8 DEF Untouched, Beside
<1>16. ASSUME s.factory.file = "open", ~s.factory.assignTried, Manned(s) => Attended(s)
       PROVE  Lively(t)
  <2>1. \A m \in Mirrors : /\ t.source[m].used = s.source[m].used
                          /\ Len(t.source[m].segments) = Len(s.source[m].segments)
    BY <1>2, <1>11, StartedType
  <2>2. Places(t) = Places(s) BY <2>1 DEF Places
  <2>3. Manned(t) = Manned(s) BY <2>1 DEF Manned
  <2>4. t.factory.finished = s.factory.finished BY <1>15 DEF Untouched
  <2>5. Manned(t) => Attended(t) BY <1>16, <2>2, <2>3, <2>4 DEF Attended
  <2>6. \A m \in Mirrors : t.source[m].used => t.source[m].running BY <1>12, <2>1
  <2>7. t.factory.known /\ t.factory.file = "open" /\ ~t.factory.assignTried
    BY <1>7, <1>8, <1>16
  <2> QED BY <2>5, <2>6, <2>7 DEF Lively
<1> QED BY <1>3, <1>13, <1>14, <1>15, <1>16

LEMMA AssignedFirst ==
  ASSUME NEW L, NEW D, NEW early, NEW s \in Good(L, {}, Nowhere, early, D), Idle(s), Quiet(s)
  PROVE  LET t == AssignFirst(s)
         IN  /\ t \in Good(L, {}, Nowhere, early, D) /\ Frame(t) = Frame(s) /\ Idle(t)
             /\ s.factory.known /\ Manned(t) => Attended(t)
<1>1. CASE AssignFirst(s) = s /\ ~(assignNeeded(s) /\ Used(s) # <<>>)
  <2>1. s \in State BY DEF Good
  <2>2. Manned(s) => Attended(s) BY <1>1, <2>1, SomebodyFetches
  <2> QED BY <1>1, <2>2
<1>2. CASE AssignFirst(s) = assignSegments(s, FirstUsed(s)) /\ Used(s) # <<>>
  <2> DEFINE t == assignSegments(s, FirstUsed(s))
  <2>1. FirstUsed(s) \in Mirrors /\ s.source[FirstUsed(s)].used BY <1>2, UsedMirrors
  <2>2. /\ t \in Good(L, {}, Nowhere, early, D) /\ Steady(t, s)
        /\ s.factory.known => Attended(t)
    BY <2>1, AssignedSegments
  <2> HIDE DEF t
  <2> QED BY <1>2, <2>2 DEF Steady, Idle, t
<1>3. CASE AssignFirst(s) = takeFirstUnused(s) /\ Used(s) = <<>> /\ s.factory.unused # <<>>
  <2>1. \A m \in Mirrors : ~s.source[m].used BY <1>3, UsedMirrors, SMTT(60)
  <2> DEFINE t == takeFirstUnused(s)
  <2>2. /\ t \in Good(L, {}, Nowhere, early, D) /\ Frame(t) = Frame(s) /\ Idle(t)
        /\ s.factory.known => Attended(t)
    BY <1>3, <2>1, TakenMirror
  <2> HIDE DEF t
  <2> QED BY <1>3, <2>2 DEF t
<1> QED BY <1>1, <1>2, <1>3 DEF AssignFirst

LEMMA TriedFields ==
  ASSUME NEW u \in State
  PROVE  LET t == Tried(u)
         IN  /\ t \in State /\ t.source = u.source /\ t.disk = u.disk
             /\ Beside(t.factory, u.factory) /\ t.factory.startTried
             /\ t.factory.known = u.factory.known /\ t.factory.findTried = u.factory.findTried
             /\ t.factory.file = u.factory.file /\ t.factory.status = u.factory.status
<1> DEFINE b == TRUE
           f == [u.factory EXCEPT !.startTried = b]
           t == [factory |-> f, source |-> u.source, disk |-> u.disk]
<1>1. Tried(u) = [u EXCEPT !.factory.startTried = b] BY DEF Tried
<1>2. b \in BOOLEAN /\ b OBVIOUS
<1> HIDE DEF b
<1>3. Tried(u) = t BY <1>1 DEF State
<1>4. u.factory \in AnyFactory BY DEF State
<1>5. /\ f \in AnyFactory /\ Beside(f, u.factory) /\ f.startTried = b
      /\ f.known = u.factory.known /\ f.findTried = u.factory.findTried
      /\ f.file = u.factory.file /\ f.status = u.factory.status
  BY <1>2, <1>4 DEF AnyFactory, Beside
<1> HIDE DEF f
<1>6. t \in State /\ t.factory = f /\ t.source = u.source /\ t.disk = u.disk
  BY <1>5, OtherFactory
<1> HIDE DEF t
<1> QED BY <1>2, <1>3, <1>5, <1>6

(* The file is opened for the first time. *)
LEMMA OpenedFile ==
  ASSUME NEW s \in State, NEW o \in {"none", "opening", "open"}
  PROVE  LET t == [s EXCEPT !.factory.file = o]
         IN  /\ t \in State /\ t.source = s.source /\ t.disk = s.disk
             /\ Beside(t.factory, s.factory) /\ t.factory.file = o
             /\ t.factory.known = s.factory.known /\ t.factory.findTried = s.factory.findTried
             /\ t.factory.startTried = s.factory.startTried
             /\ t.factory.status = s.factory.status
<1> DEFINE f == [s.factory EXCEPT !.file = o]
           t == [factory |-> f, source |-> s.source, disk |-> s.disk]
<1>1. [s EXCEPT !.factory.file = o] = t BY DEF State
<1>2. s.factory \in AnyFactory BY DEF State
<1>3. /\ f \in AnyFactory /\ Beside(f, s.factory) /\ f.startTried = s.factory.startTried
      /\ f.known = s.factory.known /\ f.findTried = s.factory.findTried
      /\ f.file = o /\ f.status = s.factory.status
  BY <1>2 DEF AnyFactory, Beside
<1> HIDE DEF f
<1>4. t \in State /\ t.factory = f /\ t.source = s.source /\ t.disk = s.disk
  BY <1>3, OtherFactory
<1> HIDE DEF t
<1> QED BY <1>1, <1>3, <1>4

LEMMA StartedDownload ==
  ASSUME NEW L, NEW D, NEW early \in BOOLEAN, NEW s \in Good(L, {}, Nowhere, early, D), Idle(s),
         s.factory.file = "open" => Quiet(s), s.factory.status # "Finished",
         early => s.factory.file = "open" /\ s.factory.sized
  PROVE  /\ start(s) \in Orderly(L, D)
         /\ start(s).factory.status \in {s.factory.status, "Running"}
         /\ Untouched(start(s), s) /\ Lively(start(s))
<1>1. s \in State BY DEF Good
<1>2. s.factory.file \in {"none", "opening", "open"} BY <1>1 DEF State, AnyFactory
<1>3. CASE s.factory.file = "none"
  <2> DEFINE o == "opening"
             u == [s EXCEPT !.factory.file = o]
             t == Tried(u)
  <2>1. early = FALSE BY <1>3
  <2>2. start(s) = t BY <1>3 DEF start
  <2>3. o \in {"none", "opening", "open"} OBVIOUS
  <2> HIDE DEF o
  <2>4. /\ u \in State /\ u.source = s.source /\ u.disk = s.disk
        /\ Beside(u.factory, s.factory) /\ u.factory.known = s.factory.known
        /\ u.factory.status = s.factory.status
    BY <1>1, <2>3, OpenedFile
  <2> HIDE DEF u
  <2>5. /\ t \in State /\ t.source = u.source /\ t.disk = u.disk
        /\ Beside(t.factory, u.factory) /\ t.factory.startTried
        /\ t.factory.known = u.factory.known /\ t.factory.status = u.factory.status
    BY <2>4, TriedFields
  <2> HIDE DEF t
  <2>6. Beside(t.factory, s.factory) BY <2>4, <2>5 DEF Beside
  <2>7. s \in Good(L, {}, Nowhere, FALSE, D) BY <2>1
  <2>8. t \in Good(L, {}, Nowhere, FALSE, D) BY <1>3, <2>4, <2>5, <2>6, <2>7, TriedStart
  <2>9. Untouched(t, s) BY <2>4, <2>5, <2>6 DEF Untouched, Beside
  <2> QED BY <2>2, <2>4, <2>5, <2>8, <2>9 DEF Orderly, Lively, Going
<1>4. CASE s.factory.file = "opening"
  <2> DEFINE u == init(s)
             t == Tried(u)
  <2>1. early = FALSE BY <1>4
  <2>2. start(s) = t BY <1>4 DEF start
  <2>3. /\ u \in State /\ u.source = s.source /\ u.disk = s.disk
        /\ Beside(u.factory, s.factory)
        /\ u.factory.known = (s.factory.known \/ s.factory.sized)
        /\ u.factory.status = s.factory.status
    BY Initialized DEF Good
  <2> HIDE DEF u
  <2>4. /\ t \in State /\ t.source = u.source /\ t.disk = u.disk
        /\ Beside(t.factory, u.factory) /\ t.factory.startTried
        /\ t.factory.known = u.factory.known /\ t.factory.status = u.factory.status
    BY <2>3, TriedFields
  <2> HIDE DEF t
  <2>5. Beside(t.factory, s.factory) BY <2>3, <2>4 DEF Beside
  <2>6. s \in Good(L, {}, Nowhere, FALSE, D) BY <2>1
  <2>7. t \in Good(L, {}, Nowhere, FALSE, D) BY <1>4, <2>3, <2>4, <2>5, <2>6, TriedStart
  <2>8. Untouched(t, s) BY <2>3, <2>4, <2>5 DEF Untouched, Beside
  <2> QED BY <2>2, <2>3, <2>4, <2>7, <2>8 DEF Orderly, Lively, Going
<1>5. CASE s.factory.file = "open" /\ ~s.factory.sized
  <2> DEFINE t == Tried(LookForSize(s))
  <2>1. early = FALSE BY <1>5
  <2>2. start(s) = t BY <1>5 DEF start
  <2>3. s \in Good(L, {}, Nowhere, FALSE, D) BY <2>1
  <2>4. CASE s.factory.findTried \/ Used(s) = <<>>
    <3>1. t = Tried(s) BY <2>4 DEF LookForSize
    <3> HIDE DEF t
    <3>2. /\ t \in State /\ t.source = s.source /\ t.disk = s.disk
          /\ Beside(t.factory, s.factory) /\ t.factory.startTried
          /\ t.factory.known = s.factory.known /\ t.factory.findTried = s.factory.findTried
          /\ t.factory.file = s.factory.file /\ t.factory.status = s.factory.status
      BY <1>1, <3>1, TriedFields
    <3>3. t \in Good(L, {}, Nowhere, FALSE, D) BY <2>3, <3>2, TriedStart
    <3>4. Untouched(t, s) BY <3>2 DEF Untouched, Beside
    <3>5. Lively(t) BY <3>2 DEF Lively, Going
    <3> QED BY <2>2, <3>2, <3>3, <3>4, <3>5 DEF Orderly, t
  <2>5. CASE ~(s.factory.findTried \/ Used(s) = <<>>)
    <3>1. /\ t \in Good(L, {}, Nowhere, FALSE, D) /\ t.factory.status = "Running"
          /\ t.factory.startTried /\ Untouched(t, s)
      BY <1>5, <2>3, <2>5, SearchStarted
    <3> HIDE DEF t
    <3>2. Lively(t) BY <3>1 DEF Lively, Going
    <3> QED BY <2>2, <3>1, <3>2 DEF Orderly, t
  <2> QED BY <2>4, <2>5
<1>6. CASE s.factory.file = "open" /\ s.factory.sized
  <2> DEFINE u == init(s)
             v == AssignFirst(u)
             w == AssignTried(v)
             t == StartSources(w)
  <2>1. start(s) = t BY <1>6 DEF start
  <2>2. /\ u \in Good(L, {}, Nowhere, early, D) /\ u.source = s.source
        /\ u.factory.status = s.factory.status /\ u.factory.startTried = s.factory.startTried
        /\ u.factory.known = (s.factory.known \/ s.factory.sized)
        /\ u.factory.file = s.factory.file /\ Untouched(u, s)
    BY Initialized DEF Untouched, Beside
  <2> HIDE DEF u
  <2>3. Idle(u) /\ Quiet(u) /\ u.factory.known BY <1>6, <2>2 DEF Idle, Quiet
  <2>4. /\ v \in Good(L, {}, Nowhere, early, D) /\ Frame(v) = Frame(u) /\ Idle(v)
        /\ Manned(v) => Attended(v)
    BY <2>2, <2>3, AssignedFirst
  <2> HIDE DEF v
  <2>5. v.factory.known /\ v.factory.file = "open" BY <1>6, <2>2, <2>3, <2>4, FrameFields
  <2>6. /\ w \in Good(L, {}, Nowhere, early, D) /\ Untouched(w, v) /\ w.factory.known
        /\ \A m \in Mirrors : /\ w.source[m].used = v.source[m].used
                              /\ w.source[m].running = v.source[m].running
        /\ ~w.factory.assignTried /\ w.factory.file = v.factory.file
        /\ Attended(v) => Attended(w)
    BY <2>4, <2>5, AssignedTried
  <2> HIDE DEF w
  <2>7. w \in Good(L, {}, Nowhere, early, D) /\ Idle(w) /\ w.factory.known
    BY <2>4, <2>6 DEF Idle
  <2>8. /\ t \in Good(L, {}, Nowhere, FALSE, D) /\ t.factory.status = "Running"
        /\ Untouched(t, w) /\ Lively(t)
    <3>1. w.factory.file = "open" /\ ~w.factory.assignTried /\ (Manned(w) => Attended(w))
      BY <2>4, <2>5, <2>6 DEF Manned
    <3>2. /\ t \in Good(L, {}, Nowhere, FALSE, D) /\ t.factory.status = "Running"
          /\ Untouched(t, w)
          /\ w.factory.file = "open" /\ ~w.factory.assignTried /\ (Manned(w) => Attended(w))
                 => Lively(t)
      BY <2>7, StartedSources
    <3> QED BY <3>1, <3>2
  <2>9. Untouched(w, u) BY <2>4, <2>6, FrameFields DEF Untouched
  <2> HIDE DEF t
  <2>10. Untouched(t, s) BY <2>2, <2>8, <2>9 DEF Untouched
  <2> QED BY <2>1, <2>8, <2>10 DEF Orderly
<1> QED BY <1>2, <1>3, <1>4, <1>5, <1>6

(* A download is stopped while no timer waits to write. *)
LEMMA StoppedDownload ==
  ASSUME NEW L, NEW D, NEW s \in Orderly(L, D), s.factory.status # "Finished",
         Exact => \A p \in Places(s) : At(s, p).timers = 0
  PROVE  /\ stop(s) \in Orderly(L, D) /\ Idle(stop(s)) /\ stop(s).factory.status = "Stopped"
         /\ Untouched(stop(s), s)
<1> DEFINE new == [m \in Mirrors |-> IF s.source[m].used THEN Stopped(m, s.source[m])
                                     ELSE s.source[m]]
           b == FALSE
           early == FALSE
           halt == "Stopped"
           f == [s.factory EXCEPT !.startTried = b, !.findTried = b, !.status = halt]
           t == [factory |-> f, source |-> new, disk |-> s.disk]
<1>1. /\ s \in State /\ Mirrored(s, D) /\ Recorded(L, s, {}) /\ Fitting(L, s, {}, Nowhere, early)
      /\ Apart(s) /\ Covered(s, {}) /\ s \in Good(L, {}, Nowhere, early, D)
  BY DEF Orderly, Good
<1>2. s.factory \in AnyFactory /\ \A m \in Mirrors : s.source[m] \in AnySource BY <1>1, Parts
<1>3. t = stop(s)
  <2> DEFINE v == WithSources(s, Stopped)
             g == [s.factory EXCEPT !.startTried = b]
             h == [g EXCEPT !.findTried = b]
  <2>1. v = [factory |-> s.factory, source |-> new, disk |-> s.disk]
    BY <1>1 DEF WithSources, State
  <2> HIDE DEF v, new
  <2>2. [v EXCEPT !.factory.startTried = b, !.factory.findTried = b, !.factory.status = halt] = t
    <3> HIDE DEF b
    <3>1. [v EXCEPT !.factory.startTried = b] = [factory |-> g, source |-> new, disk |-> s.disk]
      BY <2>1
    <3> HIDE DEF g
    <3>2. [[factory |-> g, source |-> new, disk |-> s.disk] EXCEPT !.factory.findTried = b]
              = [factory |-> h, source |-> new, disk |-> s.disk]
      OBVIOUS
    <3> HIDE DEF h
    <3>3. [[factory |-> h, source |-> new, disk |-> s.disk] EXCEPT !.factory.status = halt]
              = [factory |-> [h EXCEPT !.status = halt], source |-> new, disk |-> s.disk]
      OBVIOUS
    <3> QED BY <3>1, <3>2, <3>3 DEF g, h
  <2> QED BY <2>2 DEF stop, v
<1>4. new \in [Mirrors -> AnySource]
  <2>1. \A m \in Mirrors : Stopped(m, s.source[m]) \in AnySource BY <1>2, StoppedSource
  <2> QED BY <1>2, <2>1
<1>5. \A m \in Mirrors :
          new[m] = IF s.source[m].used THEN Stopped(m, s.source[m]) ELSE s.source[m]
  OBVIOUS
<1>6. ~b /\ b \in BOOLEAN /\ halt = "Stopped" /\ halt \in {"Stopped", "Running", "Finished"}
  OBVIOUS
<1>60. early = FALSE OBVIOUS
<1> HIDE DEF b, halt, new, early
<1>7. /\ f \in AnyFactory /\ Beside(f, s.factory) /\ f.status = halt /\ f.startTried = b
      /\ f.known = s.factory.known
  BY <1>2, <1>6 DEF AnyFactory, Beside
<1> HIDE DEF f
<1>8. t \in State /\ t.factory = f /\ t.source = new /\ t.disk = s.disk
  BY <1>1, <1>4, <1>7 DEF State
<1> HIDE DEF t
<1>9. Recorded(L, t, {}) /\ Kept(L, t) = Kept(L, s) BY <1>1, <1>7, <1>8, OtherRecords
<1>10. Taken(t, {}) = Taken(s, {}) BY <1>7, <1>8 DEF Taken, Beside
<1> DEFINE From(m) == Remains(t.source[m].segments, s.source[m].segments)
<1>11. ASSUME NEW m \in Mirrors
       PROVE  /\ t.source[m].used = s.source[m].used /\ ~t.source[m].running
              /\ ~t.source[m].used => t.source[m].segments = <<>>
              /\ From(m) # {}
  <2>1. CASE s.source[m].used
    <3> DEFINE src == s.source[m]
               x == Stopped(m, src)
    <3>1. src \in AnySource /\ t.source[m] = x BY <1>2, <1>5, <1>8, <2>1
    <3>2. /\ x.used = src.used /\ ~x.running /\ Remains(x.segments, src.segments) # {}
      BY <3>1, StoppedSource
    <3> HIDE DEF x
    <3> QED BY <2>1, <3>1, <3>2
  <2>2. CASE ~s.source[m].used
    <3>1. t.source[m] = s.source[m] /\ s.source[m].segments = <<>> /\ ~s.source[m].running
      BY <1>1, <1>5, <1>8, <2>2 DEF Mirrored
    <3> DEFINE g == [i \in 1 .. 0 |-> 0]
    <3>2. Len(s.source[m].segments) = 0 BY <3>1
    <3>3. g \in From(m) BY <3>1, <3>2 DEF Remains
    <3> QED BY <2>2, <3>1, <3>3
  <2> QED BY <2>1, <2>2
<1> DEFINE G == [m \in Mirrors |-> CHOOSE g : g \in From(m)]
<1>12. \A m \in Mirrors : G[m] \in From(m)
  <2>1. \A m \in Mirrors : G[m] = CHOOSE g : g \in From(m) OBVIOUS
  <2>2. \A m \in Mirrors : From(m) # {} BY <1>11
  <2> HIDE DEF G, From
  <2> QED BY <2>1, <2>2
<1> HIDE DEF G
<1> DEFINE h == [p \in Places(t) |-> <<p[1], G[p[1]][p[2]]>>]
<1>13. ASSUME NEW p \in Places(t)
       PROVE  /\ h[p] \in Places(s) /\ h[p][1] = p[1] /\ h[p][2] = G[p[1]][p[2]]
              /\ At(t, p) = stopTransfer(At(s, h[p])) /\ ~At(s, h[p]).finding
              /\ p[1] \in Mirrors /\ p[2] \in 1 .. Len(t.source[p[1]].segments)
              /\ At(s, h[p]) \in AnySegment /\ p = <<p[1], p[2]>>
  <2> DEFINE m == p[1]
             i == p[2]
             k == G[m][i]
  <2>1. m \in Mirrors /\ i \in 1 .. Len(t.source[m].segments) /\ p = <<m, i>>
        /\ At(t, p) = t.source[m].segments[i]
    BY <1>8, Parts DEF At
  <2>2. k \in 1 .. Len(s.source[m].segments) /\ ~s.source[m].segments[k].finding
        /\ t.source[m].segments[i] = stopTransfer(s.source[m].segments[k])
    <3> DEFINE g == G[m]
    <3>1. g \in Remains(t.source[m].segments, s.source[m].segments) BY <1>12, <2>1
    <3>2. k = g[i] OBVIOUS
    <3> HIDE DEF g, h, k, m, i
    <3> QED BY <2>1, <3>1, <3>2 DEF Remains
  <2>3. h[p] = <<m, k>> /\ h[p][1] = m /\ h[p][2] = k OBVIOUS
  <2>4. <<m, k>> \in Places(s) /\ At(s, <<m, k>>) = s.source[m].segments[k]
        /\ At(s, <<m, k>>) \in AnySegment
    BY <1>1, <2>1, <2>2, Parts
  <2>5. m = p[1] /\ i = p[2] /\ k = G[p[1]][p[2]] OBVIOUS
  <2> HIDE DEF h, m, i, k
  <2>6. At(t, p) = stopTransfer(At(s, h[p])) BY <2>1, <2>2, <2>3, <2>4
  <2>7. h[p] \in Places(s) /\ ~At(s, h[p]).finding /\ At(s, h[p]) \in AnySegment
    BY <2>2, <2>3, <2>4
  <2> QED BY <2>1, <2>3, <2>5, <2>6, <2>7
<1>14. h \in Origins(t, s)
  <2>1. \A p, q \in Places(t) : h[p] = h[q] => p = q
    <3>1. ASSUME NEW p \in Places(t), NEW q \in Places(t), h[p] = h[q] PROVE p = q
      <4>1. p[1] = q[1] /\ G[p[1]][p[2]] = G[p[1]][q[2]] BY <1>13, <3>1
      <4>2. p[2] = q[2] BY <1>12, <1>13, <4>1 DEF Remains
      <4> QED BY <1>13, <4>1, <4>2
    <3> QED BY <3>1
  <2>2. \A p \in Places(t) : h[p] \in Places(s) /\ h[p][1] = p[1] BY <1>13
  <2>3. h \in [Places(t) -> Places(s)] BY <2>2
  <2> HIDE DEF h
  <2> QED BY <2>1, <2>2, <2>3 DEF Origins
<1>15. \A q \in Places(s) : ~At(s, q).finding => \E p \in Places(t) : h[p] = q
  <2>1. ASSUME NEW q \in Places(s), ~At(s, q).finding PROVE \E p \in Places(t) : h[p] = q
    <3> DEFINE m == q[1]
               k == q[2]
    <3>1. m \in Mirrors /\ k \in 1 .. Len(s.source[m].segments) /\ q = <<m, k>>
          /\ At(s, q) = s.source[m].segments[k]
      BY <1>1, Parts DEF At
    <3>2. PICK i \in 1 .. Len(t.source[m].segments) : G[m][i] = k
      <4> DEFINE g == G[m]
      <4>1. g \in Remains(t.source[m].segments, s.source[m].segments) BY <1>12, <3>1
      <4>2. ~s.source[m].segments[k].finding BY <2>1, <3>1
      <4> HIDE DEF g, k, m
      <4>3. \E i \in 1 .. Len(t.source[m].segments) : g[i] = k
        BY <3>1, <4>1, <4>2 DEF Remains
      <4> QED BY <4>3 DEF g
    <3>3. <<m, i>> \in Places(t) BY <1>8, <3>1, <3>2, Parts
    <3>4. h[<<m, i>>] = <<m, k>> BY <3>2, <3>3
    <3> QED BY <3>1, <3>3, <3>4
  <2> QED BY <2>1
<1> HIDE DEF h
<1>16. ASSUME NEW p \in Places(t)
       PROVE  /\ Held(At(t, p)) = Held(At(s, h[p]))
              /\ At(t, p).finding = At(s, h[p]).finding
              /\ Fits(t, {}, early, p[1], At(t, p)) /\ Adds(L, t, At(t, p))
  <2> DEFINE old == At(s, h[p])
             seg == At(t, p)
  <2>1. old \in AnySegment /\ seg = stopTransfer(old) /\ ~old.finding /\ h[p] \in Places(s)
        /\ h[p] # Nowhere
    BY <1>13, NowhereIsNoPlace
  <2>2. Fetches(s, {}, old) /\ Adds(L, s, old) /\ (Exact => old.timers = 0)
    BY <1>1, <2>1 DEF Fitting, Fits
  <2> HIDE DEF old, seg
  <2>3. Same(seg, old) /\ seg.job = "none" /\ (Exactly(old) => Exactly(seg))
        /\ (Waits(old) => Waits(seg)) /\ seg.status = "Stopped"
    BY <2>1, StoppedSegments
  <2>4. Fetches(t, {}, seg) /\ ~seg.finding BY <1>10, <2>1, <2>2, <2>3 DEF Fetches, Same
  <2>5. Rests(seg, early) BY <2>2, <2>3 DEF Rests, Same
  <2>6. Adds(L, t, seg) BY <1>9, <2>1, <2>2, <2>3 DEF Adds, Behind, Same
  <2>7. Searches(t, seg) BY <2>4 DEF Searches
  <2>8. Wakes(t, p[1], seg) BY <1>11, <1>13 DEF Wakes
  <2> QED BY <2>3, <2>4, <2>5, <2>6, <2>7, <2>8 DEF Fits, Same, old, seg
<1>17. ASSUME NEW c \in Taken(t, {}) PROVE \E p \in Places(t) : c \in Held(At(t, p))
  <2>1. PICK q \in Places(s) : c \in Held(At(s, q)) BY <1>1, <1>10 DEF Covered
  <2>2. ~At(s, q).finding BY <2>1 DEF Held
  <2>3. PICK p \in Places(t) : h[p] = q BY <1>15, <2>2
  <2> QED BY <1>16, <2>1, <2>3
<1>18. Mirrored(t, D)
  <2>1. ASSUME NEW y \in Mirrors
        PROVE  /\ ~t.source[y].running
               /\ ~t.source[y].used => t.source[y].segments = <<>>
               /\ t.source[y].used \/ y \in D \/ y \in ToSet(t.factory.unused)
    BY <1>1, <1>7, <1>8, <1>11 DEF Mirrored, Beside
  <2> QED BY <2>1 DEF Mirrored
<1>190. \A p \in Places(t) : /\ Held(At(t, p)) = Held(At(s, h[p]))
                              /\ At(t, p).finding = At(s, h[p]).finding
                              /\ Fits(t, {}, early, p[1], At(t, p)) /\ Adds(L, t, At(t, p))
  BY <1>16
<1>19. t \in Good(L, {}, Nowhere, early, D)
  BY <1>1, <1>8, <1>9, <1>14, <1>17, <1>18, <1>190, Picked
<1>20. Idle(t) BY <1>11 DEF Idle
<1>21. t.factory.status = "Stopped" /\ Untouched(t, s)
  BY <1>6, <1>7, <1>8 DEF Untouched, Beside
<1> QED BY <1>3, <1>19, <1>20, <1>21 DEF Orderly, early

-----------------------------------------------------------------------------
(* Errors *)

(* What does not write, writes nothing. *)
LEMMA NothingToWrite ==
  /\ WrittenUnits(NoWrite) = {} /\ RightUnits(NoWrite) = {}
  /\ NoWrite \in [offset : Int, data : Seq(Int)] /\ NoWrite.offset = 0 /\ Len(NoWrite.data) = 0
<1>1. NoWrite.offset = 0 /\ Len(NoWrite.data) = 0 BY DEF NoWrite
<1>2. WrittenUnits(NoWrite) = 0 .. 0 + 0 - 1 BY <1>1 DEF WrittenUnits
<1>3. WrittenUnits(NoWrite) = {} BY <1>2
<1>4. NoWrite \in [offset : Int, data : Seq(Int)]
  <2> DEFINE none == <<>>
  <2>1. none \in Seq(Int) OBVIOUS
  <2> HIDE DEF none
  <2>2. [offset |-> 0, data |-> none] \in [offset : Int, data : Seq(Int)] BY <2>1
  <2> QED BY <2>2 DEF NoWrite, none
<1> QED BY <1>1, <1>3, <1>4 DEF RightUnits

(* Chunks are finished by the call, but no others than those, and nothing is on
   the disk yet. *)
Advanced(t, s, chunks) ==
    /\ t.disk = s.disk /\ Grows(t, s)
    /\ t.factory.status = s.factory.status /\ t.factory.startTried = s.factory.startTried
    /\ s.factory.finished \subseteq t.factory.finished
    /\ t.factory.finished \subseteq s.factory.finished \cup chunks

LEMMA SameAdvance ==
  ASSUME NEW s, NEW t, NEW chunks, t.disk = s.disk, t.factory.write = s.factory.write,
         t.factory.status = s.factory.status, t.factory.startTried = s.factory.startTried,
         t.factory.finished = s.factory.finished
  PROVE  Advanced(t, s, chunks)
BY DEF Advanced, Grows

LEMMA FrameAdvance ==
  ASSUME NEW s, NEW t, NEW chunks, Frame(t) = Frame(s)
  PROVE  Advanced(t, s, chunks)
BY FrameFields, SameAdvance

LEMMA ThenAdvance ==
  ASSUME NEW s, NEW u, NEW t, NEW chunks, u.factory = s.factory, u.disk = s.disk,
         Advanced(t, u, chunks)
  PROVE  Advanced(t, s, chunks)
BY DEF Advanced, Grows

LEMMA AdvanceThen ==
  ASSUME NEW s, NEW u, NEW t, NEW chunks, Advanced(u, s, chunks), Frame(t) = Frame(u)
  PROVE  Advanced(t, s, chunks)
<1>1. /\ t.disk = u.disk /\ t.factory.write = u.factory.write
      /\ t.factory.status = u.factory.status /\ t.factory.startTried = u.factory.startTried
      /\ t.factory.finished = u.factory.finished
  BY FrameFields
<1> QED BY <1>1 DEF Advanced, Grows

(* What holds for a segment while it is open whether it waits *)
Sums(L, s, seg) == ~seg.finding => /\ Exact => Exactly(seg)
                                   /\ Exact => Behind(L, s, seg)

LEMMA MirrorOfSegment ==
  ASSUME NEW L, NEW D, NEW m \in Mirrors, NEW i \in Nat \ {0}, NEW e \in {Nowhere, <<m, i>>},
         NEW early, NEW s \in Good(L, {}, e, early, D), <<m, i>> \in Places(s)
  PROVE  LET seg == At(s, <<m, i>>)
         IN  /\ s \in State /\ s.source[m].used /\ Seg(s, m, i) = seg /\ seg \in AnySegment
             /\ i \in 1 .. Len(s.source[m].segments)
             /\ Held(seg) \subseteq Taken(s, {})
             /\ s.factory.status # "Finished" \/ ~s.factory.done
             /\ ~seg.finding => /\ seg.cur \in Chunks /\ seg.end \in Chunks
                                /\ seg.cur <= seg.end /\ Held(seg) = seg.cur .. seg.end
                                /\ s.factory.known /\ ~s.factory.done
<1> DEFINE p == <<m, i>>
           seg == At(s, p)
<1>1. s \in State /\ Recorded(L, s, {}) /\ Fitting(L, s, {}, e, early) BY DEF Good
<1>2. i \in 1 .. Len(s.source[m].segments) /\ seg \in AnySegment
  <2>1. i <= Len(s.source[m].segments) /\ Len(s.source[m].segments) \in Nat /\ seg \in AnySegment
    BY <1>1, Parts
  <2> QED BY <2>1
<1>3. Seg(s, m, i) = seg BY DEF Seg, At
<1>4. /\ s.source[m].used
      /\ ~seg.finding => /\ seg.cur \in Chunks /\ seg.end \in Chunks /\ seg.cur <= seg.end
                         /\ Held(seg) = seg.cur .. seg.end
  BY ChunkFacts
<1>5. Held(seg) \subseteq Taken(s, {}) /\ Searches(s, seg)
  BY <1>1 DEF Fitting, Fits, Fetches
<1> HIDE DEF seg
<1>6. ~seg.finding => s.factory.known /\ ~s.factory.done
  <2>1. ASSUME ~seg.finding PROVE s.factory.known /\ ~s.factory.done
    <3>1. seg.cur \in Held(seg) /\ seg.cur \in Chunks BY <1>4, <2>1 DEF Chunks
    <3>2. seg.cur \in s.factory.started /\ seg.cur \notin s.factory.finished
      BY <1>5, <3>1 DEF Taken
    <3> QED BY <1>1, <3>1, <3>2 DEF Recorded
  <2> QED BY <2>1
<1>7. s.factory.status # "Finished" \/ ~s.factory.done
  BY <1>5, <1>6 DEF Searches
<1> QED BY <1>1, <1>2, <1>3, <1>4, <1>5, <1>6, <1>7 DEF seg

LEMMA FewerOfThem ==
  ASSUME NEW n \in Nat \ {0}
  PROVE  FewerConnections(n) \in Nat \ {0}
<1> DEFINE S == {n - 1, 1}
           c == FewerConnections(n)
<1>1. S # {} /\ S \subseteq Int /\ \A x \in S : x <= n OBVIOUS
<1>2. 1 \in S /\ n \in Int /\ c = Max(S) BY DEF FewerConnections
<1> HIDE DEF S, c
<1>3. c \in S /\ 1 <= c BY <1>1, <1>2, GreatestElement
<1>4. c \in Int BY <1>1, <1>3
<1>5. c \in Nat \ {0} BY <1>3, <1>4
<1> QED BY <1>5 DEF c

LEMMA FailedSegment ==
  ASSUME NEW L, NEW D, NEW m \in Mirrors, NEW i \in Nat \ {0}, NEW e \in {Nowhere, <<m, i>>},
         NEW early, NEW s \in Good(L, {}, e, early, D), <<m, i>> \in Places(s),
         Sums(L, s, At(s, <<m, i>>))
  PROVE  LET t == slotError(s, m, i)
         IN  /\ t \in Good(L, {}, Nowhere, early, D) /\ Frame(t) = Frame(s)
             /\ Lively(s) => Lively(t)
<1> DEFINE p == <<m, i>>
           broken == At(s, p)
           X == Held(broken)
           without == removeSegment(s, m, i)
           c == FewerConnections(without.source[m].connections)
           fewer == [without EXCEPT !.source[m].connections = c]
           N == Neighbours(fewer, m, broken)
           t == slotError(s, m, i)
<1>1. /\ s \in Good(L, {}, e, early, D) /\ s \in State /\ Apart(s)
      /\ s.source[m].used /\ Seg(s, m, i) = broken
      /\ broken \in AnySegment /\ X \subseteq Taken(s, {})
      /\ ~broken.finding => /\ broken.cur \in Chunks /\ broken.end \in Chunks
                            /\ broken.cur <= broken.end /\ X = broken.cur .. broken.end
                            /\ s.factory.known
  <2>1. s \in Good(L, {}, e, early, D) /\ <<m, i>> \in Places(s) OBVIOUS
  <2>2. s \in State /\ Apart(s) BY <2>1 DEF Good
  <2> HIDE DEF broken
  <2>3. /\ s.source[m].used /\ Seg(s, m, i) = At(s, <<m, i>>) /\ At(s, <<m, i>>) \in AnySegment
        /\ Held(At(s, <<m, i>>)) \subseteq Taken(s, {})
        /\ ~At(s, <<m, i>>).finding =>
               /\ At(s, <<m, i>>).cur \in Chunks /\ At(s, <<m, i>>).end \in Chunks
               /\ At(s, <<m, i>>).cur <= At(s, <<m, i>>).end
               /\ Held(At(s, <<m, i>>)) = At(s, <<m, i>>).cur .. At(s, <<m, i>>).end
               /\ s.factory.known
    <3>1. s.source[m].used /\ Seg(s, m, i) = At(s, <<m, i>>)
      <4>1. s.source[m].used BY <2>1, MirrorOfSegment
      <4> QED BY <4>1 DEF Seg, At
    <3>2. At(s, <<m, i>>) \in AnySegment BY <2>1, MirrorOfSegment
    <3>3. Held(At(s, <<m, i>>)) \subseteq Taken(s, {}) BY <2>1, MirrorOfSegment
    <3>4. ~At(s, <<m, i>>).finding =>
               /\ At(s, <<m, i>>).cur \in Chunks /\ At(s, <<m, i>>).end \in Chunks
               /\ At(s, <<m, i>>).cur <= At(s, <<m, i>>).end
               /\ Held(At(s, <<m, i>>)) = At(s, <<m, i>>).cur .. At(s, <<m, i>>).end
               /\ s.factory.known /\ ~s.factory.done
      BY <2>1, MirrorOfSegment
    <3> QED BY <3>1, <3>2, <3>3, <3>4
  <2> QED BY <2>1, <2>2, <2>3 DEF broken
<1>2. t = IF without.source[m].segments = <<>> THEN brokenSegments(without, m, broken)
          ELSE IF N = {} THEN slotFreeSegments(fewer, m, broken)
          ELSE WithSegment(fewer, m, Min(N), mergeSegment(Seg(fewer, m, Min(N)), broken))
  BY <1>1 DEF slotError
<1>3. /\ without \in Good(L, X, Nowhere, early, D) /\ Steady(without, s)
      /\ without.factory = s.factory
      /\ Others(without, s, p)
  <2> HIDE DEF p, without
  <2>1. /\ removeSegment(s, m, i) \in Good(L, Held(At(s, <<m, i>>)), Nowhere, early, D)
        /\ Steady(removeSegment(s, m, i), s) /\ Others(removeSegment(s, m, i), s, <<m, i>>)
    BY RemovedSegment
  <2> QED BY <2>1 DEF without, p, Others
<1>4. ~broken.finding => Owned(broken) = X BY DEF Held
<1> HIDE DEF t, broken, X, without
<1>5. Frame(without) = Frame(s) /\ without.source[m].used BY <1>1, <1>3 DEF Steady
<1>6. CASE without.source[m].segments = <<>>
  <2>1. CASE ~s.factory.known
    <3>1. t = without BY <1>2, <1>3, <1>6, <2>1 DEF brokenSegments
    <3>2. s.factory.started = {} BY <2>1 DEF Good, Recorded
    <3>3. X = {} BY <1>1, <3>2 DEF Taken
    <3>4. Lively(s) => Lively(without) BY <1>5, <2>1, FrameLively
    <3> QED BY <1>3, <1>5, <3>1, <3>3, <3>4 DEF t
  <2>2. CASE s.factory.known
    <3>1. ~broken.finding BY <2>2, NobodySearches DEF broken
    <3> DEFINE r == Release(without, X)
    <3>2. t = removeMirror(r, m) BY <1>2, <1>3, <1>4, <1>6, <2>2, <3>1 DEF brokenSegments
    <3>3. r \in Good(L, {}, Nowhere, early, D) /\ Steady(r, without) BY <1>3, Released
    <3> HIDE DEF r
    <3>4. removeMirror(r, m) \in Good(L, {}, Nowhere, early, D) /\ Frame(removeMirror(r, m)) = Frame(r)
      <4>1. /\ removeMirror(r, m) \in Good(L, {}, Nowhere, early, D)
            /\ Frame(removeMirror(r, m)) = Frame(r)
            /\ r.source[m].used => removeMirror(r, m) \in Good(L, {}, Nowhere, early, D \ {m})
        BY <3>3, RemovedMirror
      <4> QED BY <4>1
    <3>5. Steady(r, s) BY <1>3, <3>3, SteadySteps
    <3>6. Lively(s) => Lively(removeMirror(r, m)) BY <3>3, <3>5, RemovedLively
    <3> QED BY <1>5, <3>2, <3>3, <3>4, <3>6 DEF t, Steady
  <2> QED BY <2>1, <2>2
<1>7. CASE without.source[m].segments # <<>>
  <2>1. without \in State BY <1>3 DEF Good
  <2>2. ~broken.finding
    <3>1. without.source[m].segments \in Seq(AnySegment) BY <2>1, Parts
    <3>2. 1 \in 1 .. Len(without.source[m].segments) BY <1>7, <3>1
    <3>3. <<m, 1>> \in Places(without) BY <2>1, <3>2, Parts
    <3>4. PICK r \in Places(s) : r # p BY <1>3, <3>3 DEF Others
    <3> QED BY <1>1, <3>4 DEF Apart, broken
  <2>3. c \in Nat \ {0}
    <3>1. without.source[m].connections \in Nat \ {0} BY <2>1, Parts
    <3> QED BY <3>1, FewerOfThem
  <2> HIDE DEF c
  <2>4. /\ fewer \in Good(L, X, Nowhere, early, D) /\ Steady(fewer, without)
        /\ fewer.factory = without.factory
    BY <1>3, <2>3, OtherConnections
  <2> HIDE DEF fewer
  <2>5. Frame(fewer) = Frame(s) /\ fewer.source[m].used BY <1>5, <2>4 DEF Steady
  <2>6. CASE N = {}
    <3> DEFINE r == Release(fewer, X)
    <3>1. t = assignSegments(r, m) BY <1>2, <1>4, <1>7, <2>2, <2>6 DEF slotFreeSegments
    <3>2. r \in Good(L, {}, Nowhere, early, D) /\ Steady(r, fewer) BY <2>4, Released
    <3> HIDE DEF r
    <3>3. r.source[m].used /\ Frame(r) = Frame(s) BY <2>5, <3>2 DEF Steady
    <3>4. /\ assignSegments(r, m) \in Good(L, {}, Nowhere, early, D)
          /\ Steady(assignSegments(r, m), r)
          /\ r.factory.known => Attended(assignSegments(r, m))
      BY <3>2, <3>3, AssignedSegments
    <3>5. r.factory.known = s.factory.known BY <3>3, FrameFields
    <3>6. Steady(assignSegments(r, m), s) BY <1>3, <2>4, <3>2, <3>4, SteadySteps
    <3>7. Lively(s) => Lively(assignSegments(r, m)) BY <3>4, <3>5, <3>6, SteadyLively
    <3> QED BY <3>1, <3>3, <3>4, <3>7 DEF t, Steady
  <2>7. CASE N # {}
    <3> DEFINE n == Min(N)
               q == <<m, n>>
               seg == At(fewer, q)
               new == mergeSegment(seg, broken)
               u == WithSegment(fewer, m, n, new)
    <3>1. fewer \in State /\ Recorded(L, fewer, X) /\ Fitting(L, fewer, X, Nowhere, early)
      BY <2>4 DEF Good
    <3>2. /\ fewer.source[m].segments \in Seq(AnySegment)
          /\ Len(fewer.source[m].segments) \in Nat
          /\ DOMAIN fewer.source[m].segments = 1 .. Len(fewer.source[m].segments)
      BY <3>1, Parts
    <3>3. N \subseteq Nat BY <3>2 DEF Neighbours
    <3>4. n \in N
      <4> HIDE DEF N
      <4> QED BY <2>7, <3>3, LeastElement
    <3>5. n \in 1 .. Len(fewer.source[m].segments) /\ Seg(fewer, m, n).end + 1 = broken.cur
      BY <3>2, <3>4 DEF Neighbours
    <3> HIDE DEF N, n
    <3>6. q \in Places(fewer) /\ Seg(fewer, m, n) = seg BY <3>1, <3>5, Parts DEF Seg, At
    <3>7. fewer.factory.known BY <1>1, <1>3, <2>2, <2>4
    <3>8. ~seg.finding BY <2>4, <3>6, <3>7, NobodySearches
    <3>9. /\ seg \in AnySegment /\ seg.cur \in Chunks /\ seg.end \in Chunks /\ seg.cur <= seg.end
          /\ Held(seg) = seg.cur .. seg.end /\ Held(seg) \subseteq Taken(fewer, X)
      BY <2>4, <3>6, <3>8, ChunkFacts
    <3>10. Fits(fewer, X, early, m, seg) /\ Adds(L, fewer, seg)
      <4>1. q # Nowhere /\ q[1] = m BY <3>6, NowhereIsNoPlace
      <4> QED BY <3>1, <3>6, <4>1 DEF Fitting
    <3>11. t = u BY <1>2, <1>7, <2>7, <3>6 DEF n
    <3> HIDE DEF seg
    <3>12. /\ new \in AnySegment /\ ~new.finding /\ new.cur = seg.cur /\ new.end = broken.end
           /\ new.timers = seg.timers /\ new.offset = seg.offset /\ new.job = seg.job
           /\ new.status = seg.status
           /\ Exactly(seg) /\ Exactly(broken) => Exactly(new)
           /\ Waits(seg) => Waits(new)
      BY <1>1, <2>2, <3>5, <3>6, <3>8, <3>9, MergedSegments
    <3> HIDE DEF new
    <3>13. /\ u \in State /\ u.factory = fewer.factory /\ u.disk = fewer.disk
           /\ \A x \in Mirrors : /\ u.source[x].used = fewer.source[x].used
                                 /\ u.source[x].running = fewer.source[x].running
                                 /\ (u.source[x].segments = <<>>) = (fewer.source[x].segments = <<>>)
           /\ Places(u) = Places(fewer)
           /\ At(u, q) = new /\ \A r \in Places(fewer) : r # q => At(u, r) = At(fewer, r)
      BY <3>1, <3>5, <3>12, OneReplaced
    <3> HIDE DEF u, q
    <3>14. Steady(u, fewer) BY <3>13 DEF Steady, Frame, Postponed
    <3>15. Held(new) = Held(seg) \cup X
      <4>1. Held(new) = seg.cur .. broken.end BY <3>12 DEF Held, Owned
      <4>2. seg.end + 1 = broken.cur /\ broken.cur <= broken.end /\ seg.cur <= seg.end
            /\ X = broken.cur .. broken.end /\ Held(seg) = seg.cur .. seg.end
        BY <1>1, <2>2, <3>5, <3>6, <3>9
      <4>3. seg.cur \in Int /\ seg.end \in Int /\ broken.cur \in Int /\ broken.end \in Int
        BY <1>1, <3>9 DEF AnySegment
      <4> QED BY <4>1, <4>2, <4>3
    <3>16. X \subseteq Taken(s, {}) /\ Taken(s, {}) = Taken(u, {})
           /\ Taken(fewer, X) = Taken(u, {}) \ X
      BY <1>1, <1>3, <2>4, <3>13 DEF Taken
    <3>17. Recorded(L, u, {}) BY <2>4, <3>1, <3>13 DEF Recorded, Kept
    <3>18. Adds(L, u, new)
      <4>1. Exact => Exactly(broken) BY <2>2 DEF Sums, broken
      <4>2. Exact => Behind(L, u, new)
        BY <3>8, <3>10, <3>12, <3>13 DEF Adds, Behind, Kept
      <4> QED BY <3>8, <3>10, <3>12, <4>1, <4>2 DEF Adds
    <3>19. (fewer.source[m].running \/ Rests(new, early)) /\ Wakes(fewer, m, new)
      BY <3>8, <3>10, <3>12 DEF Fits, Rests, Wakes, HasStarted
    <3>20. new.cur <= new.end
      <4>1. seg.cur \in Int /\ seg.end \in Int /\ broken.cur \in Int /\ broken.end \in Int
        BY <1>1, <3>9 DEF AnySegment
      <4> QED BY <1>1, <2>2, <3>5, <3>6, <3>9, <3>12, <4>1
    <3>21. q[1] = m /\ q \in Places(fewer) /\ At(fewer, q) = seg /\ At(u, q) = new
      BY <3>6, <3>13 DEF q, seg
    <3>22. u \in Good(L, {}, Nowhere, early, D)
      <4>1. /\ ~At(fewer, q).finding /\ ~At(u, q).finding /\ At(u, q).cur <= At(u, q).end
            /\ Adds(L, u, At(u, q)) /\ (fewer.source[q[1]].running \/ Rests(At(u, q), early))
            /\ Wakes(fewer, q[1], At(u, q))
        BY <3>8, <3>12, <3>18, <3>19, <3>20, <3>21
      <4>2. /\ Held(At(u, q)) \subseteq Held(At(fewer, q)) \cup X
            /\ Held(At(u, q)) \subseteq Taken(u, {})
            /\ Taken(fewer, X) \ Held(At(fewer, q)) \subseteq Taken(u, {})
            /\ Taken(u, {}) \subseteq (Taken(fewer, X) \ Held(At(fewer, q))) \cup Held(At(u, q))
        BY <3>9, <3>15, <3>16, <3>21
      <4> QED BY <2>4, <3>13, <3>14, <3>17, <3>21, <4>1, <4>2, Changed, SteadyAlike
    <3>23. Frame(u) = Frame(s) BY <2>5, <3>14 DEF Steady
    <3>24. Steady(u, s) BY <1>3, <2>4, <3>14, SteadySteps
    <3>25. Attended(u) BY <3>13, <3>21 DEF Attended
    <3>26. Lively(s) => Lively(u) BY <3>24, <3>25, SteadyLively
    <3> QED BY <3>11, <3>22, <3>23, <3>26 DEF t
  <2> QED BY <2>6, <2>7
<1> QED BY <1>6, <1>7 DEF t

-----------------------------------------------------------------------------
(* Writes *)

LEMMA Settled ==
  ASSUME NEW L, NEW X, NEW p, NEW early, NEW D, NEW s \in Good(L, X, p, early, D), Adds(L, s, At(s, p))
  PROVE  s \in Good(L, X, Nowhere, early, D)
BY DEF Good, Fitting

(* The chunks that a write has finished come one after the other. *)
LEMMA PassedChunks ==
  ASSUME NEW seg \in AnySegment, seg.cur \in Chunks, seg.end \in Chunks, seg.cur <= seg.end
  PROVE  LET n == Cardinality(Passed(seg))
             over == seg.end - seg.cur \in Passed(seg)
         IN  /\ n \in Nat /\ Passed(seg) = 0 .. n - 1
             /\ \A k \in 0 .. seg.end - seg.cur : SizeAfter(seg, k) \in Int
             /\ over => Passed(seg) = 0 .. seg.end - seg.cur
             /\ ~over => n \in 0 .. seg.end - seg.cur /\ SizeAfter(seg, n) > 0
<1> DEFINE u == seg.end - seg.cur
           P == Passed(seg)
           n == Cardinality(P)
<1>1. /\ seg.cur \in Int /\ seg.end \in Int /\ seg.curSize \in Int
      /\ seg.lastSize \in Int /\ 1 <= seg.lastSize /\ seg.lastSize <= ChunkSize
      /\ ChunkSize \in Int /\ 1 <= ChunkSize /\ u \in Int /\ 0 <= u
  BY SizesAssumption DEF AnySegment, Chunks
<1>2. P \in SUBSET (0 .. u) BY DEF Passed
<1>3. \A k \in Int : k * ChunkSize \in Int BY <1>1
<1>4. \A k \in 0 .. u : SizeAfter(seg, k) \in Int
  BY <1>1, <1>3 DEF SizeAfter
<1>5. \A k \in 0 .. u : \A j \in 0 .. k : SizeAfter(seg, j) <= SizeAfter(seg, k)
  <2>1. ASSUME NEW k \in 0 .. u, NEW j \in 0 .. k PROVE SizeAfter(seg, j) <= SizeAfter(seg, k)
    <3>1. CASE j = k BY <1>4, <3>1
    <3>2. CASE j # k
      <4> DEFINE a == j * ChunkSize
                 b == k * ChunkSize
      <4>1. j < k /\ k > 0 /\ seg.cur + j # seg.end /\ j \in Int /\ k \in Int
        BY <1>1, <3>2
      <4>2. a \in Int /\ b \in Int /\ a + ChunkSize <= b
        <5>1. a = ChunkSize * j /\ b = ChunkSize * k BY <1>1, <4>1
        <5> QED BY <4>1, <5>1, Products
      <4> HIDE DEF a, b
      <4>3. SizeAfter(seg, j) = seg.curSize + a
        <5>1. SizeAfter(seg, j) = seg.curSize + j * ChunkSize - 0 BY <4>1 DEF SizeAfter
        <5> QED BY <1>1, <4>2, <5>1 DEF a
      <4>4. SizeAfter(seg, k) = seg.curSize + b
            \/ SizeAfter(seg, k) = seg.curSize + b - (ChunkSize - seg.lastSize)
        <5>1. SizeAfter(seg, k) = seg.curSize + k * ChunkSize - 0
              \/ SizeAfter(seg, k) = seg.curSize + k * ChunkSize - (ChunkSize - seg.lastSize)
          BY <4>1 DEF SizeAfter
        <5> QED BY <1>1, <4>2, <5>1 DEF b
      <4> QED BY <1>1, <4>2, <4>3, <4>4
    <3> QED BY <3>1, <3>2
  <2> QED BY <2>1
<1>6. \A k \in P : \A j \in 0 .. k : j \in P
  <2>1. ASSUME NEW k \in P, NEW j \in 0 .. k PROVE j \in P
    <3>1. k \in 0 .. u /\ SizeAfter(seg, k) <= 0 BY DEF Passed
    <3>2. j \in 0 .. u BY <1>1, <3>1
    <3>3. SizeAfter(seg, j) <= 0 BY <1>4, <1>5, <3>1, <3>2
    <3> QED BY <3>2, <3>3 DEF Passed
  <2> QED BY <2>1
<1> HIDE DEF u, P
<1>7. /\ n \in Nat /\ P = 0 .. n - 1
      /\ u \notin P /\ 0 <= u => n \in 0 .. u
  BY <1>1, <1>2, <1>6, Beginning
<1> HIDE DEF n
<1>8. u \in P => P = 0 .. u BY <1>1, <1>2, <1>7
<1>9. u \notin P => n \in 0 .. u /\ SizeAfter(seg, n) > 0
  <2>1. ASSUME u \notin P PROVE n \in 0 .. u /\ SizeAfter(seg, n) > 0
    <3>1. n \in 0 .. u /\ n \notin P BY <1>1, <1>7, <2>1
    <3>2. ~(SizeAfter(seg, n) <= 0) BY <3>1 DEF P, Passed, u
    <3> QED BY <1>4, <3>1, <3>2
  <2> QED BY <2>1
<1> QED BY <1>4, <1>7, <1>8, <1>9 DEF u, P, n

(* What is left of a chunk further on *)
LEMMA SizesAfter ==
  ASSUME NEW seg \in AnySegment, seg.cur \in Chunks, seg.end \in Chunks, seg.cur <= seg.end,
         seg.lastSize = EndOf(seg.end) - ChunkSize * seg.end,
         seg.offset + seg.curSize = EndOf(seg.cur), NEW k \in 0 .. seg.end - seg.cur
  PROVE  /\ seg.cur + k \in Chunks
         /\ seg.offset + SizeAfter(seg, k) = EndOf(seg.cur + k)
<1> DEFINE c == seg.cur + k
           a == ChunkSize * k
           b == ChunkSize * seg.cur
           d == k * ChunkSize
           size == SizeAfter(seg, k)
<1>1. /\ seg.cur \in Nat /\ seg.end \in Nat /\ seg.end < NumBits /\ seg.curSize \in Int
      /\ seg.offset \in Int /\ seg.lastSize \in Int /\ ChunkSize \in Int /\ k \in Nat
      /\ k <= seg.end - seg.cur /\ NumBits \in Nat
  BY SizesAssumption, Ends, NumberOfChunks DEF AnySegment
<1>2. c \in Chunks /\ c <= seg.end /\ c \in Int BY <1>1 DEF Chunks
<1>3. /\ a \in Int /\ b \in Int /\ d = a
      /\ ChunkSize * c = b + a /\ ChunkSize * (c + 1) = b + a + ChunkSize
      /\ ChunkSize * (seg.cur + 1) = b + ChunkSize
  BY <1>1, Products
<1>4. /\ EndOf(seg.cur) \in Int /\ EndOf(c) \in Int /\ EndOf(seg.end) \in Int BY <1>2, Ends
<1>5. CASE k = 0
  <2>1. a = 0 /\ c = seg.cur BY <1>1, <1>5
  <2>2. size = seg.curSize + d - 0 BY <1>5 DEF SizeAfter
  <2> HIDE DEF a, c, d, size
  <2>3. size = seg.curSize BY <1>1, <1>3, <2>1, <2>2
  <2> QED BY <1>2, <2>1, <2>3 DEF c, size
<1>6. CASE k # 0
  <2>1. seg.cur < NumBits - 1 /\ k > 0 BY <1>1, <1>6
  <2>2. EndOf(seg.cur) = b + ChunkSize BY <1>3, <2>1, Ends
  <2>3. CASE c = seg.end
    <3>1. size = seg.curSize + d - (ChunkSize - seg.lastSize)
      BY <2>1, <2>3 DEF SizeAfter
    <3>2. seg.lastSize = EndOf(c) - (b + a) BY <1>3, <2>3
    <3> HIDE DEF a, b, c, d, size
    <3>3. seg.offset + (b + ChunkSize - seg.offset + d - (ChunkSize - (EndOf(c) - (b + a)))) = EndOf(c)
      BY <1>1, <1>3, <1>4
    <3>4. seg.curSize = b + ChunkSize - seg.offset BY <1>1, <1>3, <1>4, <2>2
    <3> QED BY <1>2, <3>1, <3>2, <3>3, <3>4 DEF c, size
  <2>4. CASE c # seg.end
    <3>1. size = seg.curSize + d - 0 BY <2>1, <2>4 DEF SizeAfter
    <3>2. c < NumBits - 1
      <4> HIDE DEF c
      <4> QED BY <1>1, <1>2, <2>4
    <3>3. EndOf(c) = b + a + ChunkSize BY <1>2, <1>3, <3>2, Ends
    <3> HIDE DEF a, b, c, d, size
    <3> QED BY <1>1, <1>2, <1>3, <1>4, <2>2, <3>1, <3>3 DEF c, size
  <2> QED BY <2>3, <2>4
<1> QED BY <1>5, <1>6

(* A segment whose buffer was handed to the file *)
Handed(seg) ==
    [seg EXCEPT !.curSize = @ - Len(seg.buffer), !.left = @ - Len(seg.buffer),
                !.offset = @ + Len(seg.buffer), !.buffer = <<>>]

LEMMA HandedSegments ==
  ASSUME NEW seg \in AnySegment
  PROVE  LET new == Handed(seg)
         IN  /\ new \in AnySegment /\ new.finding = seg.finding /\ new.cur = seg.cur
             /\ new.end = seg.end /\ new.lastSize = seg.lastSize /\ new.job = seg.job
             /\ new.pos = seg.pos /\ new.timers = seg.timers /\ new.buffer = <<>>
             /\ new.offset = seg.offset + Len(seg.buffer)
             /\ new.curSize = seg.curSize - Len(seg.buffer)
             /\ new.left = seg.left - Len(seg.buffer)
             /\ Held(new) = Held(seg) /\ new.status = seg.status
<1> DEFINE new == Handed(seg)
           n == Len(seg.buffer)
           none == <<>>
           size == seg.curSize - n
           rest == seg.left - n
           place == seg.offset + n
<1>1. seg.buffer \in Seq(Int) /\ seg.curSize \in Int /\ seg.left \in Int /\ seg.offset \in Int
  BY DEF AnySegment
<1>2. n \in Nat BY <1>1
<1>3. none \in Seq(Int) OBVIOUS
<1>4. size \in Int /\ rest \in Int /\ place \in Int BY <1>1, <1>2
<1>5. new = [seg EXCEPT !.curSize = size, !.left = rest, !.offset = place, !.buffer = none]
  BY DEF Handed
<1> HIDE DEF none, new, size, rest, place
<1>6. /\ new \in AnySegment /\ new.finding = seg.finding /\ new.cur = seg.cur
      /\ new.end = seg.end /\ new.lastSize = seg.lastSize /\ new.job = seg.job
      /\ new.pos = seg.pos /\ new.timers = seg.timers /\ new.buffer = none
      /\ new.offset = place /\ new.curSize = size /\ new.left = rest
      /\ new.status = seg.status
  BY <1>3, <1>4, <1>5 DEF AnySegment
<1>7. Held(new) = Held(seg) BY <1>6 DEF Held, Owned
<1> QED BY <1>6, <1>7 DEF none, new, size, rest, place

(* What finishSegments makes of it *)
Onward(seg, n) == [seg EXCEPT !.cur = seg.cur + n, !.curSize = SizeAfter(seg, n)]

LEMMA OnwardSegments ==
  ASSUME NEW seg \in AnySegment, ~seg.finding, seg.cur \in Chunks, seg.end \in Chunks,
         seg.cur <= seg.end, seg.end - seg.cur \notin Passed(seg), seg.buffer = <<>>
  PROVE  LET n == Cardinality(Passed(seg))
             new == Onward(seg, n)
         IN  /\ n \in 0 .. seg.end - seg.cur /\ Passed(seg) = 0 .. n - 1
             /\ new \in AnySegment /\ ~new.finding /\ new.cur = seg.cur + n
             /\ new.end = seg.end /\ new.offset = seg.offset /\ new.timers = seg.timers
             /\ new.job = seg.job /\ new.cur \in Chunks /\ new.cur <= new.end
             /\ Waits(new) /\ new.status = seg.status
             /\ (/\ seg.lastSize = EndOf(seg.end) - ChunkSize * seg.end
                 /\ ChunkSize * seg.cur <= seg.offset
                 /\ seg.offset + seg.curSize = EndOf(seg.cur)
                 /\ seg.offset + seg.left = EndOf(seg.end)
                 /\ seg.offset <= FileSize
                 /\ seg.pos = IF seg.job = "none" THEN 0 ELSE seg.offset)
                    => Exactly(new)
<1> DEFINE n == Cardinality(Passed(seg))
           size == SizeAfter(seg, n)
           next == seg.cur + n
           new == Onward(seg, n)
<1>1. /\ n \in 0 .. seg.end - seg.cur /\ Passed(seg) = 0 .. n - 1
      /\ \A k \in 0 .. seg.end - seg.cur : SizeAfter(seg, k) \in Int
      /\ size > 0
  BY PassedChunks
<1>2. seg.cur \in Nat /\ seg.end \in Nat /\ seg.end < NumBits /\ NumBits \in Nat
  BY Ends, NumberOfChunks
<1>3. next \in Chunks /\ next \in Int /\ next <= seg.end BY <1>1, <1>2 DEF Chunks
<1>4. size \in Int BY <1>1
<1>5. new = [seg EXCEPT !.cur = next, !.curSize = size] BY DEF Onward
<1> HIDE DEF size, next, new, n
<1>6. /\ new \in AnySegment /\ ~new.finding /\ new.cur = next /\ new.end = seg.end
      /\ new.offset = seg.offset /\ new.timers = seg.timers /\ new.job = seg.job
      /\ new.buffer = seg.buffer /\ new.curSize = size /\ new.left = seg.left
      /\ new.pos = seg.pos /\ new.lastSize = seg.lastSize /\ new.status = seg.status
  BY <1>3, <1>4, <1>5 DEF AnySegment
<1>7. Waits(new) BY <1>6 DEF Waits
<1>8. ASSUME /\ seg.lastSize = EndOf(seg.end) - ChunkSize * seg.end
             /\ ChunkSize * seg.cur <= seg.offset
             /\ seg.offset + seg.curSize = EndOf(seg.cur)
             /\ seg.offset + seg.left = EndOf(seg.end)
             /\ seg.offset <= FileSize
             /\ seg.pos = IF seg.job = "none" THEN 0 ELSE seg.offset
      PROVE  Exactly(new)
  <2>1. seg.offset + size = EndOf(next)
    BY <1>1, <1>8, SizesAfter DEF size, next
  <2>2. ChunkSize * next <= seg.offset
    <3>1. CASE n = 0
      <4>1. next = seg.cur BY <1>2, <3>1 DEF next
      <4> QED BY <1>8, <4>1
    <3>2. CASE n # 0
      <4> DEFINE k == n - 1
      <4>1. k \in 0 .. seg.end - seg.cur /\ k \in Passed(seg) /\ k \in Int BY <1>1, <1>2, <3>2
      <4>2. SizeAfter(seg, k) <= 0 /\ SizeAfter(seg, k) \in Int BY <1>1, <4>1 DEF Passed
      <4>3. seg.offset + SizeAfter(seg, k) = EndOf(seg.cur + k) /\ seg.cur + k \in Chunks
        BY <1>8, <4>1, SizesAfter
      <4>4. seg.cur + k < NumBits - 1 /\ seg.cur + k \in Int /\ seg.cur + k + 1 = next
        BY <1>1, <1>2, <4>1, SMTT(60) DEF next
      <4>5. EndOf(seg.cur + k) = ChunkSize * next BY <4>3, <4>4, Ends
      <4>6. seg.offset \in Int /\ ChunkSize * next \in Int BY <1>3, Products DEF AnySegment
      <4> HIDE DEF k
      <4> QED BY <4>2, <4>3, <4>5, <4>6
    <3> QED BY <3>1, <3>2
  <2>3. seg.offset \in Int /\ FileSize \in Int BY SizesAssumption DEF AnySegment
  <2>4. Len(new.buffer) = 0 BY <1>6
  <2>5. new.offset + Len(new.buffer) = seg.offset /\ new.offset + Len(new.buffer) <= FileSize
    BY <1>6, <1>8, <2>3, <2>4
  <2>6. \A k \in 1 .. Len(new.buffer) : new.buffer[k] = new.offset + k - 1 BY <2>4
  <2> QED BY <1>1, <1>6, <1>8, <2>1, <2>2, <2>5, <2>6 DEF Exactly
<1> QED BY <1>1, <1>3, <1>6, <1>7, <1>8 DEF n, new, next

(* The chunks that are finished when the buffer of a segment is handed to the file *)
WriteOf(seg) == [offset |-> seg.offset, data |-> seg.buffer]
FinishedBy(seg) == {seg.cur + k : k \in Passed(Handed(seg))}

LEMMA FinishedChunks ==
  ASSUME NEW seg \in AnySegment, ~seg.finding, seg.cur \in Chunks, seg.end \in Chunks,
         seg.cur <= seg.end
  PROVE  LET n == Cardinality(Passed(Handed(seg)))
         IN  /\ FinishedBy(seg) \subseteq Held(seg)
             /\ seg.end - seg.cur \in Passed(Handed(seg)) => FinishedBy(seg) = Held(seg)
             /\ n \in Nat /\ FinishedBy(seg) = seg.cur .. seg.cur + n - 1
             /\ \A c \in FinishedBy(seg) :
                    Exactly(seg) => EndOf(c) <= seg.offset + Len(seg.buffer) /\ c \in Chunks
<1> DEFINE h == Handed(seg)
           n == Cardinality(Passed(h))
           size == Len(seg.buffer)
<1>1. /\ h \in AnySegment /\ h.cur = seg.cur /\ h.end = seg.end /\ h.offset = seg.offset + size
      /\ h.curSize = seg.curSize - size /\ h.lastSize = seg.lastSize
  BY HandedSegments
<1>2. seg.cur \in Int /\ seg.end \in Int /\ size \in Nat /\ seg.offset \in Int
      /\ seg.curSize \in Int
  BY DEF AnySegment
<1>3. FinishedBy(seg) = {seg.cur + k : k \in Passed(h)} BY DEF FinishedBy
<1> HIDE DEF h
<1>4. /\ n \in Nat /\ Passed(h) = 0 .. n - 1
      /\ \A k \in 0 .. seg.end - seg.cur : SizeAfter(h, k) \in Int
      /\ seg.end - seg.cur \in Passed(h) => Passed(h) = 0 .. seg.end - seg.cur
  BY <1>1, PassedChunks
<1>5. Held(seg) = seg.cur .. seg.end BY DEF Held, Owned
<1>6. Passed(h) \subseteq 0 .. seg.end - seg.cur BY <1>1 DEF Passed
<1>7. FinishedBy(seg) \subseteq Held(seg)
  <2>1. ASSUME NEW k \in Passed(h) PROVE seg.cur + k \in seg.cur .. seg.end
    <3>1. k \in Int /\ 0 <= k /\ k <= seg.end - seg.cur BY <1>6, <1>2
    <3> QED BY <1>2, <3>1
  <2> QED BY <1>3, <1>5, <2>1
<1>8. ASSUME seg.end - seg.cur \in Passed(h) PROVE FinishedBy(seg) = Held(seg)
  <2>1. ASSUME NEW c \in seg.cur .. seg.end PROVE c \in FinishedBy(seg)
    <3> DEFINE k == c - seg.cur
    <3>1. k \in 0 .. seg.end - seg.cur /\ c = seg.cur + k BY <1>2
    <3>2. k \in Passed(h) BY <1>4, <1>8, <3>1
    <3> QED BY <1>3, <3>1, <3>2
  <2> QED BY <1>5, <1>7, <2>1
<1> HIDE DEF n
<1>9. FinishedBy(seg) = seg.cur .. seg.cur + n - 1
  <2>1. ASSUME NEW c \in seg.cur .. seg.cur + n - 1 PROVE c \in FinishedBy(seg)
    <3> DEFINE k == c - seg.cur
    <3>1. k \in 0 .. n - 1 /\ c = seg.cur + k BY <1>2, <1>4
    <3> QED BY <1>3, <1>4, <3>1
  <2>2. ASSUME NEW k \in Passed(h) PROVE seg.cur + k \in seg.cur .. seg.cur + n - 1
    <3>1. k \in Int /\ 0 <= k /\ k <= n - 1 BY <1>4
    <3> QED BY <1>2, <1>4, <3>1
  <2> QED BY <1>3, <2>1, <2>2
<1>10. ASSUME NEW c \in FinishedBy(seg), Exactly(seg)
       PROVE  EndOf(c) <= seg.offset + size /\ c \in Chunks
  <2>1. PICK k \in Passed(h) : c = seg.cur + k BY <1>3
  <2>2. k \in 0 .. seg.end - seg.cur /\ SizeAfter(h, k) <= 0 /\ SizeAfter(h, k) \in Int
    BY <1>1, <1>4, <2>1 DEF Passed
  <2>3. h.offset + h.curSize = EndOf(h.cur) /\ h.lastSize = EndOf(h.end) - ChunkSize * h.end
    <3>1. seg.offset + size + (seg.curSize - size) = seg.offset + seg.curSize BY <1>2
    <3> QED BY <1>1, <1>10, <3>1 DEF Exactly
  <2>4. c \in Chunks /\ h.offset + SizeAfter(h, k) = EndOf(c)
    BY <1>1, <2>1, <2>2, <2>3, SizesAfter
  <2> QED BY <1>1, <1>2, <2>2, <2>4
<1> QED BY <1>4, <1>7, <1>8, <1>9, <1>10 DEF h, n

LEMMA HandedOver ==
  ASSUME NEW L, NEW s \in State, Recorded(L, s, {}), ~Blocked(s), NEW seg \in AnySegment,
         ~seg.finding, seg.cur \in Chunks, seg.end \in Chunks, seg.cur <= seg.end,
         Held(seg) \subseteq Taken(s, {}), Sums(L, s, seg), seg.buffer # <<>>, Mirrors # {},
         NEW t, t.disk = s.disk,
         t.factory.known = s.factory.known, t.factory.sized = s.factory.sized,
         t.factory.started = s.factory.started, t.factory.write = WriteOf(seg),
         t.factory.finished = s.factory.finished \cup FinishedBy(seg),
         t.factory.done => t.factory.finished = Chunks
  PROVE  /\ Recorded(L, t, {}) /\ Kept(L, s) \subseteq Kept(L, t)
         /\ Exact => \A u \in Int :
                ChunkSize * seg.cur <= u /\ u < seg.offset + Len(seg.buffer) => u \in Kept(L, t)
         /\ \A c \in Held(seg) : c \in s.factory.started /\ c \notin s.factory.finished
<1> DEFINE w == WriteOf(seg)
           size == Len(seg.buffer)
<1>1. w.offset = seg.offset /\ w.data = seg.buffer BY DEF WriteOf
<1>2. /\ seg.offset \in Int /\ size \in Nat \ {0} /\ seg.buffer \in Seq(Int)
      /\ seg.cur \in Int /\ ChunkSize * seg.cur \in Int
  <2>1. seg.offset \in Int /\ seg.buffer \in Seq(Int) /\ seg.cur \in Int BY DEF AnySegment
  <2>2. size \in Nat \ {0} BY <2>1
  <2> QED BY <2>1, <2>2, Products
<1>3. Kept(L, s) = s.disk \cup L
  <2>1. s.factory.write = NoWrite BY DEF Blocked
  <2>2. WrittenUnits(NoWrite) = {}
    <3>1. NoWrite.offset = 0 /\ Len(NoWrite.data) = 0 BY DEF NoWrite
    <3>2. WrittenUnits(NoWrite) = 0 .. 0 + 0 - 1 BY <3>1 DEF WrittenUnits
    <3> QED BY <3>2
  <2> QED BY <2>1, <2>2 DEF Kept, RightUnits
<1>4. Kept(L, t) = s.disk \cup L \cup RightUnits(w) BY DEF Kept
<1>5. WrittenUnits(w) = seg.offset .. seg.offset + size - 1 BY <1>1 DEF WrittenUnits
<1> HIDE DEF w, size
<1>6. ASSUME Exactly(seg) PROVE RightUnits(w) = WrittenUnits(w)
  <2>1. ASSUME NEW u \in WrittenUnits(w) PROVE w.data[u - w.offset + 1] = u
    <3> DEFINE k == u - seg.offset + 1
    <3>1. k \in 1 .. size /\ seg.offset + k - 1 = u BY <1>2, <1>5
    <3>2. seg.buffer[k] = seg.offset + k - 1 BY <1>6, <3>1 DEF Exactly, size
    <3> QED BY <1>1, <3>1, <3>2
  <2> QED BY <2>1 DEF RightUnits
<1>7. ASSUME Exact, NEW u \in Int, ChunkSize * seg.cur <= u, u < seg.offset + size
      PROVE  u \in Kept(L, t)
  <2>1. Exactly(seg) /\ Behind(L, s, seg) BY <1>7 DEF Sums
  <2>2. CASE u < seg.offset BY <1>3, <1>4, <1>7, <2>1, <2>2 DEF Behind
  <2>3. CASE ~(u < seg.offset)
    <3>1. u \in WrittenUnits(w) BY <1>2, <1>5, <1>7, <2>3
    <3> QED BY <1>4, <1>6, <2>1, <3>1
  <2> QED BY <2>2, <2>3
<1>8. /\ FinishedBy(seg) \subseteq Held(seg)
      /\ \A c \in FinishedBy(seg) : Exactly(seg) => EndOf(c) <= seg.offset + size /\ c \in Chunks
      /\ \A c \in FinishedBy(seg) : seg.cur <= c /\ c \in Int
  <2>1. /\ FinishedBy(seg) \subseteq Held(seg)
        /\ \A c \in FinishedBy(seg) : Exactly(seg) => EndOf(c) <= seg.offset + size /\ c \in Chunks
    BY FinishedChunks DEF size
  <2>2. Held(seg) = seg.cur .. seg.end /\ seg.end \in Int BY DEF Held, Owned, AnySegment
  <2>3. \A c \in FinishedBy(seg) : seg.cur <= c /\ c \in Int BY <1>2, <2>1, <2>2
  <2> QED BY <2>1, <2>3
<1>9. ASSUME Exact, NEW c \in t.factory.finished PROVE ChunkUnits(c) \subseteq Kept(L, t)
  <2>1. CASE c \in s.factory.finished BY <1>3, <1>4, <1>9, <2>1 DEF Recorded
  <2>2. CASE c \in FinishedBy(seg)
    <3>1. Exactly(seg) BY <1>9 DEF Sums
    <3>2. c \in Chunks /\ EndOf(c) <= seg.offset + size /\ seg.cur <= c /\ c \in Int
          /\ EndOf(c) \in Int /\ ChunkSize * c \in Int
      BY <1>8, <2>2, <3>1, Ends, Products
    <3>3. ChunkSize * seg.cur <= ChunkSize * c
      <4>1. CASE seg.cur = c BY <1>2, <4>1
      <4>2. CASE seg.cur # c
        <5>1. seg.cur < c BY <1>2, <3>2, <4>2
        <5>2. ChunkSize * seg.cur + ChunkSize <= ChunkSize * c BY <1>2, <3>2, <5>1, Products
        <5> QED BY <1>2, <3>2, <5>2, SizesAssumption
      <4> QED BY <4>1, <4>2
    <3>4. ASSUME NEW u \in ChunkUnits(c) PROVE u \in Kept(L, t)
      <4>1. u \in Int /\ ChunkSize * c <= u /\ u < EndOf(c) BY <3>2, UnitsOfChunks
      <4>2. ChunkSize * seg.cur <= u /\ u < seg.offset + size BY <1>2, <3>2, <3>3, <4>1
      <4> QED BY <1>7, <1>9, <4>1, <4>2
    <3> QED BY <3>4
  <2> QED BY <1>9, <2>1, <2>2
<1>10. Exact => /\ w.offset \in Units /\ w.offset + Len(w.data) <= FileSize
                /\ \A k \in 1 .. Len(w.data) : w.data[k] = w.offset + k - 1
  <2>1. ASSUME Exact PROVE w.offset \in Units
    <3>1. Exactly(seg) BY <2>1 DEF Sums
    <3>2. 0 <= ChunkSize * seg.cur
      <4>1. seg.cur \in Nat BY Ends
      <4> QED BY <4>1, SizesAssumption
    <3>3. ChunkSize * seg.cur <= seg.offset /\ seg.offset + size <= FileSize /\ FileSize \in Int
      BY <3>1, SizesAssumption DEF Exactly, size
    <3> QED BY <1>1, <1>2, <3>2, <3>3 DEF Units
  <2> QED BY <1>1, <2>1 DEF Sums, Exactly
<1>11. \A c \in Held(seg) : c \in s.factory.started /\ c \notin s.factory.finished
  BY DEF Taken
<1>12. Recorded(L, t, {})
  <2>1. t.factory.finished \subseteq t.factory.started BY <1>8, <1>11 DEF Recorded
  <2>2. s.factory.known => s.factory.sized BY DEF Recorded
  <2>3. ~s.factory.known => s.factory.started = {} BY DEF Recorded
  <2> QED BY <1>9, <1>10, <2>1, <2>2, <2>3 DEF Recorded, w
<1> QED BY <1>3, <1>4, <1>7, <1>11, <1>12 DEF size

LEMMA OnlySources ==
  ASSUME NEW f, NEW S, NEW d, NEW m \in DOMAIN S, NEW list
  PROVE  WithSegments([factory |-> f, source |-> S, disk |-> d], m, list)
             = [factory |-> f, source |-> [S EXCEPT ![m].segments = list], disk |-> d]
BY DEF WithSegments

(* The segment at p is another one, that holds the same chunks. *)
Swapped(t, s, p, new) ==
    /\ t.factory = s.factory /\ t.disk = s.disk
    /\ Places(t) = Places(s) /\ At(t, p) = new
    /\ \A x \in Mirrors : /\ t.source[x].used = s.source[x].used
                          /\ t.source[x].running = s.source[x].running

LEMMA SwappedLively ==
  ASSUME NEW t, NEW s, NEW p, NEW new, Swapped(t, s, p, new), Lively(s)
  PROVE  Lively(t)
<1>1. Modes(t, s) BY DEF Swapped, Modes, Postponed
<1>2. Attended(t) = Attended(s) BY DEF Swapped, Attended
<1> QED BY <1>1, <1>2, ModesLively

LEMMA Exchanged ==
  ASSUME NEW L, NEW D, NEW m \in Mirrors, NEW i \in Nat \ {0}, NEW e \in {Nowhere, <<m, i>>}, NEW early,
         NEW f \in {Nowhere, <<m, i>>},
         NEW s \in Good(L, {}, e, early, D), <<m, i>> \in Places(s), NEW new \in AnySegment,
         ~At(s, <<m, i>>).finding, ~new.finding, Held(new) = Held(At(s, <<m, i>>)),
         new.cur <= new.end, f = Nowhere => Adds(L, s, new),
         s.source[m].running \/ Rests(new, early), Wakes(s, m, new)
  PROVE  LET t == WithSegment(s, m, i, new)
         IN  t \in Good(L, {}, f, early, D) /\ Swapped(t, s, <<m, i>>, new)
<1> DEFINE p == <<m, i>>
           seg == At(s, p)
           t == WithSegment(s, m, i, new)
<1>1. s \in State /\ Recorded(L, s, {}) /\ Fitting(L, s, {}, e, early) BY DEF Good
<1>2. i \in 1 .. Len(s.source[m].segments)
  <2>1. i <= Len(s.source[m].segments) /\ Len(s.source[m].segments) \in Nat BY <1>1, Parts
  <2> QED BY <2>1
<1>3. /\ t \in State /\ t.factory = s.factory /\ t.disk = s.disk
      /\ \A x \in Mirrors : /\ t.source[x].used = s.source[x].used
                            /\ t.source[x].running = s.source[x].running
                            /\ (t.source[x].segments = <<>>) = (s.source[x].segments = <<>>)
      /\ Places(t) = Places(s) /\ p \in Places(s)
      /\ At(t, p) = new /\ \A q \in Places(s) : q # p => At(t, q) = At(s, q)
  BY <1>1, <1>2, OneReplaced
<1>4. p[1] = m OBVIOUS
<1>5. Held(seg) \subseteq Taken(s, {}) BY <1>1, <1>3 DEF Fitting, Fits, Fetches
<1>6. ~seg.finding /\ Held(new) = Held(seg) /\ e \in {Nowhere, p} /\ f \in {Nowhere, p} OBVIOUS
<1> HIDE DEF t, seg, p
<1>7. Alike(L, t, s) BY <1>3 DEF Alike, Kept
<1>8. Recorded(L, t, {}) BY <1>1, <1>3 DEF Recorded, Kept
<1>9. Taken(t, {}) = Taken(s, {}) BY <1>3 DEF Taken
<1>10. f = Nowhere => Adds(L, t, At(t, p))
  BY <1>3, <1>7, AlikeKeeps
<1>11. /\ ~At(s, p).finding /\ ~At(t, p).finding /\ At(t, p).cur <= At(t, p).end
       /\ s.source[p[1]].running \/ Rests(At(t, p), early)
       /\ Wakes(s, p[1], At(t, p))
  BY <1>3, <1>4, <1>6 DEF seg
<1>12. /\ Held(At(t, p)) \subseteq Held(At(s, p)) \cup {}
       /\ Held(At(t, p)) \subseteq Taken(t, {})
       /\ Taken(s, {}) \ Held(At(s, p)) \subseteq Taken(t, {})
       /\ Taken(t, {}) \subseteq (Taken(s, {}) \ Held(At(s, p))) \cup Held(At(t, p))
  BY <1>3, <1>5, <1>6, <1>9 DEF seg
<1>13. t \in Good(L, {}, f, early, D)
  <2> DEFINE X == {}
             Y == {}
  <2>1. /\ s \in Good(L, X, e, early, D) /\ t \in State /\ Alike(L, t, s) /\ Recorded(L, t, Y)
        /\ p \in Places(s) /\ Places(t) = Places(s)
    BY <1>3, <1>7, <1>8
  <2>2. \A q \in Places(s) : q # p => At(t, q) = At(s, q) BY <1>3
  <2>3. e \in {Nowhere, p} /\ f \in {Nowhere, p} BY <1>6
  <2>4. /\ Held(At(t, p)) \subseteq Held(At(s, p)) \cup X
        /\ Held(At(t, p)) \subseteq Taken(t, Y)
        /\ Taken(s, X) \ Held(At(s, p)) \subseteq Taken(t, Y)
        /\ Taken(t, Y) \subseteq (Taken(s, X) \ Held(At(s, p))) \cup Held(At(t, p))
    BY <1>12
  <2>5. \A x \in Mirrors : (t.source[x].segments = <<>>) = (s.source[x].segments = <<>>)
    BY <1>3
  <2> HIDE DEF X, Y
  <2>6. t \in Good(L, Y, f, early, D)
    BY <1>10, <1>11, <2>1, <2>2, <2>3, <2>4, <2>5, Changed
  <2> QED BY <2>6 DEF X, Y
<1> QED BY <1>3, <1>13 DEF t, p, Swapped

LEMMA WrittenBuffer ==
  ASSUME NEW L, NEW D, NEW m \in Mirrors, NEW i \in Nat \ {0}, NEW e \in {Nowhere, <<m, i>>}, NEW early,
         NEW s \in Good(L, {}, e, early, D), <<m, i>> \in Places(s),
         ~At(s, <<m, i>>).finding, Sums(L, s, At(s, <<m, i>>)), CanWrite(s),
         At(s, <<m, i>>).buffer # <<>>
  PROVE  LET t == writeBuffer(s, m, i)
         IN  /\ t \in Good(L, {}, Nowhere, early, D) /\ Advanced(t, s, Held(At(s, <<m, i>>)))
             /\ Lively(s) => Lively(t)
<1> DEFINE p == <<m, i>>
           seg == At(s, p)
           h == Handed(seg)
           w == WriteOf(seg)
           n == Cardinality(Passed(h))
           over == seg.end - seg.cur \in Passed(h)
           F == s.factory.finished \cup FinishedBy(seg)
           b == F = Chunks
           f == [s.factory EXCEPT !.write = w, !.finished = F]
           g == [s.factory EXCEPT !.write = w, !.finished = F, !.done = b]
           S == [s.source EXCEPT ![m].segments = [s.source[m].segments EXCEPT ![i] = h]]
           v == [factory |-> s.factory, source |-> S, disk |-> s.disk]
           u == [factory |-> [s.factory EXCEPT !.write = w], source |-> S, disk |-> s.disk]
           marked == [factory |-> f, source |-> S, disk |-> s.disk]
           t == writeBuffer(s, m, i)
<1>1. /\ s \in State /\ s.source[m].used /\ Seg(s, m, i) = seg /\ seg \in AnySegment
      /\ i \in 1 .. Len(s.source[m].segments) /\ Held(seg) \subseteq Taken(s, {})
      /\ seg.cur \in Chunks /\ seg.end \in Chunks /\ seg.cur <= seg.end
      /\ Held(seg) = seg.cur .. seg.end /\ ~seg.finding
  BY MirrorOfSegment
<1>2. /\ s.factory \in AnyFactory /\ DOMAIN s.source = Mirrors
      /\ s = [factory |-> s.factory, source |-> s.source, disk |-> s.disk]
      /\ Recorded(L, s, {}) /\ Fitting(L, s, {}, e, early)
  BY <1>1, Parts DEF State, Good
<1>3. /\ h \in AnySegment /\ h.finding = seg.finding /\ h.cur = seg.cur /\ h.end = seg.end
      /\ h.lastSize = seg.lastSize /\ h.job = seg.job /\ h.pos = seg.pos
      /\ h.timers = seg.timers /\ h.buffer = <<>> /\ h.offset = seg.offset + Len(seg.buffer)
      /\ h.curSize = seg.curSize - Len(seg.buffer) /\ h.left = seg.left - Len(seg.buffer)
      /\ Held(h) = Held(seg) /\ h.status = seg.status
  BY <1>1, HandedSegments
<1>4. w \in [offset : Int, data : Seq(Int)] BY <1>1 DEF WriteOf, AnySegment
<1>5. /\ FinishedBy(seg) \subseteq Held(seg) /\ (over => FinishedBy(seg) = Held(seg))
      /\ n \in Nat /\ FinishedBy(seg) = seg.cur .. seg.cur + n - 1
  BY <1>1, FinishedChunks
<1>6. F \in SUBSET Chunks /\ b \in BOOLEAN
  BY <1>1, <1>2, <1>5 DEF Taken, AnyFactory
<1>7. u = WithSegment([s EXCEPT !.factory.write = w], m, i, h)
      /\ v = WithSegment(s, m, i, h)
  <2> DEFINE f1 == [s.factory EXCEPT !.write = w]
             list == [s.source[m].segments EXCEPT ![i] = h]
             x == [s EXCEPT !.factory.write = w]
  <2>1. x = [factory |-> f1, source |-> s.source, disk |-> s.disk] BY <1>2
  <2>2. x.source = s.source BY <2>1
  <2> HIDE DEF f1, list, x
  <2>3. WithSegments(x, m, list) = [factory |-> f1, source |-> [s.source EXCEPT ![m].segments = list],
                                    disk |-> s.disk]
    BY <1>2, <2>1, OnlySources
  <2>4. WithSegments(s, m, list) = [factory |-> s.factory,
                                    source |-> [s.source EXCEPT ![m].segments = list],
                                    disk |-> s.disk]
    <3>1. WithSegments([factory |-> s.factory, source |-> s.source, disk |-> s.disk], m, list)
              = [factory |-> s.factory, source |-> [s.source EXCEPT ![m].segments = list],
                 disk |-> s.disk]
      BY <1>2, OnlySources
    <3> QED BY <1>2, <3>1
  <2> QED BY <2>2, <2>3, <2>4 DEF WithSegment, f1, list, x
<1>8. Seg(u, m, i) = h /\ Places(v) = Places(s) /\ At(v, p) = h
  <2>1. At(v, p) = h /\ Places(v) = Places(s) BY <1>1, <1>3, <1>7, OneReplaced
  <2>2. Seg(u, m, i) = S[m].segments[i] /\ At(v, p) = S[m].segments[i] BY DEF Seg, At
  <2> QED BY <2>1, <2>2
<1>9. t = finishSegments(u, m, i)
  <2>1. Len(seg.buffer) # 0 BY <1>1 DEF AnySegment
  <2>2. t = finishSegments(WithSegment([s EXCEPT !.factory.write = w], m, i, h), m, i)
    BY <1>1, <2>1 DEF writeBuffer, WriteOf, Handed
  <2> QED BY <1>7, <2>2
<1>10. [u EXCEPT !.factory.finished = u.factory.finished \cup {h.cur + k : k \in Passed(h)}]
           = marked
  <2> DEFINE f1 == [s.factory EXCEPT !.write = w]
  <2>1. FinishedBy(seg) = {h.cur + k : k \in Passed(h)} BY <1>3 DEF FinishedBy
  <2>2. f1.finished = s.factory.finished BY <1>2 DEF AnyFactory
  <2>3. u.factory.finished \cup {h.cur + k : k \in Passed(h)} = F BY <2>1, <2>2
  <2>4. [u EXCEPT !.factory.finished = F]
            = [factory |-> [f1 EXCEPT !.finished = F], source |-> S, disk |-> s.disk]
    OBVIOUS
  <2>5. [f1 EXCEPT !.finished = F] = f OBVIOUS
  <2> HIDE DEF u, h, F, f1, f, S
  <2> QED BY <2>3, <2>4, <2>5
<1>11. t = IF over
           THEN LET ended == [removeSegment(marked, m, i) EXCEPT !.factory.done = marked.factory.finished = Chunks]
                IN  IF ended.factory.done THEN ended ELSE assignSegments(ended, m)
           ELSE WithSegment(marked, m, i, Onward(h, n))
  <2> DEFINE y == Seg(u, m, i)
             mark == [u EXCEPT !.factory.finished = @ \cup {y.cur + k : k \in Passed(y)}]
  <2>1. y = h BY <1>8
  <2>2. mark = marked
    <3> HIDE DEF y, h
    <3>1. {y.cur + k : k \in Passed(y)} = {h.cur + k : k \in Passed(h)} BY <2>1
    <3>2. mark = [u EXCEPT !.factory.finished =
                      u.factory.finished \cup {h.cur + k : k \in Passed(h)}]
      BY <3>1
    <3> QED BY <1>10, <3>2
  <2>3. finishSegments(u, m, i) =
            IF y.end - y.cur \in Passed(y)
            THEN LET ended == [removeSegment(mark, m, i) EXCEPT !.factory.done = mark.factory.finished = Chunks]
                 IN  IF ended.factory.done THEN ended ELSE assignSegments(ended, m)
            ELSE WithSegment(mark, m, i,
                     [y EXCEPT !.cur = y.cur + Cardinality(Passed(y)),
                               !.curSize = SizeAfter(y, Cardinality(Passed(y)))])
    BY DEF finishSegments
  <2> HIDE DEF t, u, h, marked, mark, y
  <2> QED BY <1>3, <1>9, <2>1, <2>2, <2>3 DEF Onward
<1>12. /\ v \in State /\ v.factory = s.factory /\ v.disk = s.disk
       /\ \A x \in Mirrors : /\ v.source[x].used = s.source[x].used
                             /\ v.source[x].running = s.source[x].running
                             /\ (v.source[x].segments = <<>>) = (s.source[x].segments = <<>>)
       /\ \A q \in Places(s) : q # p => At(v, q) = At(s, q)
       /\ Len(v.source[m].segments) = Len(s.source[m].segments)
  <2> HIDE DEF v, h, seg, p
  <2>1. v = WithSegment(s, m, i, h) BY <1>7
  <2> QED BY <1>1, <1>3, <2>1, OneReplaced DEF p
<1>13. /\ marked \in State /\ marked.factory = f /\ marked.disk = s.disk
       /\ marked.source = S /\ v.source = S
       /\ Places(marked) = Places(s) /\ \A q : At(marked, q) = At(v, q)
  <2>1. v.source = S /\ marked.source = S OBVIOUS
  <2>2. f \in AnyFactory
    <3> HIDE DEF w, F, b
    <3> QED BY <1>2, <1>4, <1>6 DEF AnyFactory
  <2>3. S \in [Mirrors -> AnySource] /\ s.disk \in SUBSET Int BY <1>12, <2>1 DEF State
  <2>4. marked \in State /\ marked.factory = f /\ marked.disk = s.disk
    BY <2>2, <2>3 DEF State
  <2>5. Places(marked) = Places(v) /\ \A q : At(marked, q) = At(v, q)
    BY <2>1 DEF Places, At
  <2> QED BY <1>8, <2>1, <2>4, <2>5
<1>14. /\ s.factory.write = NoWrite /\ Mirrors # {}
  BY DEF CanWrite, Blocked
<1>15. /\ f.write = w /\ g.write = w /\ f.finished = F /\ g.finished = F
       /\ f.done = s.factory.done /\ g.done = b
       /\ f.started = s.factory.started /\ g.started = s.factory.started
       /\ f.status = s.factory.status /\ g.status = s.factory.status
       /\ f.file = s.factory.file /\ g.file = s.factory.file
       /\ f.known = s.factory.known /\ g.known = s.factory.known
       /\ f.sized = s.factory.sized /\ g.sized = s.factory.sized
       /\ f.startTried = s.factory.startTried /\ g.startTried = s.factory.startTried
       /\ f.findTried = s.factory.findTried /\ g.findTried = s.factory.findTried
       /\ f.unused = s.factory.unused /\ g.unused = s.factory.unused
       /\ f.assignTried = s.factory.assignTried /\ g.assignTried = s.factory.assignTried
       /\ f \in AnyFactory /\ g \in AnyFactory
  <2> HIDE DEF w, F, b
  <2> QED BY <1>2, <1>4, <1>6 DEF AnyFactory
<1> DEFINE After(x) ==
        /\ x.disk = s.disk /\ x.factory \in {f, g}
        /\ \A y \in Mirrors : /\ x.source[y].used = s.source[y].used
                              /\ x.source[y].running = s.source[y].running
<1>16. ASSUME NEW x, After(x)
       PROVE  /\ Recorded(L, x, {}) /\ Alike(L, x, s)
              /\ Exact => \A y \in Int :
                     ChunkSize * seg.cur <= y /\ y < seg.offset + Len(seg.buffer) => y \in Kept(L, x)
              /\ Taken(x, {}) = Taken(s, {}) \ FinishedBy(seg)
              /\ x.factory.started = s.factory.started
              /\ Advanced(x, s, Held(seg)) /\ Modes(x, s)
  <2>1. /\ x.factory.known = s.factory.known /\ x.factory.sized = s.factory.sized
        /\ x.factory.started = s.factory.started /\ x.factory.write = w
        /\ x.factory.finished = F /\ x.factory.status = s.factory.status
        /\ x.factory.file = s.factory.file /\ x.factory.startTried = s.factory.startTried
        /\ x.factory.findTried = s.factory.findTried /\ x.factory.unused = s.factory.unused
        /\ x.factory.done \in {s.factory.done, b}
        /\ x.factory.assignTried = s.factory.assignTried
    <3> HIDE DEF f, g
    <3> QED BY <1>15, <1>16
  <2>2. x.factory.done => F = Chunks
    <3>1. s.factory.done => FALSE
      <4>1. s.factory.done => s.factory.finished = Chunks BY <1>2 DEF Recorded
      <4>2. seg.cur \in Held(seg) BY <1>1 DEF Chunks
      <4> QED BY <1>1, <4>1, <4>2 DEF Taken
    <3> QED BY <2>1, <3>1
  <2> HIDE DEF f, g, b, seg, p
  <2>3. /\ Recorded(L, x, {}) /\ Kept(L, s) \subseteq Kept(L, x)
        /\ Exact => \A y \in Int :
               ChunkSize * seg.cur <= y /\ y < seg.offset + Len(seg.buffer) => y \in Kept(L, x)
    <3>1. Sums(L, s, seg) /\ seg.buffer # <<>> /\ ~Blocked(s) BY DEF CanWrite, seg, p
    <3>2. /\ x.disk = s.disk /\ x.factory.write = WriteOf(seg)
          /\ x.factory.finished = s.factory.finished \cup FinishedBy(seg)
          /\ x.factory.done => x.factory.finished = Chunks
      BY <1>16, <2>1, <2>2 DEF w
    <3>3. /\ s \in State /\ Recorded(L, s, {}) /\ seg \in AnySegment /\ ~seg.finding
          /\ seg.cur \in Chunks /\ seg.end \in Chunks /\ seg.cur <= seg.end
          /\ Held(seg) \subseteq Taken(s, {}) /\ Mirrors # {}
      BY <1>1, <1>2, <1>14
    <3>4. /\ x.factory.known = s.factory.known /\ x.factory.sized = s.factory.sized
          /\ x.factory.started = s.factory.started
      BY <2>1
    <3> HIDE DEF F
    <3> QED BY <3>1, <3>2, <3>3, <3>4, HandedOver
  <2>4. Alike(L, x, s) BY <1>16, <2>1, <2>3 DEF Alike
  <2>5. Taken(x, {}) = Taken(s, {}) \ FinishedBy(seg) BY <2>1 DEF Taken, F
  <2>6. Advanced(x, s, Held(seg))
    <3>1. s.factory.write = NoWrite BY DEF CanWrite, Blocked
    <3>2. Grows(x, s) BY <1>16, <3>1, NothingToWrite DEF Grows
    <3> QED BY <1>5, <1>16, <2>1, <3>2 DEF Advanced, F
  <2>7. Modes(x, s) BY <1>16, <2>1 DEF Modes, Postponed
  <2> QED BY <2>1, <2>3, <2>4, <2>5, <2>6, <2>7
<1> HIDE DEF w, F, b, f, g, S
<1>17. CASE ~over
  <2> DEFINE new == Onward(h, n)
  <2>1. /\ n \in 0 .. h.end - h.cur /\ Passed(h) = 0 .. n - 1
        /\ new \in AnySegment /\ ~new.finding /\ new.cur = h.cur + n
        /\ new.end = h.end /\ new.offset = h.offset /\ new.timers = h.timers
        /\ new.job = h.job /\ new.cur \in Chunks /\ new.cur <= new.end
        /\ Waits(new) /\ new.status = h.status
        /\ (/\ h.lastSize = EndOf(h.end) - ChunkSize * h.end
            /\ ChunkSize * h.cur <= h.offset
            /\ h.offset + h.curSize = EndOf(h.cur)
            /\ h.offset + h.left = EndOf(h.end)
            /\ h.offset <= FileSize
            /\ h.pos = IF h.job = "none" THEN 0 ELSE h.offset)
               => Exactly(new)
    <3>1. h.end - h.cur \notin Passed(h) BY <1>3, <1>17
    <3> HIDE DEF seg, p
    <3> QED BY <1>1, <1>3, <3>1, OnwardSegments DEF n
  <2>2. t = WithSegment(marked, m, i, new) BY <1>11, <1>17
  <2> HIDE DEF new, marked, over
  <2>3. i \in 1 .. Len(marked.source[m].segments) BY <1>1, <1>12, <1>13
  <2>4. /\ t \in State /\ t.factory = f /\ t.disk = s.disk
        /\ \A x \in Mirrors : /\ t.source[x].used = s.source[x].used
                              /\ t.source[x].running = s.source[x].running
                              /\ (t.source[x].segments = <<>>) = (s.source[x].segments = <<>>)
        /\ Places(t) = Places(s) /\ At(t, p) = new
        /\ \A q \in Places(s) : q # p => At(t, q) = At(s, q)
    <3>1. /\ WithSegment(marked, m, i, new) \in State
          /\ WithSegment(marked, m, i, new).factory = marked.factory
          /\ WithSegment(marked, m, i, new).disk = marked.disk
          /\ \A x \in Mirrors :
                 /\ WithSegment(marked, m, i, new).source[x].used = marked.source[x].used
                 /\ WithSegment(marked, m, i, new).source[x].running = marked.source[x].running
                 /\ (WithSegment(marked, m, i, new).source[x].segments = <<>>)
                        = (marked.source[x].segments = <<>>)
          /\ Places(WithSegment(marked, m, i, new)) = Places(marked)
          /\ At(WithSegment(marked, m, i, new), <<m, i>>) = new
          /\ \A q \in Places(marked) :
                 q # <<m, i>> => At(WithSegment(marked, m, i, new), q) = At(marked, q)
      BY <1>13, <2>1, <2>3, OneReplaced
    <3> QED BY <1>12, <1>13, <2>2, <3>1
  <2>5. After(t) BY <2>4
  <2>6. /\ Recorded(L, t, {}) /\ Alike(L, t, s)
        /\ Exact => \A y \in Int :
               ChunkSize * seg.cur <= y /\ y < seg.offset + Len(seg.buffer) => y \in Kept(L, t)
        /\ Taken(t, {}) = Taken(s, {}) \ FinishedBy(seg)
        /\ Advanced(t, s, Held(seg))
    BY <1>16, <2>5
  <2>7. seg.cur \in Int /\ seg.end \in Int /\ n \in Int /\ 0 <= n /\ n <= seg.end - seg.cur
        /\ seg.offset \in Int /\ seg.curSize \in Int /\ seg.left \in Int /\ Len(seg.buffer) \in Nat
        /\ FileSize \in Int /\ ChunkSize * seg.cur \in Int
    <3>1. seg.cur \in Int /\ seg.end \in Int /\ seg.offset \in Int /\ seg.curSize \in Int
          /\ seg.left \in Int /\ Len(seg.buffer) \in Nat
      BY <1>1 DEF AnySegment
    <3>2. n \in Int /\ 0 <= n /\ n <= seg.end - seg.cur BY <1>3, <2>1, <3>1
    <3> QED BY <3>1, <3>2, Products, SizesAssumption
  <2>8. Held(new) = seg.cur + n .. seg.end BY <1>3, <2>1 DEF Held, Owned
  <2>9. Held(new) = Held(seg) \ FinishedBy(seg) BY <1>1, <1>5, <2>7, <2>8, SMTT(60)
  <2>10. Adds(L, t, new)
    <3>1. Sums(L, s, seg) BY DEF seg, p
    <3>2. ASSUME Exact PROVE Exactly(new)
      <4>1. Exactly(seg) BY <1>1, <3>1, <3>2 DEF Sums
      <4>2. /\ seg.lastSize = EndOf(seg.end) - ChunkSize * seg.end
            /\ ChunkSize * seg.cur <= seg.offset
            /\ seg.offset + seg.curSize = EndOf(seg.cur)
            /\ seg.offset + seg.left = EndOf(seg.end)
            /\ seg.offset + Len(seg.buffer) <= FileSize
            /\ seg.pos = IF seg.job = "none" THEN 0 ELSE seg.offset + Len(seg.buffer)
        BY <4>1 DEF Exactly
      <4> DEFINE k == Len(seg.buffer)
                 o == seg.offset
      <4>3. /\ o + k + (seg.curSize - k) = o + seg.curSize
            /\ o + k + (seg.left - k) = o + seg.left
            /\ ChunkSize * seg.cur <= o + k
        <5> DEFINE now == seg.curSize
                   rest == seg.left
                   first == ChunkSize * seg.cur
        <5>1. /\ now \in Int /\ rest \in Int /\ first \in Int /\ o \in Int /\ k \in Nat
              /\ first <= o
          BY <1>1, <2>7, <4>2 DEF AnySegment
        <5> HIDE DEF now, rest, first, o, k
        <5>2. o + k + (now - k) = o + now /\ o + k + (rest - k) = o + rest /\ first <= o + k
          BY <5>1
        <5> QED BY <5>2 DEF now, rest, first
      <4> HIDE DEF k, o, seg
      <4> QED BY <1>3, <2>1, <4>2, <4>3 DEF k, o
    <3>3. ASSUME Exact PROVE Behind(L, t, new)
      <4>1. ASSUME NEW y \in Int, ChunkSize * new.cur <= y, y < new.offset
            PROVE  y \in Kept(L, t)
        <5>1. new.cur \in Int /\ seg.cur <= new.cur /\ new.offset = seg.offset + Len(seg.buffer)
          BY <1>3, <2>1, <2>7, SMTT(60)
        <5>2. ChunkSize * seg.cur <= ChunkSize * new.cur /\ ChunkSize * new.cur \in Int
          <6>1. ChunkSize * new.cur \in Int BY <5>1, Products
          <6>2. CASE seg.cur = new.cur BY <2>7, <6>1, <6>2
          <6>3. CASE seg.cur # new.cur
            <7>1. seg.cur < new.cur BY <2>7, <5>1, <6>3
            <7>2. ChunkSize * seg.cur + ChunkSize <= ChunkSize * new.cur
              BY <2>7, <5>1, <7>1, Products
            <7> QED BY <2>7, <6>1, <7>2, SizesAssumption, SMTT(60)
          <6> QED BY <6>2, <6>3
        <5>3. ChunkSize * seg.cur <= y /\ y < seg.offset + Len(seg.buffer)
          BY <2>7, <4>1, <5>1, <5>2
        <5> QED BY <2>6, <3>3, <5>3
      <4> QED BY <4>1 DEF Behind
    <3> QED BY <2>1, <3>2, <3>3 DEF Adds
  <2>11. (s.source[m].running \/ Rests(new, early)) /\ Wakes(s, m, new)
    <3>1. Fits(s, {}, early, m, seg) BY <1>2 DEF Fitting
    <3>2. new.status = seg.status /\ new.job = seg.job BY <1>3, <2>1
    <3>3. Wakes(s, m, new) BY <3>1, <3>2 DEF Fits, Wakes, HasStarted
    <3> QED BY <1>1, <1>3, <2>1, <3>1, <3>2, <3>3 DEF Fits, Rests
  <2>12. t \in Good(L, {}, Nowhere, early, D)
    <3> DEFINE X == {}
               Y == {}
    <3>1. /\ s \in Good(L, X, e, early, D) /\ t \in State /\ Alike(L, t, s) /\ Recorded(L, t, Y)
          /\ p \in Places(s) /\ Places(t) = Places(s)
      BY <2>4, <2>6
    <3>2. e \in {Nowhere, p} OBVIOUS
    <3>3. /\ Held(At(t, p)) \subseteq Held(At(s, p)) \cup X
          /\ Held(At(t, p)) \subseteq Taken(t, Y)
          /\ Taken(s, X) \ Held(At(s, p)) \subseteq Taken(t, Y)
          /\ Taken(t, Y) \subseteq (Taken(s, X) \ Held(At(s, p))) \cup Held(At(t, p))
      <4>1. At(s, p) = seg OBVIOUS
      <4> HIDE DEF seg, p
      <4> QED BY <1>1, <1>5, <2>4, <2>6, <2>9, <4>1
    <3>4. /\ ~At(s, p).finding /\ ~At(t, p).finding /\ At(t, p).cur <= At(t, p).end
          /\ Adds(L, t, At(t, p)) /\ (s.source[p[1]].running \/ Rests(At(t, p), early))
          /\ Wakes(s, p[1], At(t, p))
      BY <2>1, <2>4, <2>10, <2>11
    <3>5. \A q \in Places(s) : q # p => At(t, q) = At(s, q) BY <2>4
    <3>6. \A x \in Mirrors : (t.source[x].segments = <<>>) = (s.source[x].segments = <<>>)
      BY <2>4
    <3> HIDE DEF X, Y, p
    <3>7. t \in Good(L, Y, Nowhere, early, D)
      BY <3>1, <3>2, <3>3, <3>4, <3>5, <3>6, Changed
    <3> QED BY <3>7 DEF X, Y
  <2>13. Modes(t, s) BY <1>16, <2>5
  <2>14. Attended(t)
    <3>1. p \in Places(s) OBVIOUS
    <3> HIDE DEF p, t
    <3> QED BY <2>4, <3>1 DEF Attended
  <2>15. Lively(s) => Lively(t) BY <2>13, <2>14, ModesLively
  <2> QED BY <2>6, <2>12, <2>15 DEF t
<1>18. CASE over
  <2> DEFINE T == [S EXCEPT ![m].segments = RemoveAt(S[m].segments, i)]
             r == [factory |-> s.factory, source |-> T, disk |-> s.disk]
             ended == [factory |-> g, source |-> T, disk |-> s.disk]
  <2>1. DOMAIN S = Mirrors BY <1>13 DEF State
  <2>2. t = IF ended.factory.done THEN ended ELSE assignSegments(ended, m)
    <3> DEFINE R == removeSegment(marked, m, i)
               E == [R EXCEPT !.factory.done = marked.factory.finished = Chunks]
               list == RemoveAt(S[m].segments, i)
    <3>1. R = [factory |-> f, source |-> T, disk |-> s.disk]
      <4>1. R = WithSegments(marked, m, list) BY DEF removeSegment
      <4> HIDE DEF list, R
      <4>2. WithSegments([factory |-> f, source |-> S, disk |-> s.disk], m, list)
                = [factory |-> f, source |-> [S EXCEPT ![m].segments = list], disk |-> s.disk]
        BY <2>1, OnlySources
      <4> QED BY <4>1, <4>2 DEF list
    <3>2. (marked.factory.finished = Chunks) = b BY <1>15 DEF b
    <3> HIDE DEF R, T
    <3>3. E = [R EXCEPT !.factory.done = b] BY <3>2
    <3>4. E = [factory |-> [f EXCEPT !.done = b], source |-> T, disk |-> s.disk]
      BY <3>1, <3>3
    <3>5. g = [f EXCEPT !.done = b] BY <1>2 DEF f, g, AnyFactory
    <3>6. E = ended BY <3>4, <3>5
    <3>7. t = IF E.factory.done THEN E ELSE assignSegments(E, m) BY <1>11, <1>18 DEF R
    <3> HIDE DEF E, ended
    <3> QED BY <3>6, <3>7
  <2>3. v \in Good(L, {}, p, early, D)
    <3>1. v = WithSegment(s, m, i, h) BY <1>7
    <3>2. (s.source[m].running \/ Rests(h, early)) /\ Wakes(s, m, h)
      <4>1. Fits(s, {}, early, m, seg) BY <1>2 DEF Fitting
      <4> QED BY <1>1, <1>3, <4>1 DEF Fits, Rests, Wakes, HasStarted
    <3>3. p # Nowhere
      <4>1. p \in Places(s) OBVIOUS
      <4> HIDE DEF p
      <4> QED BY <4>1, NowhereIsNoPlace
    <3>4. At(s, p) = seg /\ p = <<m, i>> /\ e \in {Nowhere, p} OBVIOUS
    <3> HIDE DEF v, seg, p
    <3>5. p \in {Nowhere, <<m, i>>} /\ e \in {Nowhere, <<m, i>>} BY <3>4
    <3>6. /\ ~At(s, <<m, i>>).finding /\ ~h.finding /\ Held(h) = Held(At(s, <<m, i>>))
          /\ h.cur <= h.end /\ h \in AnySegment /\ (p = Nowhere => Adds(L, s, h))
      BY <1>1, <1>3, <3>3, <3>4
    <3>7. WithSegment(s, m, i, h) \in Good(L, {}, p, early, D)
      BY <3>2, <3>5, <3>6, Exchanged
    <3> QED BY <3>1, <3>7
  <2>4. r = removeSegment(v, m, i)
    <3> DEFINE list == RemoveAt(S[m].segments, i)
    <3>1. removeSegment(v, m, i) = WithSegments(v, m, list) BY DEF removeSegment
    <3> HIDE DEF list
    <3>2. WithSegments([factory |-> s.factory, source |-> S, disk |-> s.disk], m, list)
              = [factory |-> s.factory, source |-> [S EXCEPT ![m].segments = list],
                 disk |-> s.disk]
      BY <2>1, OnlySources
    <3> QED BY <3>1, <3>2 DEF list
  <2>5. r \in Good(L, Held(seg), Nowhere, early, D) /\ Steady(r, v)
    <3>1. At(v, p) = h /\ p \in Places(v) /\ p = <<m, i>> BY <1>8
    <3> HIDE DEF v, r, p, seg
    <3>2. p \in {Nowhere, <<m, i>>} /\ <<m, i>> \in Places(v) BY <3>1
    <3>3. removeSegment(v, m, i) \in Good(L, Held(At(v, <<m, i>>)), Nowhere, early, D)
          /\ Steady(removeSegment(v, m, i), v)
      BY <2>3, <3>2, RemovedSegment
    <3> QED BY <1>3, <2>4, <3>1, <3>3
  <2>6. /\ r.factory = s.factory /\ r.disk = s.disk /\ ended.factory = g /\ ended.disk = s.disk
        /\ r.source = T /\ ended.source = T
    OBVIOUS
  <2>7. r \in State BY <2>5 DEF Good
  <2>8. ended \in State BY <1>15, <2>6, <2>7 DEF State
  <2>9. \A y \in Mirrors : /\ r.source[y].used = s.source[y].used
                            /\ r.source[y].running = s.source[y].running
    BY <1>12, <2>5 DEF Steady
  <2> HIDE DEF r, ended, T, over, v, marked, seg, p
  <2>10. After(ended) BY <2>6, <2>9
  <2>11. /\ Recorded(L, ended, {}) /\ Alike(L, ended, s)
         /\ Taken(ended, {}) = Taken(s, {}) \ FinishedBy(seg)
         /\ Advanced(ended, s, Held(seg))
    BY <1>16, <2>10
  <2>12. Alike(L, ended, r) BY <2>6, <2>9, <2>11 DEF Alike, Kept
  <2>13. Taken(ended, {}) = Taken(r, Held(seg))
    <3>1. FinishedBy(seg) = Held(seg) BY <1>5, <1>18
    <3> QED BY <2>6, <2>11, <3>1 DEF Taken
  <2>14. ended \in Good(L, {}, Nowhere, early, D)
    BY <2>5, <2>6, <2>8, <2>11, <2>12, <2>13, OtherChunks
  <2>17. Modes(ended, s) BY <1>16, <2>10
  <2>15. CASE ended.factory.done
    <3>1. Attended(ended) BY <2>11, <2>15 DEF Recorded, Attended
    <3>2. Lively(s) => Lively(ended) BY <2>17, <3>1, ModesLively
    <3> QED BY <2>2, <2>11, <2>14, <2>15, <3>2 DEF t, seg, p
  <2>16. CASE ~ended.factory.done
    <3>1. ended.source[m].used BY <1>1, <2>6, <2>9
    <3>2. /\ assignSegments(ended, m) \in Good(L, {}, Nowhere, early, D)
          /\ Steady(assignSegments(ended, m), ended)
          /\ ended.factory.known => Attended(assignSegments(ended, m))
      BY <2>14, <3>1, AssignedSegments
    <3> DEFINE after == assignSegments(ended, m)
    <3> HIDE DEF after
    <3>3. Frame(after) = Frame(ended) BY <3>2 DEF Steady, after
    <3>4. Advanced(after, s, Held(seg)) BY <2>11, <3>3, AdvanceThen
    <3>5. ended.factory.known = s.factory.known BY <2>17 DEF Modes
    <3>6. Modes(after, ended) BY <3>2, SteadyModes DEF after
    <3>7. Modes(after, s) BY <2>17, <3>6 DEF Modes
    <3>8. s.factory.known => Attended(after) BY <3>2, <3>5 DEF after
    <3>9. Lively(s) => Lively(after) BY <3>7, <3>8, ModesLively
    <3> QED BY <2>2, <2>16, <3>2, <3>4, <3>9 DEF t, after, seg, p
  <2> QED BY <2>15, <2>16
<1> QED BY <1>17, <1>18

-----------------------------------------------------------------------------
(* Data *)

(* Other counts of tries and timers *)
Timed(seg, a, b) == [seg EXCEPT !.tries = a, !.timers = b]
Resembles(new, seg, b) ==
    /\ new \in AnySegment /\ new.timers = b /\ Held(new) = Held(seg) /\ new.finding = seg.finding
    /\ new.cur = seg.cur /\ new.end = seg.end /\ new.offset = seg.offset
    /\ new.job = seg.job /\ new.buffer = seg.buffer /\ new.status = seg.status
    /\ Exactly(seg) => Exactly(new)

LEMMA TimedSegments ==
  ASSUME NEW seg \in AnySegment, NEW a \in Nat, NEW b \in Nat
  PROVE  LET new == Timed(seg, a, b)
         IN  Resembles(new, seg, b)
<1> DEFINE new == Timed(seg, a, b)
<1>1. /\ new \in AnySegment /\ new.finding = seg.finding
      /\ new.cur = seg.cur /\ new.end = seg.end /\ new.offset = seg.offset
      /\ new.job = seg.job /\ new.buffer = seg.buffer /\ new.timers = b /\ new.tries = a
      /\ new.lastSize = seg.lastSize /\ new.curSize = seg.curSize /\ new.left = seg.left
      /\ new.pos = seg.pos /\ new.status = seg.status
  BY DEF AnySegment, Timed
<1> HIDE DEF new
<1>2. Held(new) = Held(seg) BY <1>1 DEF Held, Owned
<1>3. Exactly(seg) => Exactly(new) BY <1>1 DEF Exactly
<1> QED BY <1>1, <1>2, <1>3 DEF new, Resembles

(* The next unit is in the buffer. *)
LEMMA ReceivedSegments ==
  ASSUME NEW seg \in AnySegment, seg.job # "none"
  PROVE  LET new == [seg EXCEPT !.buffer = Append(seg.buffer, seg.pos), !.pos = seg.pos + 1]
         IN  /\ new \in AnySegment /\ Held(new) = Held(seg) /\ new.finding = seg.finding
             /\ new.cur = seg.cur /\ new.end = seg.end /\ new.offset = seg.offset
             /\ new.timers = seg.timers /\ new.buffer # <<>> /\ Waits(new)
             /\ new.job = seg.job /\ new.status = seg.status
             /\ Exactly(seg) /\ seg.pos < FileSize => Exactly(new)
<1> DEFINE buffer == Append(seg.buffer, seg.pos)
           pos == seg.pos + 1
           new == [seg EXCEPT !.buffer = buffer, !.pos = pos]
           n == Len(seg.buffer)
<1>1. seg.buffer \in Seq(Int) /\ seg.pos \in Int /\ seg.offset \in Int BY DEF AnySegment
<1>2. /\ buffer \in Seq(Int) /\ Len(buffer) = n + 1 /\ n \in Nat /\ pos \in Int
      /\ \A k \in 1 .. n + 1 : buffer[k] = IF k = n + 1 THEN seg.pos ELSE seg.buffer[k]
  BY <1>1
<1> HIDE DEF buffer, pos
<1>3. /\ new \in AnySegment /\ new.finding = seg.finding
      /\ new.cur = seg.cur /\ new.end = seg.end /\ new.offset = seg.offset
      /\ new.job = seg.job /\ new.buffer = buffer /\ new.timers = seg.timers
      /\ new.lastSize = seg.lastSize /\ new.curSize = seg.curSize /\ new.left = seg.left
      /\ new.pos = pos /\ new.status = seg.status
  BY <1>2 DEF AnySegment
<1> HIDE DEF new
<1>4. Held(new) = Held(seg) BY <1>3 DEF Held, Owned
<1>5. buffer # <<>> BY <1>2
<1>6. Waits(new) BY <1>3 DEF Waits
<1>7. ASSUME Exactly(seg), seg.pos < FileSize PROVE Exactly(new)
  <2>1. seg.pos = seg.offset + n BY <1>7 DEF Exactly
  <2>2. new.offset + Len(new.buffer) <= FileSize BY <1>1, <1>2, <1>3, <1>7, <2>1, SizesAssumption
  <2>3. \A k \in 1 .. Len(new.buffer) : new.buffer[k] = new.offset + k - 1
    <3>1. ASSUME NEW k \in 1 .. n + 1 PROVE buffer[k] = seg.offset + k - 1
      <4>1. CASE k = n + 1 BY <1>1, <1>2, <2>1, <4>1
      <4>2. CASE k # n + 1
        <5>1. k \in 1 .. n BY <1>2, <4>2
        <5> QED BY <1>2, <1>7, <4>2, <5>1 DEF Exactly
      <4> QED BY <4>1, <4>2
    <3> QED BY <1>2, <1>3, <3>1
  <2>4. new.pos = new.offset + Len(new.buffer) BY <1>1, <1>2, <1>3, <2>1 DEF pos
  <2> QED BY <1>3, <1>7, <2>2, <2>3, <2>4 DEF Exactly
<1> QED BY <1>3, <1>4, <1>5, <1>6, <1>7 DEF new, buffer, pos

(* All that is left is in the buffer. *)
LEMMA FullSegments ==
  ASSUME NEW seg \in AnySegment, seg.job # "none", seg.cur \in Chunks, seg.end \in Chunks,
         seg.cur <= seg.end, Len(Append(seg.buffer, seg.pos)) >= seg.left
  PROVE  LET new == [seg EXCEPT !.buffer = SubSeq(Append(seg.buffer, seg.pos), 1, seg.left),
                                !.job = "none", !.pos = 0]
         IN  /\ new \in AnySegment /\ Held(new) = Held(seg) /\ new.finding = seg.finding
             /\ new.cur = seg.cur /\ new.end = seg.end /\ new.offset = seg.offset
             /\ new.timers = seg.timers /\ new.status = seg.status /\ new.job = "none"
             /\ Exactly(seg) => Exactly(new)
<1> DEFINE list == Append(seg.buffer, seg.pos)
           buffer == SubSeq(list, 1, seg.left)
           zero == 0
           none == "none"
           new == [seg EXCEPT !.buffer = buffer, !.job = none, !.pos = zero]
           n == Len(seg.buffer)
<1>1. seg.buffer \in Seq(Int) /\ seg.pos \in Int /\ seg.offset \in Int /\ seg.left \in Int
      /\ seg.curSize \in Int
  BY DEF AnySegment
<1>2. /\ list \in Seq(Int) /\ Len(list) = n + 1 /\ n \in Nat
      /\ \A k \in 1 .. n + 1 : list[k] = IF k = n + 1 THEN seg.pos ELSE seg.buffer[k]
  BY <1>1
<1> HIDE DEF list
<1>3. /\ buffer \in Seq(Int)
      /\ seg.left > 0 => Len(buffer) = seg.left /\ \A k \in 1 .. seg.left : buffer[k] = list[k]
  <2>1. CASE seg.left > 0
    <3>1. seg.left <= Len(list) BY <1>2 DEF list
    <3>2. \A k \in 1 .. seg.left : list[k] \in Int BY <1>1, <1>2, <3>1
    <3>3. buffer = [k \in 1 .. seg.left |-> list[k]] BY <1>1, <1>2, <2>1, <3>1
    <3> DEFINE l == seg.left
    <3>4. l \in Nat BY <1>1, <2>1
    <3>5. buffer \in [1 .. l -> Int] BY <3>2, <3>3
    <3>6. \A k \in 1 .. l : buffer[k] = list[k] BY <3>3
    <3> HIDE DEF buffer, l
    <3>7. buffer \in Seq(Int) /\ Len(buffer) = l BY <3>4, <3>5
    <3> QED BY <3>6, <3>7 DEF l
  <2>2. CASE ~(seg.left > 0)
    <3>1. buffer = <<>> BY <1>1, <1>2, <2>2
    <3> HIDE DEF buffer
    <3>2. buffer \in Seq(Int) BY <3>1
    <3> QED BY <2>2, <3>2
  <2> QED BY <2>1, <2>2
<1>4. zero \in Int /\ none = "none" OBVIOUS
<1> HIDE DEF buffer, zero, none
<1>5. /\ new \in AnySegment /\ new.finding = seg.finding
      /\ new.cur = seg.cur /\ new.end = seg.end /\ new.offset = seg.offset
      /\ new.job = none /\ new.pos = zero /\ new.buffer = buffer /\ new.timers = seg.timers
      /\ new.status = seg.status
      /\ new.lastSize = seg.lastSize /\ new.curSize = seg.curSize /\ new.left = seg.left
  BY <1>3, <1>4 DEF AnySegment
<1> HIDE DEF new
<1>6. Held(new) = Held(seg) BY <1>5 DEF Held, Owned
<1>7. ASSUME Exactly(seg) PROVE Exactly(new)
  <2>1. /\ seg.pos = seg.offset + n /\ seg.curSize > 0 /\ seg.offset + seg.curSize = EndOf(seg.cur)
        /\ seg.offset + seg.left = EndOf(seg.end)
    BY <1>7 DEF Exactly
  <2>2. EndOf(seg.cur) <= EndOf(seg.end) /\ EndOf(seg.end) <= FileSize
        /\ EndOf(seg.cur) \in Int /\ EndOf(seg.end) \in Int
    <3>1. /\ EndOf(seg.cur) \in Int /\ EndOf(seg.end) \in Int /\ EndOf(seg.end) <= FileSize
          /\ seg.cur \in Int /\ seg.end \in Int /\ ChunkSize * seg.cur \in Int
          /\ ChunkSize * seg.end \in Int /\ ChunkSize * seg.end < EndOf(seg.end)
          /\ EndOf(seg.cur) <= ChunkSize * seg.cur + ChunkSize
      <4>1. seg.cur \in Int /\ seg.end \in Int BY DEF AnySegment
      <4>2. ChunkSize * seg.cur \in Int /\ ChunkSize * seg.end \in Int BY <4>1, Products
      <4> QED BY <4>1, <4>2, Ends
    <3>2. CASE seg.cur = seg.end BY <3>1, <3>2
    <3>3. CASE seg.cur # seg.end
      <4>1. seg.cur < seg.end BY <3>1, <3>3
      <4>2. ChunkSize * seg.cur + ChunkSize <= ChunkSize * seg.end BY <3>1, <4>1, Products
      <4> QED BY <3>1, <4>2, SizesAssumption
    <3> QED BY <3>2, <3>3
  <2>3. seg.left > 0 BY <1>1, <2>1, <2>2
  <2>4. Len(new.buffer) = seg.left /\ new.offset + Len(new.buffer) <= FileSize
    BY <1>3, <1>5, <2>1, <2>2, <2>3
  <2>5. \A k \in 1 .. Len(new.buffer) : new.buffer[k] = new.offset + k - 1
    <3>1. ASSUME NEW k \in 1 .. seg.left PROVE list[k] = seg.offset + k - 1
      <4>1. k \in 1 .. n + 1 BY <1>1, <1>2 DEF list
      <4>2. CASE k = n + 1 BY <1>1, <1>2, <2>1, <4>1, <4>2
      <4>3. CASE k # n + 1
        <5>1. k \in 1 .. n BY <1>2, <4>1, <4>3
        <5> QED BY <1>2, <1>7, <4>1, <4>3, <5>1 DEF Exactly
      <4> QED BY <4>2, <4>3
    <3> QED BY <1>3, <1>5, <2>3, <2>4, <3>1
  <2> QED BY <1>4, <1>5, <1>7, <2>4, <2>5 DEF Exactly, zero
<1> QED BY <1>5, <1>6, <1>7 DEF new, buffer, list, zero, none

(* Segment::slotWriteRest *)
LEMMA RestWritten ==
  ASSUME NEW L, NEW D, NEW m \in Mirrors, NEW i \in Nat \ {0}, NEW e \in {Nowhere, <<m, i>>},
         NEW early, NEW s \in Good(L, {}, e, early, D), <<m, i>> \in Places(s),
         ~At(s, <<m, i>>).finding, Sums(L, s, At(s, <<m, i>>)), Exact => s.source[m].running
  PROVE  LET t == slotWriteRest(s, m, i)
         IN  /\ t \in Good(L, {}, Nowhere, early, D) /\ Advanced(t, s, Held(At(s, <<m, i>>)))
             /\ Lively(s) => Lively(t)
<1> DEFINE p == <<m, i>>
           seg == At(s, p)
           t == slotWriteRest(s, m, i)
           reset == [seg EXCEPT !.tries = 0]
           later == [seg EXCEPT !.tries = @ + 1, !.timers = @ + 1]
<1>1. /\ Seg(s, m, i) = seg /\ seg \in AnySegment
      /\ seg.cur \in Chunks /\ seg.end \in Chunks /\ seg.cur <= seg.end
  BY MirrorOfSegment
<1>2. ~seg.finding /\ Sums(L, s, seg) /\ p \in Places(s) /\ s.source[m] = s.source[p[1]] OBVIOUS
<1>3. t = IF seg.buffer = <<>> THEN s
          ELSE IF CanWrite(s) THEN writeBuffer(WithSegment(s, m, i, reset), m, i)
          ELSE IF seg.tries + 1 >= MaxTries THEN slotError(s, m, i)
          ELSE WithSegment(s, m, i, later)
  BY <1>1 DEF slotWriteRest
<1>4. (s.source[m].running \/ Rests(seg, early)) /\ Wakes(s, m, seg)
  <2>1. Fitting(L, s, {}, e, early) BY DEF Good
  <2> QED BY <1>2, <2>1 DEF Fitting, Fits
<1> HIDE DEF t
<1>5. CASE seg.buffer = <<>>
  <2>1. Adds(L, s, seg) BY <1>2, <1>5 DEF Adds, Sums, Waits
  <2>2. s \in Good(L, {}, Nowhere, early, D)
    <3>1. CASE e = Nowhere BY <3>1
    <3>2. CASE e # Nowhere
      <4>1. s \in Good(L, {}, p, early, D) BY <3>2
      <4> HIDE DEF p
      <4> QED BY <2>1, <4>1, Settled DEF seg
    <3> QED BY <3>1, <3>2
  <2>3. Advanced(s, s, Held(At(s, <<m, i>>))) BY SameAdvance
  <2> QED BY <1>3, <1>5, <2>2, <2>3 DEF t
<1>6. CASE seg.buffer # <<>> /\ CanWrite(s)
  <2> DEFINE zero == 0
             timers == seg.timers
             u == WithSegment(s, m, i, reset)
  <2>1. zero \in Nat /\ timers \in Nat BY <1>1 DEF AnySegment
  <2>2. reset = Timed(seg, zero, timers) BY <1>1 DEF AnySegment, Timed
  <2> HIDE DEF zero, timers, reset
  <2>3. /\ reset \in AnySegment /\ Held(reset) = Held(seg) /\ ~reset.finding
        /\ reset.cur = seg.cur /\ reset.end = seg.end /\ reset.offset = seg.offset
        /\ reset.buffer = seg.buffer /\ reset.status = seg.status /\ reset.job = seg.job
        /\ reset.timers = timers /\ (Exactly(seg) => Exactly(reset))
    <3> HIDE DEF seg, p
    <3>1. Resembles(Timed(seg, zero, timers), seg, timers) BY <1>1, <2>1, TimedSegments
    <3> QED BY <1>2, <2>2, <3>1 DEF Resembles
  <2>4. /\ u \in Good(L, {}, p, early, D) /\ u.factory = s.factory /\ u.disk = s.disk
        /\ Places(u) = Places(s) /\ At(u, p) = reset /\ Swapped(u, s, p, reset)
    <3>1. (s.source[m].running \/ Rests(reset, early)) /\ Wakes(s, m, reset)
      BY <1>2, <1>4, <2>3 DEF Rests, Wakes, HasStarted, timers
    <3>2. p # Nowhere /\ p \in {Nowhere, <<m, i>>}
      <4>1. p \in Places(s) OBVIOUS
      <4>2. p \in {Nowhere, <<m, i>>} OBVIOUS
      <4> HIDE DEF p
      <4> QED BY <4>1, <4>2, NowhereIsNoPlace
    <3>3. At(s, <<m, i>>) = seg /\ p = <<m, i>> OBVIOUS
    <3> HIDE DEF seg, p
    <3>5. /\ ~At(s, <<m, i>>).finding /\ ~reset.finding /\ Held(reset) = Held(At(s, <<m, i>>))
          /\ reset.cur <= reset.end /\ reset \in AnySegment /\ (p = Nowhere => Adds(L, s, reset))
      BY <1>1, <1>2, <2>3, <3>2, <3>3
    <3>4. /\ WithSegment(s, m, i, reset) \in Good(L, {}, p, early, D)
          /\ Swapped(WithSegment(s, m, i, reset), s, <<m, i>>, reset)
      BY <3>1, <3>2, <3>5, Exchanged
    <3> QED BY <3>3, <3>4 DEF Swapped
  <2>5. t = writeBuffer(u, m, i) BY <1>3, <1>6
  <2> HIDE DEF u
  <2>6. CanWrite(u) BY <1>6, <2>4 DEF CanWrite, Blocked
  <2>7. Sums(L, u, reset) BY <1>2, <2>3, <2>4 DEF Sums, Behind, Kept
  <2>8. /\ <<m, i>> \in Places(u) /\ At(u, <<m, i>>) = reset
        /\ p \in {Nowhere, <<m, i>>}
    BY <2>4
  <2> HIDE DEF p
  <2>9. /\ writeBuffer(u, m, i) \in Good(L, {}, Nowhere, early, D)
        /\ Advanced(writeBuffer(u, m, i), u, Held(At(u, <<m, i>>)))
        /\ Lively(u) => Lively(writeBuffer(u, m, i))
    BY <1>6, <2>3, <2>4, <2>6, <2>7, <2>8, WrittenBuffer
  <2>10. Held(At(u, <<m, i>>)) = Held(At(s, <<m, i>>)) BY <2>3, <2>4 DEF seg, p
  <2>11. Lively(s) => Lively(u) BY <2>4, SwappedLively
  <2>12. Advanced(t, s, Held(At(s, <<m, i>>))) BY <2>4, <2>5, <2>9, <2>10, ThenAdvance
  <2> QED BY <2>5, <2>9, <2>11, <2>12 DEF t
<1>7. CASE seg.buffer # <<>> /\ ~CanWrite(s) /\ seg.tries + 1 >= MaxTries
  <2>1. /\ slotError(s, m, i) \in Good(L, {}, Nowhere, early, D)
        /\ Frame(slotError(s, m, i)) = Frame(s)
        /\ Lively(s) => Lively(slotError(s, m, i))
    BY FailedSegment
  <2>2. Advanced(slotError(s, m, i), s, Held(seg)) BY <2>1, FrameAdvance
  <2> QED BY <1>3, <1>7, <2>1, <2>2 DEF t
<1>8. CASE seg.buffer # <<>> /\ ~CanWrite(s) /\ ~(seg.tries + 1 >= MaxTries)
  <2> DEFINE tries == seg.tries + 1
             timers == seg.timers + 1
             u == WithSegment(s, m, i, later)
  <2>1. tries \in Nat /\ timers \in Nat /\ timers > 0 BY <1>1 DEF AnySegment
  <2>2. later = Timed(seg, tries, timers) BY DEF Timed
  <2> HIDE DEF tries, timers, later
  <2>3. /\ later \in AnySegment /\ Held(later) = Held(seg) /\ ~later.finding
        /\ later.cur = seg.cur /\ later.end = seg.end /\ later.offset = seg.offset
        /\ later.timers = timers /\ later.status = seg.status /\ later.job = seg.job
        /\ (Exactly(seg) => Exactly(later))
    <3> HIDE DEF seg, p
    <3>1. Resembles(Timed(seg, tries, timers), seg, timers) BY <1>1, <2>1, TimedSegments
    <3> QED BY <1>2, <2>2, <3>1 DEF Resembles
  <2>4. Adds(L, s, later)
    <3>1. Waits(later) BY <2>1, <2>3 DEF Waits
    <3> QED BY <1>2, <2>3, <3>1 DEF Adds, Sums, Behind
  <2>5. (s.source[m].running \/ Rests(later, early)) /\ Wakes(s, m, later)
    BY <1>2, <1>4, <2>3 DEF Rests, Wakes, HasStarted
  <2>6. /\ WithSegment(s, m, i, later) \in Good(L, {}, Nowhere, early, D)
        /\ Swapped(WithSegment(s, m, i, later), s, <<m, i>>, later)
    <3>1. At(s, <<m, i>>) = seg OBVIOUS
    <3> HIDE DEF seg, p
    <3>2. /\ ~At(s, <<m, i>>).finding /\ ~later.finding /\ Held(later) = Held(At(s, <<m, i>>))
          /\ later.cur <= later.end /\ later \in AnySegment
      BY <1>1, <1>2, <2>3, <3>1
    <3>3. Nowhere \in {Nowhere, <<m, i>>} OBVIOUS
    <3> QED BY <2>4, <2>5, <3>2, <3>3, Exchanged
  <2>7. t = WithSegment(s, m, i, later) BY <1>3, <1>8 DEF t
  <2>8. Advanced(t, s, Held(seg)) BY <2>6, <2>7, SameAdvance DEF Swapped
  <2>9. Lively(s) => Lively(t) BY <2>6, <2>7, SwappedLively
  <2> QED BY <2>6, <2>7, <2>8, <2>9 DEF t
<1> QED BY <1>5, <1>6, <1>7, <1>8 DEF t

(* Segment::slotData *)
LEMMA DataReceived ==
  ASSUME NEW L, NEW D, NEW m \in Mirrors, NEW i \in Nat \ {0}, NEW s \in Orderly(L, D), <<m, i>> \in Places(s),
         At(s, <<m, i>>).job # "none", ~At(s, <<m, i>>).finding, At(s, <<m, i>>).pos < FileSize
  PROVE  LET t == slotData(s, m, i, Seg(s, m, i).pos)
         IN  /\ t \in Orderly(L, D) /\ Advanced(t, s, Held(At(s, <<m, i>>)))
             /\ Lively(s) => Lively(t)
<1> DEFINE p == <<m, i>>
           early == FALSE
           seg == At(s, p)
           buffer == Append(seg.buffer, seg.pos)
           got == [seg EXCEPT !.buffer = buffer, !.pos = seg.pos + 1]
           full == [seg EXCEPT !.buffer = SubSeq(buffer, 1, seg.left), !.job = "none", !.pos = 0]
           u == WithSegment(s, m, i, got)
           v == WithSegment(s, m, i, full)
           t == slotData(s, m, i, Seg(s, m, i).pos)
<1>1. /\ s \in Good(L, {}, Nowhere, early, D) /\ p \in Places(s) /\ seg.job # "none" /\ ~seg.finding
      /\ seg.pos < FileSize /\ At(s, p) = seg /\ p = <<m, i>> /\ early = FALSE /\ p[1] = m
  BY DEF Orderly
<1> HIDE DEF early
<1>2. /\ Seg(s, m, i) = seg /\ seg \in AnySegment
      /\ seg.cur \in Chunks /\ seg.end \in Chunks /\ seg.cur <= seg.end
  <2> HIDE DEF seg, p
  <2>1. Nowhere \in {Nowhere, <<m, i>>} /\ <<m, i>> \in Places(s) BY <1>1
  <2>2. /\ Seg(s, m, i) = At(s, <<m, i>>) /\ At(s, <<m, i>>) \in AnySegment
        /\ ~At(s, <<m, i>>).finding =>
               /\ At(s, <<m, i>>).cur \in Chunks /\ At(s, <<m, i>>).end \in Chunks
               /\ At(s, <<m, i>>).cur <= At(s, <<m, i>>).end
    BY <1>1, <2>1, MirrorOfSegment
  <2> QED BY <1>1, <2>2
<1>3. Fits(s, {}, early, m, seg) /\ Adds(L, s, seg)
  <2> HIDE DEF seg, p
  <2>1. p # Nowhere BY <1>1, NowhereIsNoPlace
  <2>2. Fitting(L, s, {}, Nowhere, early) BY <1>1 DEF Good
  <2> QED BY <1>1, <2>1, <2>2 DEF Fitting
<1>4. s.source[m].running BY <1>1, <1>3 DEF Fits, Rests
<1>5. Sums(L, s, seg) BY <1>3 DEF Adds, Sums
<1>6. t = IF seg.offset # 0 /\ ~seg.canResume THEN slotError(s, m, i)
          ELSE IF seg.left # 0 /\ Len(buffer) >= seg.left THEN slotWriteRest(v, m, i)
          ELSE IF Len(buffer) > SaveSize THEN writeBuffer(u, m, i)
          ELSE u
  BY <1>2 DEF slotData
<1>7. /\ got \in AnySegment /\ Held(got) = Held(seg) /\ got.finding = seg.finding
      /\ got.cur = seg.cur /\ got.end = seg.end /\ got.offset = seg.offset
      /\ got.timers = seg.timers /\ got.status = seg.status /\ got.job = seg.job
      /\ got.buffer # <<>> /\ Waits(got)
      /\ Exactly(seg) => Exactly(got)
  <2> HIDE DEF seg, p
  <2> QED BY <1>1, <1>2, ReceivedSegments
<1> HIDE DEF t, got, full
<1>8. Adds(L, s, got) BY <1>3, <1>7 DEF Adds, Behind
<1>9. /\ u \in Good(L, {}, Nowhere, early, D) /\ u.factory = s.factory /\ u.disk = s.disk
      /\ Places(u) = Places(s) /\ At(u, p) = got /\ Swapped(u, s, p, got)
  <2>1. (s.source[m].running \/ Rests(got, early)) /\ Wakes(s, m, got)
    BY <1>3, <1>4, <1>7 DEF Fits, Rests, Wakes, HasStarted
  <2> HIDE DEF seg, p
  <2>2. /\ WithSegment(s, m, i, got) \in Good(L, {}, Nowhere, early, D)
        /\ Swapped(WithSegment(s, m, i, got), s, <<m, i>>, got)
    BY <1>1, <1>2, <1>7, <1>8, <2>1, Exchanged
  <2> QED BY <1>1, <2>2 DEF Swapped
<1> HIDE DEF u
<1>10. CASE seg.offset # 0 /\ ~seg.canResume
  <2> HIDE DEF seg, p
  <2>1. Nowhere \in {Nowhere, <<m, i>>} /\ <<m, i>> \in Places(s) /\ Sums(L, s, At(s, <<m, i>>))
    BY <1>1, <1>5
  <2>2. /\ slotError(s, m, i) \in Good(L, {}, Nowhere, early, D)
        /\ Frame(slotError(s, m, i)) = Frame(s)
        /\ Lively(s) => Lively(slotError(s, m, i))
    BY <1>1, <2>1, FailedSegment
  <2>3. Advanced(slotError(s, m, i), s, Held(seg)) BY <2>2, FrameAdvance
  <2> QED BY <1>1, <1>6, <1>10, <2>2, <2>3 DEF t, Orderly
<1>11. CASE ~(seg.offset # 0 /\ ~seg.canResume) /\ seg.left # 0 /\ Len(buffer) >= seg.left
  <2>1. t = slotWriteRest(v, m, i) BY <1>6, <1>11
  <2>2. /\ full \in AnySegment /\ Held(full) = Held(seg) /\ full.finding = seg.finding
        /\ full.cur = seg.cur /\ full.end = seg.end /\ full.offset = seg.offset
        /\ full.timers = seg.timers /\ full.status = seg.status /\ full.job = "none"
        /\ Exactly(seg) => Exactly(full)
    <3> HIDE DEF seg, p
    <3> QED BY <1>1, <1>2, <1>11, FullSegments DEF full
  <2>3. /\ v \in Good(L, {}, p, early, D) /\ v.factory = s.factory /\ v.disk = s.disk
        /\ Places(v) = Places(s) /\ At(v, p) = full /\ v.source[m].running = s.source[m].running
        /\ Swapped(v, s, p, full)
    <3>1. (s.source[m].running \/ Rests(full, early)) /\ Wakes(s, m, full)
      BY <1>3, <1>4, <2>2 DEF Fits, Rests, Wakes, HasStarted
    <3> HIDE DEF seg, p
    <3>2. p # Nowhere /\ p \in {Nowhere, <<m, i>>} BY <1>1, NowhereIsNoPlace
    <3>3. /\ WithSegment(s, m, i, full) \in Good(L, {}, p, early, D)
          /\ Swapped(WithSegment(s, m, i, full), s, <<m, i>>, full)
      BY <1>1, <1>2, <2>2, <3>1, <3>2, Exchanged
    <3> QED BY <1>1, <3>3 DEF Swapped
  <2> HIDE DEF v, seg, p
  <2>4. Sums(L, v, full) BY <1>3, <2>2, <2>3 DEF Adds, Sums, Behind, Kept
  <2>5. /\ p \in {Nowhere, <<m, i>>} /\ <<m, i>> \in Places(v) /\ ~At(v, <<m, i>>).finding
        /\ Sums(L, v, At(v, <<m, i>>)) /\ (Exact => v.source[m].running)
    BY <1>1, <1>4, <2>2, <2>3, <2>4
  <2>6. /\ slotWriteRest(v, m, i) \in Good(L, {}, Nowhere, early, D)
        /\ Advanced(slotWriteRest(v, m, i), v, Held(At(v, <<m, i>>)))
        /\ Lively(v) => Lively(slotWriteRest(v, m, i))
    BY <2>3, <2>5, RestWritten
  <2>7. Held(At(v, <<m, i>>)) = Held(At(s, <<m, i>>)) BY <1>1, <2>2, <2>3
  <2>8. Lively(s) => Lively(v) BY <2>3, SwappedLively
  <2>9. Advanced(t, s, Held(At(s, <<m, i>>))) BY <2>1, <2>3, <2>6, <2>7, ThenAdvance
  <2> QED BY <1>1, <2>1, <2>6, <2>8, <2>9 DEF t, Orderly
<1>12. CASE /\ ~(seg.offset # 0 /\ ~seg.canResume)
            /\ ~(seg.left # 0 /\ Len(buffer) >= seg.left)
  <2>1. t = writeBuffer(u, m, i) \/ t = u BY <1>6, <1>12
  <2>5. Lively(s) => Lively(u) BY <1>9, SwappedLively
  <2>2. CASE t = u
    <3>1. Advanced(t, s, Held(At(s, <<m, i>>))) BY <1>9, <2>2, SameAdvance
    <3> QED BY <1>1, <1>9, <2>2, <2>5, <3>1 DEF t, Orderly
  <2>3. CASE t = writeBuffer(u, m, i) /\ ~CanWrite(u)
    <3>1. t = u BY <2>3 DEF writeBuffer
    <3>2. Advanced(t, s, Held(At(s, <<m, i>>))) BY <1>9, <3>1, SameAdvance
    <3> QED BY <1>1, <1>9, <2>5, <3>1, <3>2 DEF t, Orderly
  <2>4. CASE t = writeBuffer(u, m, i) /\ CanWrite(u)
    <3> HIDE DEF seg, p
    <3>1. Sums(L, u, got) BY <1>7, <1>8, <1>9 DEF Adds, Sums, Behind, Kept
    <3>2. /\ Nowhere \in {Nowhere, <<m, i>>} /\ <<m, i>> \in Places(u)
          /\ ~At(u, <<m, i>>).finding /\ Sums(L, u, At(u, <<m, i>>))
          /\ At(u, <<m, i>>).buffer # <<>>
      BY <1>1, <1>7, <1>9, <3>1
    <3>3. /\ writeBuffer(u, m, i) \in Good(L, {}, Nowhere, early, D)
          /\ Advanced(writeBuffer(u, m, i), u, Held(At(u, <<m, i>>)))
          /\ Lively(u) => Lively(writeBuffer(u, m, i))
      BY <1>9, <2>4, <3>2, WrittenBuffer
    <3>4. Held(At(u, <<m, i>>)) = Held(At(s, <<m, i>>)) BY <1>1, <1>7, <1>9
    <3>5. Advanced(t, s, Held(At(s, <<m, i>>))) BY <1>9, <2>4, <3>3, <3>4, ThenAdvance
    <3> QED BY <1>1, <2>4, <2>5, <3>3, <3>5 DEF t, Orderly
  <2> QED BY <2>1, <2>2, <2>3, <2>4
<1> QED BY <1>10, <1>11, <1>12 DEF t

(* A timer of slotWriteRest fires. *)
LEMMA RestTried ==
  ASSUME NEW L, NEW D, NEW m \in Mirrors, NEW i \in Nat \ {0}, NEW s \in Orderly(L, D), <<m, i>> \in Places(s),
         At(s, <<m, i>>).timers > 0
  PROVE  LET seg == [Seg(s, m, i) EXCEPT !.timers = @ - 1]
             t == slotWriteRest(WithSegment(s, m, i, seg), m, i)
         IN  /\ t \in Orderly(L, D) /\ Advanced(t, s, Held(At(s, <<m, i>>)))
             /\ Lively(s) => Lively(t)
<1> DEFINE p == <<m, i>>
           early == FALSE
           old == At(s, p)
           seg == [Seg(s, m, i) EXCEPT !.timers = @ - 1]
           u == WithSegment(s, m, i, seg)
           tries == old.tries
           timers == old.timers - 1
<1>1. /\ s \in Good(L, {}, Nowhere, early, D) /\ p \in Places(s) /\ old.timers > 0
      /\ At(s, p) = old /\ p = <<m, i>> /\ early = FALSE /\ p[1] = m
      /\ Seg(s, m, i) = old
  BY DEF Orderly, Seg, At
<1> HIDE DEF early, old, p
<1>2. p # Nowhere /\ p \in {Nowhere, <<m, i>>} BY <1>1, NowhereIsNoPlace
<1>3. Fits(s, {}, early, m, old) /\ Adds(L, s, old)
  <2>1. Fitting(L, s, {}, Nowhere, early) BY <1>1 DEF Good
  <2> QED BY <1>1, <1>2, <2>1 DEF Fitting
<1>4. ~old.finding
  <2>1. old.finding => old.timers = 0 BY <1>3 DEF Fits, Searches
  <2> QED BY <1>1, <2>1
<1>5. old \in AnySegment /\ old.cur <= old.end
  <2>1. /\ At(s, p) \in AnySegment
        /\ ~At(s, p).finding => At(s, p).cur <= At(s, p).end
    BY <1>1, ChunkFacts
  <2> QED BY <1>1, <1>4, <2>1
<1>6. Exact => s.source[m].running
  <2>1. Rests(old, early) /\ Exact => old.timers = 0 BY <1>4 DEF Rests
  <2> QED BY <1>1, <1>3, <2>1 DEF Fits
<1>7. tries \in Nat /\ timers \in Nat BY <1>1, <1>5 DEF AnySegment
<1>8. seg = Timed(old, tries, timers) BY <1>1, <1>5 DEF Timed, AnySegment
<1> HIDE DEF seg, tries, timers
<1>9. Resembles(seg, old, timers) BY <1>5, <1>7, <1>8, TimedSegments
<1>10. u \in Good(L, {}, p, early, D) /\ Swapped(u, s, p, seg)
  <2>1. /\ ~At(s, <<m, i>>).finding /\ ~seg.finding /\ Held(seg) = Held(At(s, <<m, i>>))
        /\ seg.cur <= seg.end /\ seg \in AnySegment /\ (p = Nowhere => Adds(L, s, seg))
    BY <1>1, <1>2, <1>4, <1>5, <1>9 DEF Resembles
  <2>2. (s.source[m].running \/ Rests(seg, early)) /\ Wakes(s, m, seg)
    BY <1>3, <1>6, <1>9 DEF Fits, Rests, Wakes, HasStarted, Resembles
  <2>3. /\ WithSegment(s, m, i, seg) \in Good(L, {}, p, early, D)
        /\ Swapped(WithSegment(s, m, i, seg), s, <<m, i>>, seg)
    BY <1>1, <1>2, <2>1, <2>2, Exchanged
  <2> QED BY <1>1, <2>3
<1> HIDE DEF u
<1>11. Sums(L, u, seg)
  <2>1. Kept(L, u) = Kept(L, s) BY <1>10 DEF Swapped, Kept
  <2> QED BY <1>3, <1>4, <1>9, <2>1 DEF Adds, Sums, Behind, Resembles
<1>12. /\ <<m, i>> \in Places(u) /\ ~At(u, <<m, i>>).finding /\ Sums(L, u, At(u, <<m, i>>))
       /\ Exact => u.source[m].running
  BY <1>1, <1>4, <1>6, <1>9, <1>10, <1>11 DEF Swapped, Resembles
<1>13. /\ slotWriteRest(u, m, i) \in Good(L, {}, Nowhere, early, D)
       /\ Advanced(slotWriteRest(u, m, i), u, Held(At(u, <<m, i>>)))
       /\ Lively(u) => Lively(slotWriteRest(u, m, i))
  BY <1>2, <1>10, <1>12, RestWritten
<1>14. u.factory = s.factory /\ u.disk = s.disk BY <1>10 DEF Swapped
<1>15. Held(At(u, <<m, i>>)) = Held(At(s, <<m, i>>)) BY <1>1, <1>9, <1>10 DEF Swapped, Resembles
<1>16. Advanced(slotWriteRest(u, m, i), s, Held(At(s, <<m, i>>))) BY <1>13, <1>14, <1>15, ThenAdvance
<1>17. Lively(s) => Lively(u) BY <1>10, SwappedLively
<1> QED BY <1>1, <1>13, <1>16, <1>17 DEF u, seg, Orderly

(* The job of a segment ends without an error. *)
Ended(seg) == [seg EXCEPT !.job = "none", !.pos = 0]

LEMMA EndedSegments ==
  ASSUME NEW seg \in AnySegment
  PROVE  LET new == Ended(seg)
         IN  /\ Same(new, seg) /\ new.job = "none" /\ new.pos = 0
             /\ new.buffer = seg.buffer /\ new.status = seg.status
             /\ Exactly(seg) => Exactly(new)
<1> DEFINE zero == 0
           none == "none"
           new == [seg EXCEPT !.job = none, !.pos = zero]
<1>4. zero \in Int /\ none \in {"none", "suspended", "active"} OBVIOUS
<1>5. Ended(seg) = new BY DEF Ended
<1> HIDE DEF zero, none
<1>6. /\ new \in AnySegment /\ new.finding = seg.finding /\ new.cur = seg.cur
      /\ new.end = seg.end /\ new.offset = seg.offset /\ new.timers = seg.timers
      /\ new.lastSize = seg.lastSize /\ new.curSize = seg.curSize /\ new.left = seg.left
      /\ new.buffer = seg.buffer /\ new.status = seg.status
      /\ new.job = none /\ new.pos = zero
  BY <1>4 DEF AnySegment
<1> HIDE DEF new
<1>1. /\ new \in AnySegment /\ new.finding = seg.finding /\ new.cur = seg.cur
      /\ new.end = seg.end /\ new.offset = seg.offset /\ new.timers = seg.timers
      /\ new.lastSize = seg.lastSize /\ new.curSize = seg.curSize /\ new.left = seg.left
      /\ new.buffer = seg.buffer /\ new.status = seg.status
      /\ new.job = "none" /\ new.pos = 0
  BY <1>6 DEF zero, none
<1>2. Held(new) = Held(seg) BY <1>1 DEF Held, Owned
<1>3. Exactly(seg) => Exactly(new) BY <1>1 DEF Exactly
<1> QED BY <1>1, <1>2, <1>3, <1>5 DEF Same

(* A segment whose job has ended so fits as it did before. *)
LEMMA JobEnded ==
  ASSUME NEW L, NEW D, NEW m \in Mirrors, NEW i \in Nat \ {0}, NEW s \in Orderly(L, D),
         <<m, i>> \in Places(s), At(s, <<m, i>>).job = "active",
         Exact => At(s, <<m, i>>).buffer = <<>>
  PROVE  LET t == WithSegment(s, m, i, Ended(Seg(s, m, i)))
         IN  t \in Orderly(L, D) /\ Swapped(t, s, <<m, i>>, Ended(Seg(s, m, i)))
<1> DEFINE p == <<m, i>>
           old == At(s, p)
           new == Ended(old)
           t == WithSegment(s, m, i, new)
           early == FALSE
           X == {}
<1>1. /\ s \in Good(L, X, Nowhere, early, D) /\ early = FALSE /\ X = {}
      /\ Seg(s, m, i) = old /\ p[1] = m /\ p \in Places(s)
      /\ old.job = "active" /\ (Exact => old.buffer = <<>>)
  BY DEF Orderly, Seg, At
<1> HIDE DEF early, X
<1>2. /\ s \in State /\ Recorded(L, s, X) /\ Mirrored(s, D)
      /\ Fitting(L, s, X, Nowhere, early) /\ Apart(s) /\ Covered(s, X)
  BY <1>1 DEF Good
<1>3. old \in AnySegment BY <1>1, ChunkFacts
<1>4. /\ Same(new, old) /\ new.job = "none" /\ new.pos = 0
      /\ new.buffer = old.buffer /\ new.status = old.status
      /\ Exactly(old) => Exactly(new)
  BY <1>3, EndedSegments
<1> HIDE DEF new
<1>5. i \in 1 .. Len(s.source[m].segments)
  <2>1. i <= Len(s.source[m].segments) /\ Len(s.source[m].segments) \in Nat
    BY <1>1, <1>2, Parts DEF Places
  <2> QED BY <2>1
<1>6. new \in AnySegment BY <1>4 DEF Same
<1>7. /\ t \in State /\ t.factory = s.factory /\ t.disk = s.disk
      /\ \A x \in Mirrors : /\ t.source[x].used = s.source[x].used
                            /\ t.source[x].running = s.source[x].running
                            /\ (t.source[x].segments = <<>>) = (s.source[x].segments = <<>>)
      /\ Places(t) = Places(s)
      /\ At(t, p) = new /\ \A q \in Places(s) : q # p => At(t, q) = At(s, q)
  BY <1>2, <1>5, <1>6, OneReplaced
<1>8. p # Nowhere BY DEF Nowhere
<1> HIDE DEF t, old, p
<1>9. Recorded(L, t, X) BY <1>2, <1>7 DEF Recorded, Kept
<1>10. Mirrored(t, D) BY <1>2, <1>7 DEF Mirrored
<1>11. Taken(t, X) = Taken(s, X) /\ Kept(L, t) = Kept(L, s) BY <1>7 DEF Taken, Kept
<1>12. ASSUME NEW q \in Places(s)
       PROVE  Fits(t, X, early, q[1], At(t, q)) /\ (q # Nowhere => Adds(L, t, At(t, q)))
  <2>1. /\ Fits(s, X, early, q[1], At(s, q)) /\ (q # Nowhere => Adds(L, s, At(s, q)))
        /\ t.source[q[1]].running = s.source[q[1]].running
    <3>1. q[1] \in Mirrors BY DEF Places
    <3> QED BY <1>2, <1>7, <3>1 DEF Fitting
  <2>2. CASE q # p
    BY <1>7, <1>11, <2>1, <2>2 DEF Fits, Fetches, Searches, Wakes, HasStarted, Adds, Behind
  <2>3. CASE q = p
    <3>1. /\ At(t, q) = new /\ At(s, q) = old /\ q[1] = m
          /\ Fits(s, X, early, m, old) /\ Adds(L, s, old)
      BY <1>1, <1>7, <1>8, <2>1, <2>3 DEF old
    <3>2. Fetches(t, X, new) /\ Searches(t, new)
      BY <1>4, <1>7, <1>11, <3>1 DEF Fits, Fetches, Searches, Same
    <3>3. (t.source[m].running \/ Rests(new, early)) /\ Wakes(t, m, new)
      BY <1>1, <1>4, <1>7, <3>1 DEF Fits, Rests, Wakes, HasStarted, Same
    <3>4. Exact => Waits(new) BY <1>1, <1>4 DEF Waits
    <3>5. Adds(L, t, new) BY <1>4, <1>11, <3>1, <3>4 DEF Adds, Behind, Same
    <3> QED BY <3>1, <3>2, <3>3, <3>5 DEF Fits
  <2> QED BY <2>2, <2>3
<1>13. \A q \in Places(s) : /\ Held(At(t, q)) = Held(At(s, q))
                            /\ At(t, q).finding = At(s, q).finding
  BY <1>4, <1>7 DEF Same, old
<1>14. Fitting(L, t, X, Nowhere, early) BY <1>7, <1>12 DEF Fitting
<1>15. Apart(t) BY <1>2, <1>7, <1>13 DEF Apart
<1>16. Covered(t, X) BY <1>2, <1>7, <1>11, <1>13 DEF Covered
<1>17. t \in Good(L, X, Nowhere, early, D) BY <1>7, <1>9, <1>10, <1>14, <1>15, <1>16 DEF Good
<1>18. Swapped(t, s, p, new) BY <1>7 DEF Swapped
<1>19. t \in Orderly(L, D) BY <1>1, <1>17 DEF Orderly
<1> QED BY <1>1, <1>18, <1>19 DEF t, new, p

-----------------------------------------------------------------------------
(* The file *)

(* When all chunks are finished, nobody fetches any more. *)
LEMMA NobodyIsLeft ==
  ASSUME NEW L, NEW X, NEW e, NEW early, NEW D, NEW s \in Good(L, X, e, early, D),
         s.factory.finished = Chunks
  PROVE  Places(s) = {} /\ s.factory.started = Chunks /\ s.factory.known
<1>1. s \in State /\ Recorded(L, s, X) /\ Fitting(L, s, X, e, early) BY DEF Good
<1>2. s.factory.started = Chunks
  <2>1. s.factory.started \subseteq Chunks BY <1>1 DEF State, AnyFactory
  <2> QED BY <1>1, <2>1 DEF Recorded
<1>3. s.factory.known
  <2>1. 0 \in Chunks BY NumberOfChunks DEF Chunks
  <2> QED BY <1>1, <1>2, <2>1 DEF Recorded
<1>4. ASSUME NEW p \in Places(s) PROVE FALSE
  <2>1. ~At(s, p).finding BY <1>3, NobodySearches
  <2>2. /\ At(s, p).cur \in Chunks /\ At(s, p).cur <= At(s, p).end
        /\ Held(At(s, p)) = At(s, p).cur .. At(s, p).end /\ Held(At(s, p)) \subseteq Taken(s, X)
    BY <2>1, ChunkFacts
  <2>3. At(s, p).cur \in Held(At(s, p)) BY <2>2 DEF Chunks
  <2> QED BY <2>2, <2>3 DEF Taken
<1> QED BY <1>2, <1>3, <1>4

LEMMA DoneHasNoPlaces ==
  ASSUME NEW L, NEW X, NEW e, NEW early, NEW D, NEW s \in Good(L, X, e, early, D), s.factory.done
  PROVE  Places(s) = {} /\ s.factory.finished = Chunks /\ Mirrors # {}
<1>1. s.factory.finished = Chunks /\ Mirrors # {} BY DEF Good, Recorded
<1> QED BY <1>1, NobodyIsLeft

(* What was written is right, when nothing was written behind a stop. *)
LEMMA WriteIsRight ==
  ASSUME NEW L, NEW s \in State, NEW X, Recorded(L, s, X)
  PROVE  LET w == s.factory.write
         IN  /\ AfterWrite(s.disk, w) \in SUBSET Int
             /\ Exact => /\ AfterWrite(s.disk, w) = s.disk \cup RightUnits(w)
                         /\ AfterWrite(s.disk, w) \subseteq Units
<1> DEFINE w == s.factory.write
           d == s.disk
<1>1. d \in SUBSET Int /\ w.offset \in Int /\ w.data \in Seq(Int) BY Parts DEF AnyFactory
<1>2. Exact => /\ d \subseteq Units /\ w.offset \in Units /\ w.offset + Len(w.data) <= FileSize
               /\ \A k \in 1 .. Len(w.data) : w.data[k] = w.offset + k - 1
  BY DEF Recorded
<1> HIDE DEF w, d
<1>4. WrittenUnits(w) \subseteq Int BY <1>1 DEF WrittenUnits
<1>5. RightUnits(w) \subseteq WrittenUnits(w) BY DEF RightUnits
<1>6. ASSUME Exact PROVE WrittenUnits(w) \subseteq Units /\ RightUnits(w) = WrittenUnits(w)
  <2>1. ASSUME NEW u \in WrittenUnits(w) PROVE u \in Units /\ w.data[u - w.offset + 1] = u
    <3>1. u \in Int /\ w.offset <= u /\ u <= w.offset + Len(w.data) - 1
      BY <1>1 DEF WrittenUnits
    <3>2. Len(w.data) \in Nat BY <1>1
    <3>3. u \in Units BY <1>2, <1>6, <3>1, <3>2, SizesAssumption DEF Units
    <3>4. u - w.offset + 1 \in 1 .. Len(w.data) BY <1>1, <3>1, <3>2
    <3>5. w.data[u - w.offset + 1] = w.offset + (u - w.offset + 1) - 1 BY <1>2, <1>6, <3>4
    <3> QED BY <1>1, <3>1, <3>3, <3>5
  <2> QED BY <2>1 DEF RightUnits
<1>7. AfterWrite(d, w) = (d \ WrittenUnits(w)) \cup RightUnits(w) BY DEF AfterWrite
<1> QED BY <1>1, <1>2, <1>4, <1>5, <1>6, <1>7 DEF w, d

(* The end of a write, whatever it does to the status and the file *)
Alone(f, g) ==
    /\ f.started = g.started /\ f.finished = g.finished /\ f.unused = g.unused
    /\ f.known = g.known /\ f.sized = g.sized /\ f.done = g.done
    /\ f.startTried = g.startTried /\ f.findTried = g.findTried
LEMMA WriteEnded ==
  ASSUME NEW L, NEW D, NEW s \in Orderly(L, D), NEW t \in State, t.source = s.source,
         t.disk = AfterWrite(s.disk, s.factory.write), t.factory.write = NoWrite,
         Alone(t.factory, s.factory),
         \/ t.factory.status = s.factory.status /\ t.factory.file = s.factory.file
         \/ s.factory.done /\ t.factory.status = "Finished"
  PROVE  /\ t \in Orderly(L, D) /\ (s.factory.done /\ Exact => Units \subseteq t.disk \cup L)
         /\ Grows(t, s)
<1> DEFINE early == FALSE
<1>1. s \in Good(L, {}, Nowhere, early, D) /\ early = FALSE BY DEF Orderly
<1> HIDE DEF early
<1>2. s \in State /\ Recorded(L, s, {}) /\ Mirrored(s, D) /\ Fitting(L, s, {}, Nowhere, early)
  BY <1>1 DEF Good
<1>3. /\ Exact => t.disk = s.disk \cup RightUnits(s.factory.write) /\ t.disk \subseteq Units
      /\ RightUnits(t.factory.write) = {} /\ Kept(L, t) = t.disk \cup L
      /\ Exact => Kept(L, t) = Kept(L, s)
  <2>1. RightUnits(t.factory.write) = {} BY NothingToWrite
  <2>2. Kept(L, t) = t.disk \cup L BY <2>1 DEF Kept
  <2>3. Exact => t.disk = s.disk \cup RightUnits(s.factory.write) /\ t.disk \subseteq Units
    BY <1>2, WriteIsRight
  <2>4. Exact => Kept(L, t) = Kept(L, s) BY <2>2, <2>3 DEF Kept
  <2> QED BY <2>1, <2>2, <2>3, <2>4
<1>4. /\ t.factory.started = s.factory.started /\ t.factory.finished = s.factory.finished
      /\ t.factory.known = s.factory.known /\ t.factory.sized = s.factory.sized
      /\ t.factory.unused = s.factory.unused /\ t.factory.done = s.factory.done
      /\ t.factory.startTried = s.factory.startTried
      /\ t.factory.findTried = s.factory.findTried
  BY DEF Alone
<1>5. Recorded(L, t, {})
  <2>1. 0 \in Units /\ 0 + 0 <= FileSize BY SizesAssumption DEF Units
  <2>2. Exact => /\ t.disk \subseteq Units
                 /\ t.factory.write.offset \in Units
                 /\ t.factory.write.offset + Len(t.factory.write.data) <= FileSize
                 /\ \A k \in 1 .. Len(t.factory.write.data) :
                        t.factory.write.data[k] = t.factory.write.offset + k - 1
    BY <1>3, <2>1, NothingToWrite
  <2>3. Exact => \A c \in t.factory.finished : ChunkUnits(c) \subseteq Kept(L, t)
    BY <1>2, <1>3, <1>4 DEF Recorded
  <2> QED BY <1>2, <1>4, <2>2, <2>3 DEF Recorded
<1>6. Mirrored(t, D) BY <1>2, <1>4 DEF Mirrored
<1>7. \A p \in Places(s) : Searches(t, At(s, p))
  <2>1. CASE s.factory.done BY <1>1, <2>1, DoneHasNoPlaces
  <2>2. CASE ~s.factory.done
    <3>1. \A p \in Places(s) : Searches(s, At(s, p)) BY <1>2 DEF Fitting, Fits
    <3> QED BY <1>4, <2>2, <3>1 DEF Searches
  <2> QED BY <2>1, <2>2
<1>8. Exact => Kept(L, s) \subseteq Kept(L, t) BY <1>3
<1>9. t \in Good(L, {}, Nowhere, early, D) BY <1>1, <1>4, <1>5, <1>6, <1>7, <1>8, OtherModes
<1>11. Grows(t, s) BY <1>3 DEF Grows
<1>10. ASSUME s.factory.done, Exact PROVE Units \subseteq t.disk \cup L
  <2>1. t.factory.finished = Chunks BY <1>1, <1>4, <1>10, DoneHasNoPlaces
  <2>2. \A c \in Chunks : ChunkUnits(c) \subseteq t.disk \cup L
    BY <1>3, <1>5, <1>10, <2>1 DEF Recorded
  <2>3. \A u \in Units : \E c \in Chunks : u \in ChunkUnits(c) BY UnitsOfChunks
  <2> QED BY <2>2, <2>3
<1> QED BY <1>1, <1>9, <1>10, <1>11 DEF Orderly

(* Data come to the disk, and the file is complete if they were the last. *)
Landed(t, s) ==
    /\ t.factory.finished = s.factory.finished
    /\ Exact => s.disk \subseteq t.disk
    /\ Grows(t, s)
    /\ \/ t.factory.status = s.factory.status
       \/ s.factory.done /\ t.factory.status = "Finished"

LEMMA DataWritten ==
  ASSUME NEW L, NEW D, NEW s \in Orderly(L, D), Complete(L, s)
  PROVE  LET t == slotDataWritten(s)
         IN  /\ t \in Orderly(L, D) /\ Complete(L, t) /\ Landed(t, s)
             /\ Lively(s) => Lively(t)
<1> DEFINE d == AfterWrite(s.disk, s.factory.write)
           g(o, x) == [s.factory EXCEPT !.write = NoWrite, !.file = o, !.status = x]
           u(o, x) == [factory |-> g(o, x), source |-> s.source, disk |-> d]
           none == "none"
           finished == "Finished"
           file == s.factory.file
           status == s.factory.status
           t == slotDataWritten(s)
<1>1. s \in State /\ Recorded(L, s, {}) BY DEF Orderly, Good
<1>2. s.factory \in AnyFactory /\ d \in SUBSET Int /\ (Exact => s.disk \subseteq d)
  <2>1. /\ d \in SUBSET Int
        /\ Exact => d = s.disk \cup RightUnits(s.factory.write)
    BY <1>1, WriteIsRight
  <2> HIDE DEF d
  <2>2. s.factory \in AnyFactory BY <1>1, Parts
  <2> QED BY <2>1, <2>2
<1>3. /\ none = "none" /\ finished = "Finished"
      /\ {none, file} \subseteq {"none", "opening", "open"}
      /\ {finished, status} \subseteq {"Stopped", "Running", "Finished"}
  BY <1>2 DEF AnyFactory
<1> HIDE DEF none, finished
<1>4. IF s.factory.done THEN t = u(none, finished) ELSE t = u(file, status)
  <2> DEFINE free == [s EXCEPT !.disk = d, !.factory.write = NoWrite]
             f == [s.factory EXCEPT !.write = NoWrite]
  <2>1. s = [factory |-> s.factory, source |-> s.source, disk |-> s.disk] BY <1>1 DEF State
  <2>2. t = IF s.factory.done
            THEN [free EXCEPT !.factory.file = none, !.factory.status = finished] ELSE free
    BY <1>3 DEF slotDataWritten
  <2> HIDE DEF d, t
  <2>3. free = [factory |-> f, source |-> s.source, disk |-> d]
    <3>1. [s EXCEPT !.disk = d] = [factory |-> s.factory, source |-> s.source, disk |-> d]
      BY <2>1
    <3>2. [[factory |-> s.factory, source |-> s.source, disk |-> d]
               EXCEPT !.factory.write = NoWrite]
              = [factory |-> f, source |-> s.source, disk |-> d]
      OBVIOUS
    <3> QED BY <3>1, <3>2
  <2> HIDE DEF free
  <2>4. [free EXCEPT !.factory.file = none, !.factory.status = finished]
            = [factory |-> [f EXCEPT !.file = none, !.status = finished],
               source |-> s.source, disk |-> d]
    <3> DEFINE h == [f EXCEPT !.file = none]
    <3> HIDE DEF f
    <3>1. [free EXCEPT !.factory.file = none] = [factory |-> h, source |-> s.source, disk |-> d]
      BY <2>3
    <3> HIDE DEF h
    <3>2. [[factory |-> h, source |-> s.source, disk |-> d] EXCEPT !.factory.status = finished]
              = [factory |-> [h EXCEPT !.status = finished], source |-> s.source, disk |-> d]
      OBVIOUS
    <3> QED BY <3>1, <3>2 DEF h
  <2>5. /\ f = g(file, status)
        /\ [f EXCEPT !.file = none, !.status = finished] = g(none, finished)
    BY <1>2 DEF AnyFactory
  <2> HIDE DEF f, g
  <2> QED BY <2>2, <2>3, <2>4, <2>5
<1> HIDE DEF t
<1>5. ASSUME NEW o \in {none, file}, NEW x \in {finished, status},
             \/ o = file /\ x = status
             \/ s.factory.done /\ x = finished
      PROVE  /\ u(o, x) \in Orderly(L, D) /\ u(o, x).factory.status = x
             /\ u(o, x).factory.done = s.factory.done
             /\ s.factory.done /\ Exact => Units \subseteq u(o, x).disk \cup L
             /\ u(o, x).factory.finished = s.factory.finished
             /\ Landed(u(o, x), s) /\ (Lively(s) => Lively(u(o, x)))
  <2>1. /\ o \in {"none", "opening", "open"} /\ x \in {"Stopped", "Running", "Finished"}
    BY <1>3
  <2>2. /\ g(o, x) \in AnyFactory /\ Alone(g(o, x), s.factory) /\ g(o, x).write = NoWrite
        /\ g(o, x).file = o /\ g(o, x).status = x /\ g(o, x).done = s.factory.done
        /\ g(o, x).finished = s.factory.finished
        /\ g(o, x).assignTried = s.factory.assignTried
    <3>1. NoWrite \in [offset : Int, data : Seq(Int)] BY NothingToWrite
    <3> QED BY <1>2, <2>1, <3>1 DEF AnyFactory, Alone
  <2> HIDE DEF g
  <2>3. /\ u(o, x) \in State /\ u(o, x).factory = g(o, x) /\ u(o, x).source = s.source
        /\ u(o, x).disk = AfterWrite(s.disk, s.factory.write)
    BY <1>1, <1>2, <2>2 DEF State
  <2> HIDE DEF u
  <2>6. ASSUME Lively(s) PROVE Lively(u(o, x))
    <3>1. CASE x = finished BY <1>3, <2>2, <2>3, <3>1 DEF Lively, Going
    <3>2. CASE o = file /\ x = status
      <4>1. Modes(u(o, x), s) BY <2>2, <2>3, <3>2 DEF Modes, Alone, Postponed
      <4>2. Attended(u(o, x)) = Attended(s) BY <2>2, <2>3 DEF Attended, Places
      <4> QED BY <2>6, <4>1, <4>2, ModesLively
    <3> QED BY <1>5, <3>1, <3>2
  <2>7. /\ u(o, x).disk = AfterWrite(s.disk, s.factory.write)
        /\ u(o, x).factory.write = NoWrite /\ Alone(u(o, x).factory, s.factory)
        /\ \/ u(o, x).factory.status = s.factory.status /\ u(o, x).factory.file = s.factory.file
           \/ s.factory.done /\ u(o, x).factory.status = "Finished"
    BY <1>3, <1>5, <2>2, <2>3
  <2>4. /\ u(o, x) \in Orderly(L, D) /\ Grows(u(o, x), s)
        /\ s.factory.done /\ Exact => Units \subseteq u(o, x).disk \cup L
    BY <2>3, <2>7, WriteEnded
  <2>5. Landed(u(o, x), s)
    <3>1. Exact => s.disk \subseteq u(o, x).disk BY <1>2, <2>3
    <3>2. u(o, x).factory.finished = s.factory.finished BY <2>2, <2>3
    <3> QED BY <2>4, <2>7, <3>1, <3>2 DEF Landed
  <2> QED BY <2>2, <2>3, <2>4, <2>5, <2>6
<1> HIDE DEF u
<1>6. CASE s.factory.done
  <2>1. /\ t \in Orderly(L, D) /\ t.factory.done = s.factory.done
        /\ s.factory.done /\ Exact => Units \subseteq t.disk \cup L
        /\ t.factory.finished = s.factory.finished
        /\ Landed(t, s) /\ (Lively(s) => Lively(t))
    BY <1>4, <1>5, <1>6
  <2>2. s.factory.finished = Chunks /\ Mirrors # {}
    <3>1. s \in Good(L, {}, Nowhere, FALSE, D) BY DEF Orderly
    <3> QED BY <1>6, <3>1, DoneHasNoPlaces
  <2> QED BY <1>6, <2>1, <2>2 DEF Complete, t
<1>7. CASE ~s.factory.done
  <2>1. /\ t \in Orderly(L, D) /\ t.factory.status = status /\ Landed(t, s)
        /\ Lively(s) => Lively(t)
    BY <1>4, <1>5, <1>7
  <2>2. Complete(L, t) BY <2>1 DEF Complete, Landed
  <2> QED BY <2>1, <2>2 DEF t
<1> QED BY <1>6, <1>7

(* The segment that asked for the size becomes one of all chunks, with the job it
   has. *)
EntireFile == NewSegment(LastSegSize(NumBits - 1), 0, NumBits - 1)
LEMMA WholeFile ==
  ASSUME NEW x \in {"Stopped", "Running"}, NEW j \in {"none", "suspended", "active"}
  PROVE  LET new == [EntireFile EXCEPT !.status = x, !.job = j]
         IN  /\ new \in AnySegment /\ ~new.finding /\ new.cur = 0 /\ new.end = NumBits - 1
             /\ new.cur <= new.end /\ new.timers = 0 /\ new.offset = 0 /\ new.job = j
             /\ Held(new) = Chunks /\ Exactly(new) /\ Waits(new)
<1> DEFINE first == 0
           last == NumBits - 1
           seg == EntireFile
           new == [seg EXCEPT !.status = x, !.job = j]
<1>1. /\ first \in Chunks /\ last \in Chunks /\ first <= last /\ Chunks = first .. last
      /\ first = 0 /\ last = NumBits - 1
  BY NumberOfChunks DEF Chunks
<1>2. seg = NewSegment(LastSegSize(last), first, last) BY DEF EntireFile
<1> HIDE DEF first, last, seg
<1>3. /\ seg \in AnySegment /\ ~seg.finding /\ seg.cur = first /\ seg.end = last
      /\ seg.job = "none" /\ seg.buffer = <<>> /\ seg.timers = 0
      /\ seg.offset = ChunkSize * first /\ Exactly(seg)
  BY <1>1, <1>2, NewSegments
<1>4. /\ new \in AnySegment /\ new.finding = seg.finding /\ new.cur = seg.cur
      /\ new.end = seg.end /\ new.buffer = seg.buffer /\ new.timers = seg.timers
      /\ new.offset = seg.offset /\ new.lastSize = seg.lastSize
      /\ new.curSize = seg.curSize /\ new.left = seg.left /\ new.pos = seg.pos
      /\ new.job = j
  BY <1>3 DEF AnySegment
<1> HIDE DEF new
<1>5. ChunkSize * first = 0 BY <1>1, SizesAssumption
<1>6. new.offset = 0 /\ Len(new.buffer) = 0 /\ new.pos = 0 BY <1>3, <1>4, <1>5 DEF Exactly
<1>7. Exactly(new) BY <1>3, <1>4, <1>6 DEF Exactly
<1>8. Held(new) = Chunks BY <1>1, <1>3, <1>4 DEF Held, Owned
<1>9. Waits(new) BY <1>3, <1>4 DEF Waits
<1> QED BY <1>1, <1>3, <1>4, <1>6, <1>7, <1>8, <1>9 DEF new, seg

LEMMA SizeWasFound ==
  ASSUME NEW L, NEW D, NEW m \in Mirrors, NEW i \in Nat \ {0}, NEW s \in Orderly(L, D), <<m, i>> \in Places(s),
         At(s, <<m, i>>).finding, At(s, <<m, i>>).job = "active"
  PROVE  LET t == slotFoundFileSize(s, m, i)
         IN  /\ t \in Orderly(L, D) /\ t.factory.status = "Running" /\ Untouched(t, s)
             /\ Lively(t)
<1> DEFINE p == <<m, i>>
           seg == At(s, p)
           b == TRUE
           early == TRUE
           all == Chunks
           f == [s.factory EXCEPT !.sized = b, !.known = b, !.started = all]
           v == [factory |-> f, source |-> s.source, disk |-> s.disk]
           new == [EntireFile EXCEPT !.status = seg.status, !.job = seg.job]
           found == WithSegment(v, m, i, new)
<1>1. /\ s \in State /\ Recorded(L, s, {}) /\ Mirrored(s, D) /\ Fitting(L, s, {}, Nowhere, FALSE)
      /\ Apart(s) /\ p \in Places(s) /\ seg.finding
  BY DEF Orderly, Good
<1>2. /\ s.factory \in AnyFactory /\ seg \in AnySegment /\ Seg(s, m, i) = seg
      /\ i \in 1 .. Len(s.source[m].segments)
  <2>1. s.factory \in AnyFactory /\ At(s, p) \in AnySegment /\ p[2] \in 1 .. Len(s.source[p[1]].segments)
    BY <1>1, Parts
  <2> QED BY <2>1 DEF Seg, At
<1>3. /\ ~s.factory.sized /\ s.factory.startTried
      /\ s.factory.status = "Running" /\ s.factory.file = "open"
  <2>1. Searches(s, seg) BY <1>1 DEF Fitting, Fits
  <2> QED BY <1>1, <2>1 DEF Searches
<1>4. ~s.factory.known /\ s.factory.started = {} /\ s.factory.finished = {}
  BY <1>1, <1>3 DEF Recorded
<1>5. b = TRUE /\ early = TRUE OBVIOUS
<1>6. seg.status \in {"Stopped", "Running"} /\ seg.job \in {"none", "suspended", "active"}
      /\ seg.job = "active"
  BY <1>2 DEF AnySegment
<1> HIDE DEF b, early, seg
<1>7. /\ new \in AnySegment /\ ~new.finding /\ new.cur = 0 /\ new.end = NumBits - 1
      /\ new.cur <= new.end /\ new.timers = 0 /\ new.offset = 0 /\ new.job = "active"
      /\ Held(new) = Chunks /\ Exactly(new) /\ Waits(new)
  BY <1>6, WholeFile
<1>8. /\ f \in AnyFactory /\ f.status = s.factory.status /\ f.file = s.factory.file
      /\ f.known /\ f.sized /\ f.startTried = s.factory.startTried
      /\ f.done = s.factory.done /\ f.started = all /\ f.finished = s.factory.finished
      /\ f.unused = s.factory.unused /\ f.write = s.factory.write
  BY <1>2, <1>5 DEF AnyFactory
<1>9. slotFoundFileSize(s, m, i) = start(found)
  <2> DEFINE r == [s EXCEPT !.factory.sized = b, !.factory.known = b, !.factory.started = all]
             f1 == [s.factory EXCEPT !.sized = b]
             f2 == [f1 EXCEPT !.known = b]
  <2>1. s = [factory |-> s.factory, source |-> s.source, disk |-> s.disk] BY <1>1 DEF State
  <2> HIDE DEF all
  <2>2. [s EXCEPT !.factory.sized = b] = [factory |-> f1, source |-> s.source, disk |-> s.disk]
    BY <2>1
  <2> HIDE DEF f1
  <2>3. [[factory |-> f1, source |-> s.source, disk |-> s.disk] EXCEPT !.factory.known = b]
            = [factory |-> f2, source |-> s.source, disk |-> s.disk]
    OBVIOUS
  <2> HIDE DEF f2
  <2>4. [[factory |-> f2, source |-> s.source, disk |-> s.disk] EXCEPT !.factory.started = all]
            = [factory |-> [f2 EXCEPT !.started = all], source |-> s.source, disk |-> s.disk]
    OBVIOUS
  <2>5. f = [f2 EXCEPT !.started = all] BY DEF f1, f2
  <2>6. r = v BY <2>2, <2>3, <2>4, <2>5
  <2>7. slotFoundFileSize(s, m, i) = start(WithSegment(r, m, i, new))
    BY <1>2, <1>3, <1>5 DEF slotFoundFileSize, EntireFile, all
  <2> HIDE DEF r, v
  <2> QED BY <2>6, <2>7
<1> HIDE DEF f, new, all
<1>10. v \in State /\ v.factory = f /\ v.source = s.source /\ v.disk = s.disk
  BY <1>1, <1>8, OtherFactory
<1> HIDE DEF v
<1>11. /\ found \in State /\ found.factory = f /\ found.disk = s.disk
       /\ \A x \in Mirrors : /\ found.source[x].used = s.source[x].used
                             /\ found.source[x].running = s.source[x].running
                             /\ (found.source[x].segments = <<>>) = (s.source[x].segments = <<>>)
       /\ Places(found) = Places(v) /\ At(found, <<m, i>>) = new
  BY <1>2, <1>7, <1>10, OneReplaced
<1> HIDE DEF found
<1>12. Places(found) = {p} /\ At(found, p) = new
  <2>1. Places(v) = Places(s) BY <1>10 DEF Places
  <2>2. \A q \in Places(s) : q = p
    <3>1. \A q \in Places(s) : q # p => ~At(s, p).finding BY <1>1 DEF Apart
    <3> QED BY <3>1
  <2> QED BY <1>1, <1>11, <2>1, <2>2
<1>13. Recorded(L, found, {})
  <2>1. /\ found.factory.finished = {} /\ found.factory.started = Chunks
        /\ found.factory.known /\ found.factory.sized
    BY <1>4, <1>8, <1>11 DEF all
  <2>2. found.factory.done => found.factory.finished = Chunks /\ Mirrors # {}
    BY <1>1, <1>8, <1>11 DEF Recorded
  <2>3. Exact => /\ found.disk \subseteq Units
                 /\ found.factory.write.offset \in Units
                 /\ found.factory.write.offset + Len(found.factory.write.data) <= FileSize
                 /\ \A k \in 1 .. Len(found.factory.write.data) :
                        found.factory.write.data[k] = found.factory.write.offset + k - 1
    BY <1>1, <1>8, <1>11 DEF Recorded
  <2> QED BY <2>1, <2>2, <2>3 DEF Recorded
<1>14. Mirrored(found, D) BY <1>1, <1>8, <1>11 DEF Mirrored
<1>15. Fitting(L, found, {}, Nowhere, early)
  <2>1. Taken(found, {}) = Chunks BY <1>4, <1>8, <1>11 DEF Taken, all
  <2>2. Fetches(found, {}, new) BY <1>7, <2>1 DEF Fetches
  <2>3. Searches(found, new) BY <1>7 DEF Searches
  <2>4. Rests(new, early) BY <1>5, <1>7 DEF Rests
  <2>5. Behind(L, found, new)
    <3>1. ChunkSize * new.cur = 0
      <4>1. ChunkSize * 0 = 0 BY SizesAssumption
      <4> QED BY <1>7, <4>1
    <3> QED BY <1>7, <3>1 DEF Behind
  <2>6. Adds(L, found, new) BY <1>7, <2>5 DEF Adds
  <2>7. \A q \in Places(found) : At(found, q) = new BY <1>12
  <2>8. Wakes(found, m, new) BY <1>1, <1>3, <1>11 DEF Mirrored, Wakes
  <2>9. \A q \in Places(found) : q[1] = m BY <1>12
  <2> QED BY <2>2, <2>3, <2>4, <2>6, <2>7, <2>8, <2>9 DEF Fitting, Fits
<1>16. Apart(found) BY <1>12 DEF Apart
<1>17. Covered(found, {})
  <2>1. found.factory.started = Chunks BY <1>8, <1>11 DEF all
  <2> QED BY <1>7, <1>12, <2>1 DEF Covered, Taken
<1>18. found \in Good(L, {}, Nowhere, early, D)
  BY <1>11, <1>13, <1>14, <1>15, <1>16, <1>17 DEF Good
<1>19. /\ Idle(found) /\ Quiet(found) /\ found.factory.status # "Finished" /\ early \in BOOLEAN
       /\ early => found.factory.file = "open" /\ found.factory.sized
  BY <1>1, <1>3, <1>5, <1>8, <1>11 DEF Idle, Quiet, Mirrored
<1>20. /\ start(found) \in Orderly(L, D) /\ start(found).factory.status \in {found.factory.status, "Running"}
       /\ Untouched(start(found), found) /\ Lively(start(found))
  BY <1>18, <1>19, StartedDownload
<1>21. Untouched(found, s) BY <1>8, <1>11 DEF Untouched
<1>22. Untouched(start(found), s) BY <1>20, <1>21 DEF Untouched
<1>23. start(found).factory.status = "Running" BY <1>3, <1>8, <1>11, <1>20
<1> QED BY <1>9, <1>20, <1>22, <1>23

(* The chunks, the disk and a complete file stay as they are. *)
Still(t, s) ==
    Untouched(t, s) /\ (t.factory.status = "Finished" <=> s.factory.status = "Finished")

(* The file is open. *)
LEMMA FileOpened ==
  ASSUME NEW L, NEW D, NEW s \in Orderly(L, D), Complete(L, s), s.factory.file = "opening"
  PROVE  /\ open(s) \in Orderly(L, D) /\ Complete(L, open(s)) /\ Still(open(s), s)
         /\ Lively(s) => Lively(open(s))
         /\ open(s).factory.status \in {s.factory.status, "Running"}
<1> DEFINE early == FALSE
           o == "open"
           u == init(s)
           t == [u EXCEPT !.factory.file = o]
<1>1. s \in Good(L, {}, Nowhere, early, D) /\ early = FALSE BY DEF Orderly
<1>2. o = "open" /\ o \in {"none", "opening", "open"} OBVIOUS
<1> HIDE DEF early, o
<1>3. /\ u \in Good(L, {}, Nowhere, early, D) /\ u.source = s.source /\ u.disk = s.disk
      /\ Beside(u.factory, s.factory)
      /\ u.factory.status = s.factory.status /\ u.factory.file = s.factory.file
      /\ u.factory.startTried = s.factory.startTried
      /\ u.factory.findTried = s.factory.findTried
  BY <1>1, Initialized
<1> HIDE DEF u
<1>4. u \in State /\ Recorded(L, u, {}) /\ Mirrored(u, D) BY <1>3 DEF Good
<1>5. /\ t \in State /\ t.source = u.source /\ t.disk = u.disk
      /\ Beside(t.factory, u.factory) /\ t.factory.file = o
      /\ t.factory.known = u.factory.known /\ t.factory.findTried = u.factory.findTried
      /\ t.factory.startTried = u.factory.startTried
      /\ t.factory.status = u.factory.status
  BY <1>2, <1>4, OpenedFile
<1> HIDE DEF t
<1>6. Recorded(L, t, {}) /\ Kept(L, t) = Kept(L, u) BY <1>4, <1>5, OtherRecords
<1>7. /\ t.factory.started = u.factory.started /\ t.factory.finished = u.factory.finished
      /\ t.factory.unused = u.factory.unused
  BY <1>5 DEF Beside
<1>8. Mirrored(t, D) BY <1>4, <1>5, <1>7 DEF Mirrored
<1>9. \A p \in Places(u) : Searches(t, At(u, p))
  <2>1. \A p \in Places(u) : ~At(u, p).finding BY <1>3, NoSearch
  <2> QED BY <2>1 DEF Searches
<1>10. t \in Good(L, {}, Nowhere, early, D) BY <1>3, <1>5, <1>6, <1>7, <1>8, <1>9, OtherModes
<1>11. /\ t.factory.status = s.factory.status /\ t.factory.done = s.factory.done
       /\ t.disk = s.disk /\ t.factory.startTried = s.factory.startTried
       /\ Still(t, s)
  BY <1>3, <1>5 DEF Beside, Still, Untouched
<1>12. Complete(L, t) BY <1>11 DEF Complete, Still, Untouched
<1>13. open(s) = IF s.factory.startTried THEN start(t) ELSE t BY <1>2 DEF open, t, u
<1>14. t \in Orderly(L, D) BY <1>1, <1>10 DEF Orderly
<1>18. Lively(s) => Lively(t) BY <1>11 DEF Lively, Going
<1>15. CASE ~s.factory.startTried BY <1>11, <1>12, <1>13, <1>14, <1>15, <1>18
<1>16. CASE s.factory.startTried /\ t.factory.status = "Finished"
  <2>1. start(t) = t BY <1>16 DEF start
  <2> QED BY <1>11, <1>12, <1>13, <1>14, <1>16, <1>18, <2>1
<1>17. CASE s.factory.startTried /\ t.factory.status # "Finished"
  <2>1. Idle(t) /\ Quiet(t) BY <1>8, <1>11, <1>17 DEF Idle, Quiet, Mirrored
  <2>2. t \in Good(L, {}, Nowhere, early, D) /\ early \in BOOLEAN /\ ~early BY <1>1, <1>10
  <2>3. /\ start(t) \in Orderly(L, D) /\ start(t).factory.status \in {t.factory.status, "Running"}
        /\ Untouched(start(t), t) /\ Lively(start(t))
    BY <1>17, <2>1, <2>2, StartedDownload
  <2> QED BY <1>11, <1>13, <1>17, <2>3 DEF Complete, Still, Untouched
<1> QED BY <1>15, <1>16, <1>17

(* A status in which nothing searches and nobody runs *)
WithStatus(s, x) == [s EXCEPT !.factory.status = x]
LEMMA StatusSet ==
  ASSUME NEW L, NEW D, NEW s \in Orderly(L, D), s.factory.status # "Running", 
         NEW x \in {"Stopped", "Running", "Finished"}, x = "Finished" \/ Idle(s)
  PROVE  LET t == WithStatus(s, x)
         IN  /\ t \in Orderly(L, D) /\ t.factory.status = x /\ t.source = s.source
             /\ t.factory.done = s.factory.done /\ Untouched(t, s)
<1> DEFINE early == FALSE
           f == [s.factory EXCEPT !.status = x]
           t == [factory |-> f, source |-> s.source, disk |-> s.disk]
<1>1. s \in Good(L, {}, Nowhere, early, D) /\ early = FALSE BY DEF Orderly
<1> HIDE DEF early
<1>2. s \in State /\ Recorded(L, s, {}) /\ Mirrored(s, D) BY <1>1 DEF Good
<1>3. t = WithStatus(s, x) BY <1>2 DEF State, WithStatus
<1>4. s.factory \in AnyFactory BY <1>2, Parts
<1>5. /\ f \in AnyFactory /\ Beside(f, s.factory) /\ f.status = x /\ f.known = s.factory.known
      /\ f.startTried = s.factory.startTried /\ f.write = s.factory.write
  BY <1>4 DEF AnyFactory, Beside
<1> HIDE DEF f
<1>6. t \in State /\ t.factory = f /\ t.source = s.source /\ t.disk = s.disk
  BY <1>2, <1>5, OtherFactory
<1> HIDE DEF t
<1>7. Recorded(L, t, {}) /\ Kept(L, t) = Kept(L, s) BY <1>2, <1>5, <1>6, OtherRecords
<1>8. /\ t.factory.started = s.factory.started /\ t.factory.finished = s.factory.finished
      /\ t.factory.unused = s.factory.unused /\ t.factory.done = s.factory.done
  BY <1>5, <1>6 DEF Beside
<1>9. Mirrored(t, D) BY <1>2, <1>5, <1>6, <1>8 DEF Mirrored, Idle
<1>10. \A p \in Places(s) : Searches(t, At(s, p))
  <2>1. \A p \in Places(s) : ~At(s, p).finding BY <1>1, NoSearch
  <2> QED BY <2>1 DEF Searches
<1>11. t \in Good(L, {}, Nowhere, early, D) BY <1>1, <1>6, <1>7, <1>8, <1>9, <1>10, OtherModes
<1> QED BY <1>1, <1>3, <1>5, <1>6, <1>8, <1>11 DEF Orderly, Untouched

(* A damaged file loses its finished chunks, and nobody fetches them yet. *)
Damaged(s, damage) == [s EXCEPT !.disk = @ \ damage]
Unfinished(s, broken) == [Release(s, broken) EXCEPT !.factory.done = FALSE,
                                                    !.factory.finished = @ \ broken]
LEMMA Reopened ==
  ASSUME NEW L, NEW s \in Orderly(L, {}), s.factory.finished = Chunks,
         NEW damage \in SUBSET Int, NEW broken,
         Exact => \A u \in damage : u \in L \/ u \div ChunkSize \in broken
  PROVE  LET t == Unfinished(Damaged(s, damage), broken)
         IN  /\ t \in Orderly(L, {}) /\ t.source = s.source /\ ~t.factory.done
             /\ t.factory.status = s.factory.status
             /\ t.disk = s.disk \ damage /\ t.factory.finished = Chunks \ broken
<1> DEFINE early == FALSE
           D == {}
           b == FALSE
           d == s.disk \ damage
           S == s.factory.started \ broken
           F == s.factory.finished \ broken
           f == [s.factory EXCEPT !.started = S, !.done = b, !.finished = F]
           t == [factory |-> f, source |-> s.source, disk |-> d]
<1>1. /\ s \in Good(L, {}, Nowhere, early, D) /\ early = FALSE /\ D = {} /\ b = FALSE
  BY DEF Orderly
<1> HIDE DEF early, D, b
<1>2. s \in State /\ Recorded(L, s, {}) /\ Mirrored(s, D) BY <1>1 DEF Good
<1>3. s.factory \in AnyFactory /\ s.disk \in SUBSET Int BY <1>2, Parts
<1>4. /\ Places(s) = {} /\ s.factory.finished = Chunks /\ s.factory.started = Chunks
      /\ s.factory.known
  BY <1>1, NobodyIsLeft
<1>5. /\ f \in AnyFactory /\ f.started = S /\ f.finished = F /\ ~f.done
      /\ f.status = s.factory.status /\ f.known = s.factory.known
      /\ f.sized = s.factory.sized /\ f.startTried = s.factory.startTried
      /\ f.unused = s.factory.unused /\ f.write = s.factory.write
  <2>1. S \in SUBSET Chunks /\ F \in SUBSET Chunks BY <1>4
  <2> HIDE DEF S, F
  <2> QED BY <1>1, <1>3, <2>1 DEF AnyFactory
<1>6. t = Unfinished(Damaged(s, damage), broken)
  <2> DEFINE f1 == [s.factory EXCEPT !.started = S]
             f2 == [f1 EXCEPT !.done = b]
             r == [s EXCEPT !.disk = @ \ damage]
             v == Release(r, broken)
             w == [factory |-> f1, source |-> s.source, disk |-> d]
  <2>1. s = [factory |-> s.factory, source |-> s.source, disk |-> s.disk] BY <1>2 DEF State
  <2>2. r = [factory |-> s.factory, source |-> s.source, disk |-> d]
    <3>1. [s EXCEPT !.disk = d] = [factory |-> s.factory, source |-> s.source, disk |-> d]
      <4> HIDE DEF d
      <4> QED BY <2>1
    <3> QED BY <3>1
  <2> HIDE DEF d, r
  <2>3. v = [r EXCEPT !.factory.started = S] BY <2>2 DEF Release
  <2> HIDE DEF v, S
  <2>4. v = w BY <2>2, <2>3
  <2>5. f1.finished = s.factory.finished BY <1>3 DEF AnyFactory
  <2>6. v.factory.finished \ broken = F BY <2>4, <2>5
  <2> HIDE DEF F, f1
  <2>7. [w EXCEPT !.factory.done = b] = [factory |-> f2, source |-> s.source, disk |-> d]
    OBVIOUS
  <2> HIDE DEF f2
  <2>8. [[factory |-> f2, source |-> s.source, disk |-> d] EXCEPT !.factory.finished = F]
            = [factory |-> [f2 EXCEPT !.finished = F], source |-> s.source, disk |-> d]
    OBVIOUS
  <2>9. f = [f2 EXCEPT !.finished = F] BY DEF f2, f1
  <2> HIDE DEF w
  <2>10. t = [v EXCEPT !.factory.done = b, !.factory.finished = F] BY <2>4, <2>7, <2>8, <2>9
  <2> HIDE DEF t
  <2>11. t = [v EXCEPT !.factory.done = b, !.factory.finished = @ \ broken] BY <2>6, <2>10
  <2> QED BY <1>1, <2>11 DEF v, r, Unfinished, Damaged
<1> HIDE DEF f
<1>7. d \in SUBSET Int BY <1>3
<1>8. t \in State /\ t.factory = f /\ t.source = s.source /\ t.disk = d
  BY <1>2, <1>5, <1>7 DEF State
<1> HIDE DEF t
<1>9. Recorded(L, t, {})
  <2>1. /\ t.factory.finished \subseteq t.factory.started /\ t.factory.known
        /\ t.factory.known => t.factory.sized
    BY <1>2, <1>4, <1>5, <1>8 DEF Recorded
  <2>2. Exact => /\ t.disk \subseteq Units
                 /\ t.factory.write.offset \in Units
                 /\ t.factory.write.offset + Len(t.factory.write.data) <= FileSize
                 /\ \A k \in 1 .. Len(t.factory.write.data) :
                        t.factory.write.data[k] = t.factory.write.offset + k - 1
    BY <1>2, <1>5, <1>8 DEF Recorded
  <2>3. ASSUME Exact, NEW c \in t.factory.finished PROVE ChunkUnits(c) \subseteq Kept(L, t)
    <3>1. c \in Chunks /\ c \notin broken BY <1>4, <1>5, <1>8
    <3>2. ChunkUnits(c) \subseteq Kept(L, s) BY <1>2, <1>4, <2>3, <3>1 DEF Recorded
    <3>3. \A u \in ChunkUnits(c) : u \in L \/ u \notin damage BY <2>3, <3>1 DEF ChunkUnits
    <3> QED BY <1>5, <1>8, <3>2, <3>3 DEF Kept
  <2> QED BY <1>5, <1>8, <2>1, <2>2, <2>3 DEF Recorded
<1>10. Mirrored(t, D) BY <1>2, <1>5, <1>8 DEF Mirrored
<1>11. Places(t) = {} BY <1>4, <1>8 DEF Places
<1>12. Taken(t, {}) = {} BY <1>4, <1>5, <1>8 DEF Taken
<1>13. Fitting(L, t, {}, Nowhere, early) /\ Apart(t) /\ Covered(t, {})
  BY <1>11, <1>12 DEF Fitting, Apart, Covered
<1>14. t \in Good(L, {}, Nowhere, early, D) BY <1>8, <1>9, <1>10, <1>13 DEF Good
<1> QED BY <1>1, <1>4, <1>5, <1>6, <1>8, <1>14 DEF Orderly

(* A complete file is open again, without the chunks that are not right. *)
Lost(t, s) ==
    /\ s.factory.status = "Finished" /\ t.factory.status # "Finished"
    /\ t.disk \subseteq s.disk
    /\ Exact => \A c \in t.factory.finished : ChunkUnits(c) \subseteq t.disk \cup Excused

(* A finished file is repaired. *)
LEMMA Repaired ==
  ASSUME NEW s \in Orderly(Excused, {}), Complete(Excused, s), s.factory.status = "Finished",
         NEW pieces \in SUBSET Pieces
  PROVE  LET t == slotRepair([s EXCEPT !.disk = @ \ Damage(pieces)],
                             BrokenChunks(pieces, PieceSize))
         IN  t \in Orderly(Excused, {}) /\ Complete(Excused, t) /\ Lost(t, s) /\ Lively(t)
<1> DEFINE early == FALSE
           damage == Damage(pieces)
           broken == BrokenChunks(pieces, PieceSize)
           halt == "Stopped"
           r == Damaged(s, damage)
           u == Unfinished(r, broken)
           v == ForEachUsed(u, removeMirror)
           w == takeFirstUnused(v)
           x == WithStatus(w, halt)
<1>1. s.factory.finished = Chunks /\ Mirrors # {} BY DEF Complete
<1>2. damage \in SUBSET Int BY DEF Damage, Units
<1>3. \A k \in damage : k \in Excused \/ k \div ChunkSize \in broken
  BY <1>2 DEF Excused, RepairCovers
<1>4. slotRepair(r, broken) = start(x) BY DEF slotRepair, Unfinished, WithStatus
<1>5. halt = "Stopped" /\ early = FALSE /\ early \in BOOLEAN OBVIOUS
<1> HIDE DEF damage, broken, halt, early
<1>6. /\ u \in Orderly(Excused, {}) /\ u.source = s.source /\ ~u.factory.done
      /\ u.factory.status = s.factory.status
      /\ u.disk = s.disk \ damage /\ u.factory.finished = Chunks \ broken
  BY <1>1, <1>2, <1>3, Reopened
<1> HIDE DEF u
<1>7. u \in Good(Excused, {}, Nowhere, early, {}) BY <1>5, <1>6 DEF Orderly
<1>8. /\ v \in Good(Excused, {}, Nowhere, early, {}) /\ Frame(v) = Frame(u)
      /\ \A m \in Mirrors : ~v.source[m].used
  BY <1>7, RemovedMirrors
<1> HIDE DEF v
<1>9. v.factory.unused # <<>>
  <2>1. PICK m \in Mirrors : TRUE BY <1>1
  <2>2. Mirrored(v, {}) BY <1>8 DEF Good
  <2>3. m \in ToSet(v.factory.unused) BY <1>8, <2>1, <2>2 DEF Mirrored
  <2> QED BY <2>3 DEF ToSet
<1>10. v.factory.status = "Finished" BY <1>6, <1>8, FrameFields
<1>11. /\ w \in Good(Excused, {}, Nowhere, early, {}) /\ Frame(w) = Frame(v) /\ (Quiet(v) => Idle(w))
  BY <1>8, <1>9, TakenMirror
<1> HIDE DEF w
<1>12. Idle(w) /\ w.factory.status = "Finished" /\ w \in Orderly(Excused, {})
  <2>1. w.factory.status = v.factory.status BY <1>11, FrameFields
  <2> QED BY <1>5, <1>10, <1>11, <2>1 DEF Quiet, Orderly
<1>13. x \in Orderly(Excused, {}) /\ x.factory.status = halt /\ x.source = w.source /\ Untouched(x, w)
  BY <1>5, <1>12, StatusSet
<1> HIDE DEF x
<1>14. x \in Good(Excused, {}, Nowhere, early, {}) /\ Idle(x) /\ Quiet(x) /\ x.factory.status # "Finished"
  BY <1>5, <1>12, <1>13 DEF Orderly, Idle, Quiet
<1>15. /\ start(x) \in Orderly(Excused, {}) /\ start(x).factory.status \in {x.factory.status, "Running"}
       /\ Untouched(start(x), x) /\ Lively(start(x))
  BY <1>5, <1>14, StartedDownload
<1>16. Untouched(w, u) BY <1>8, <1>11, FrameFields DEF Untouched
<1>17. start(x).disk = s.disk \ damage /\ start(x).factory.finished = Chunks \ broken
  BY <1>6, <1>13, <1>15, <1>16 DEF Untouched
<1>18. ASSUME Exact, NEW c \in Chunks \ broken PROVE ChunkUnits(c) \subseteq (s.disk \ damage) \cup Excused
  <2>1. Units \subseteq s.disk \cup Excused BY <1>18 DEF Complete
  <2> QED BY <1>3, <1>18, <2>1 DEF ChunkUnits
<1>20. start(x).factory.status # "Finished" BY <1>5, <1>13, <1>15
<1>19. Lost(start(x), s) BY <1>17, <1>18, <1>20 DEF Lost
<1>21. Complete(Excused, start(x)) BY <1>20 DEF Complete
<1>22. r = [s EXCEPT !.disk = @ \ Damage(pieces)] BY DEF r, damage, Damaged
<1> HIDE DEF r
<1> QED BY <1>4, <1>15, <1>19, <1>21, <1>22 DEF broken

(* A start of a download that does not run *)
LEMMA Begun ==
  ASSUME NEW L, NEW D, NEW s \in Orderly(L, D), Complete(L, s), s.factory.status # "Running"
  PROVE  /\ start(s) \in Orderly(L, D) /\ Complete(L, start(s)) /\ Still(start(s), s)
         /\ Lively(start(s)) /\ start(s).factory.status \in {s.factory.status, "Running"}
<1>1. CASE s.factory.status = "Finished"
  BY <1>1 DEF start, Still, Untouched, Lively, Going
<1>2. CASE s.factory.status # "Finished"
  <2> DEFINE early == FALSE
  <2>1. s \in Good(L, {}, Nowhere, early, D) /\ early \in BOOLEAN /\ ~early BY DEF Orderly
  <2> HIDE DEF early
  <2>2. s \in State /\ Mirrored(s, D) BY <2>1 DEF Good
  <2>3. s.factory.status = "Stopped" BY <1>2, <2>2, Parts DEF AnyFactory
  <2>4. Idle(s) /\ Quiet(s) BY <2>2, <2>3 DEF Idle, Quiet, Mirrored
  <2>5. /\ start(s) \in Orderly(L, D) /\ start(s).factory.status \in {s.factory.status, "Running"}
        /\ Untouched(start(s), s) /\ Lively(start(s))
    BY <1>2, <2>1, <2>4, StartedDownload
  <2> QED BY <1>2, <2>5 DEF Complete, Still
<1> QED BY <1>1, <1>2

(* A stop when no timer is pending, where stops lose nothing *)
LEMMA Halted ==
  ASSUME NEW L, NEW D, NEW s \in Orderly(L, D), Complete(L, s), Exact => \A p \in Places(s) : At(s, p).timers = 0
  PROVE  /\ stop(s) \in Orderly(L, D) /\ Complete(L, stop(s)) /\ Still(stop(s), s)
         /\ Lively(stop(s))
         /\ s.factory.status # "Finished" => stop(s).factory.status = "Stopped"
<1>1. CASE s.factory.status = "Finished" BY <1>1 DEF stop, Still, Untouched, Lively, Going
<1>2. CASE s.factory.status # "Finished"
  <2>1. /\ stop(s) \in Orderly(L, D) /\ stop(s).factory.status = "Stopped" /\ Untouched(stop(s), s)
    BY <1>2, StoppedDownload
  <2> QED BY <1>2, <2>1 DEF Complete, Still, Lively, Going
<1> QED BY <1>1, <1>2

(* Calls that change mirrors and chunks leave a finished file alone. *)
LEMMA FrameComplete ==
  ASSUME NEW L, NEW s, NEW t, Frame(t) = Frame(s), Complete(L, s)
  PROVE  Complete(L, t) /\ Still(t, s)
<1>1. /\ t.disk = s.disk /\ t.factory.status = s.factory.status
      /\ t.factory.write = s.factory.write /\ t.factory.finished = s.factory.finished
  BY FrameFields
<1> QED BY <1>1 DEF Complete, Still, Untouched

(* A segment that has data to write is not part of a finished file. *)
LEMMA BusyIsUnfinished ==
  ASSUME NEW L, NEW D, NEW s \in Orderly(L, D), Complete(L, s), NEW p \in Places(s)
  PROVE  s.factory.status # "Finished"
<1> DEFINE early == FALSE
<1>1. s \in Good(L, {}, Nowhere, early, D) BY DEF Orderly
<1> HIDE DEF early
<1>2. s.factory.finished # Chunks BY <1>1, NobodyIsLeft
<1> QED BY <1>2 DEF Complete

-----------------------------------------------------------------------------
(* The steps *)

(* What the finished chunks, the disk and a complete file do in a step *)
Moves(t, s) ==
    \/ Still(t, s) \/ Landed(t, s) \/ Lost(t, s)
    \/ \E p \in Places(s) : Advanced(t, s, Held(At(s, p)))

(* A call whose result is in order keeps the invariant. *)
LEMMA Reached ==
  ASSUME NEW t \in Orderly(Excused, {}), Complete(Excused, t), Lively(t), Becomes(t), Moves(t, Now)
  PROVE  Inv' /\ Moves(Now', Now)
<1>1. t = [factory |-> t.factory, source |-> t.source, disk |-> t.disk] BY DEF Orderly, Good, State
<1>2. Now' = t BY <1>1 DEF Becomes, Now
<1>3. t.factory = factory' /\ t.disk = disk' BY DEF Becomes
<1>4. Complete(Excused, Now)' BY <1>2, <1>3 DEF Complete, Now
<1>5. (Now \in Orderly(Excused, {}))' BY <1>2
<1>6. Lively(Now)' BY <1>2 DEF Lively, Going, Manned, Attended, Places
<1> QED BY <1>2, <1>4, <1>5, <1>6 DEF Inv

(* The connections of the model are the places of the proofs. *)
LEMMA ConnectionPlaces ==
  ASSUME NEW L, NEW D, Now \in Orderly(L, D)
  PROVE  /\ Now \in State /\ Now.factory = factory /\ Now.source = source
         /\ \A c : c \in Connections <=> c \in Places(Now)
         /\ \A c \in Connections :
                /\ c[1] \in Mirrors /\ c[2] \in Nat \ {0} /\ c = <<c[1], c[2]>>
                /\ <<c[1], c[2]>> \in Places(Now)
                /\ Seg(Now, c[1], c[2]) = At(Now, c)
                /\ Seg(Now, c[1], c[2]) = At(Now, <<c[1], c[2]>>)
                /\ At(Now, c).timers \in Nat
<1>1. Now \in State BY DEF Orderly, Good
<1>2. Now.factory = factory /\ Now.source = source BY DEF Now
<1>3. \A m \in Mirrors : source[m].segments \in Seq(AnySegment) BY <1>1, <1>2, Parts
<1>4. \A m \in Mirrors : DOMAIN source[m].segments = 1 .. Len(source[m].segments)
  BY <1>3
<1>5. ASSUME NEW c PROVE c \in Connections <=> c \in Places(Now)
  <2>1. ASSUME c \in Connections PROVE c \in Places(Now)
    <3>1. PICK m \in Mirrors : c \in {m} \X DOMAIN source[m].segments
      BY <2>1 DEF Connections
    <3>2. c \in {m} \X (1 .. Len(source[m].segments)) BY <1>4, <3>1
    <3>3. Len(source[m].segments) \in Nat BY <1>3
    <3> QED BY <1>2, <3>2, <3>3 DEF Places
  <2>2. ASSUME c \in Places(Now) PROVE c \in Connections
    <3>1. c[1] \in Mirrors /\ c[2] \in 1 .. Len(source[c[1]].segments) /\ c = <<c[1], c[2]>>
      BY <1>1, <1>2, <2>2, Parts
    <3>2. c \in {c[1]} \X DOMAIN source[c[1]].segments BY <1>4, <3>1
    <3> QED BY <3>1, <3>2 DEF Connections
  <2> QED BY <2>1, <2>2
<1>6. ASSUME NEW c \in Connections
      PROVE  /\ c[1] \in Mirrors /\ c[2] \in Nat \ {0} /\ c = <<c[1], c[2]>>
             /\ <<c[1], c[2]>> \in Places(Now)
             /\ Seg(Now, c[1], c[2]) = At(Now, c)
             /\ Seg(Now, c[1], c[2]) = At(Now, <<c[1], c[2]>>)
             /\ At(Now, c).timers \in Nat
  <2>1. c \in Places(Now) BY <1>5
  <2>2. /\ At(Now, c) \in AnySegment /\ c[1] \in Mirrors
        /\ c[2] \in 1 .. Len(Now.source[c[1]].segments) /\ c = <<c[1], c[2]>>
    BY <1>1, <2>1, Parts
  <2>3. c[2] \in Nat \ {0} BY <2>1 DEF Places
  <2>4. At(Now, c).timers \in Nat BY <2>2 DEF AnySegment
  <2> QED BY <2>1, <2>2, <2>3, <2>4 DEF Seg, At
<1> QED BY <1>1, <1>2, <1>5, <1>6

LEMMA NobodyWaits ==
  ASSUME NEW L, NEW D, Now \in Orderly(L, D), \A c \in Connections : ~Waiting(c)
  PROVE  \A p \in Places(Now) : At(Now, p).timers = 0
<1> SUFFICES ASSUME NEW p \in Places(Now) PROVE At(Now, p).timers = 0 OBVIOUS
<1>1. /\ p \in Connections /\ Seg(Now, p[1], p[2]) = At(Now, p)
      /\ At(Now, p).timers \in Nat
  BY ConnectionPlaces
<1> QED BY <1>1 DEF Waiting

LEMMA InitInv == Init => Inv
<1> SUFFICES ASSUME Init PROVE Inv OBVIOUS
<1>1. /\ factory.status = "Stopped" /\ factory.file = "none" /\ ~factory.known
      /\ ~factory.startTried /\ ~factory.findTried /\ ~factory.done
      /\ factory.started = {} /\ factory.finished = {} /\ factory.write = NoWrite
      /\ factory \in AnyFactory
  <2> DEFINE lists == {<<>>}
             sets == {{}}
  <2>1. /\ NoWrite \in [offset : Int, data : Seq(Int)] /\ lists \subseteq Seq(Mirrors)
        /\ sets \subseteq SUBSET Chunks /\ \A x \in sets : x = {}
    BY NothingToWrite
  <2>2. factory \in [status : {"Stopped"}, file : {"none"}, known : {FALSE},
                    sized : BOOLEAN, startTried : {FALSE}, findTried : {FALSE},
                    assignTried : {TRUE}, done : {FALSE}, started : sets,
                    finished : sets, unused : lists, write : {NoWrite}]
    BY DEF Init
  <2> HIDE DEF lists, sets
  <2>3. factory \in AnyFactory BY <2>1, <2>2 DEF AnyFactory
  <2> QED BY <2>1, <2>2, <2>3
<1>2. /\ source \in [Mirrors -> AnySource] /\ disk = {}
      /\ \A m \in Mirrors : /\ source[m].used /\ ~source[m].running
                            /\ source[m].segments = <<>>
  <2> DEFINE none == <<>>
             b == TRUE
             h == FALSE
  <2>1. none \in Seq(AnySegment) /\ b \in BOOLEAN /\ h \in BOOLEAN /\ b /\ ~h OBVIOUS
  <2>2. source = [m \in Mirrors |-> [used |-> b, running |-> h,
                                     connections |-> MaxConnections, segments |-> none]]
    BY DEF Init
  <2>3. none = <<>> OBVIOUS
  <2> HIDE DEF none, b, h
  <2> QED BY <2>1, <2>2, <2>3, SizesAssumption DEF Init, AnySource
<1>3. Now \in State /\ Now.factory = factory /\ Now.source = source /\ Now.disk = disk
  <2>1. disk \in SUBSET Int BY <1>2
  <2> QED BY <1>1, <1>2, <2>1 DEF State, Now
<1> HIDE DEF Now
<1>4. Recorded(Excused, Now, {})
  <2>1. 0 \in Units /\ 0 + 0 <= FileSize BY SizesAssumption DEF Units
  <2> QED BY <1>1, <1>2, <1>3, <2>1, NothingToWrite DEF Recorded
<1>5. Mirrored(Now, {}) BY <1>1, <1>2, <1>3 DEF Mirrored
<1>6. Places(Now) = {}
  <2>1. \A m \in Mirrors : Len(Now.source[m].segments) = 0 BY <1>2, <1>3
  <2> QED BY <2>1 DEF Places
<1>7. Fitting(Excused, Now, {}, Nowhere, FALSE) /\ Apart(Now) BY <1>6 DEF Fitting, Apart
<1>8. Covered(Now, {}) BY <1>1, <1>3 DEF Covered, Taken
<1>9. Now \in Orderly(Excused, {}) BY <1>3, <1>4, <1>5, <1>7, <1>8 DEF Good, Orderly
<1>10. Complete(Excused, Now) BY <1>1, <1>3 DEF Complete
<1>11. Lively(Now) BY <1>1, <1>3 DEF Lively, Going
<1> QED BY <1>9, <1>10, <1>11 DEF Inv

(* The dialog of the mirrors *)
LEMMA MirrorsSet ==
  ASSUME NEW L, NEW D, Now \in Orderly(L, D), NEW m \in Mirrors, NEW used \in BOOLEAN,
         NEW n \in 1 .. MaxConnections, SetMirrors(m, used, n)
  PROVE  \E t \in Orderly(L, {}) :
             /\ Becomes(t) /\ Frame(t) = Frame(Now) /\ (Lively(Now) => Lively(t))
             /\ Idle(Now) /\ Now.factory.file # "open" => Idle(t)
<1> DEFINE mirrors == [x \in Mirrors |-> [used |-> source[x].used,
                                          connections |-> source[x].connections]]
           changed == [mirrors EXCEPT ![m] = [used |-> used, connections |-> n]]
           Wish == [used : BOOLEAN, connections : Nat \ {0}]
           early == FALSE
           t == setMirrors(Now, changed)
<1>1. Becomes(t) BY DEF SetMirrors
<1>2. changed \in [Mirrors -> Wish]
  <2>1. \A x \in Mirrors : source[x] \in AnySource
    <3>1. Now \in State /\ Now.source = source BY ConnectionPlaces
    <3> QED BY <3>1, Parts
  <2>2. \A x \in Mirrors :
            [used |-> source[x].used, connections |-> source[x].connections] \in Wish
    BY <2>1 DEF AnySource
  <2>3. [used |-> used, connections |-> n] \in Wish OBVIOUS
  <2> QED BY <2>2, <2>3
<1> HIDE DEF changed
<1>3. Now \in Good(L, {}, Nowhere, early, D) /\ early = FALSE BY DEF Orderly
<1> HIDE DEF early, Now
<1>4. /\ t \in Good(L, {}, Nowhere, early, {}) /\ Frame(t) = Frame(Now)
      /\ Lively(Now) => Lively(t)
      /\ Idle(Now) /\ Now.factory.file # "open" => Idle(t)
  BY <1>2, <1>3, NewMirrors
<1> HIDE DEF t
<1> QED BY <1>1, <1>3, <1>4 DEF Orderly

LEMMA CommandsInv ==
  ASSUME Inv, Commands
  PROVE  Inv' /\ Moves(Now', Now)
<1>1. Now \in Orderly(Excused, {}) /\ Complete(Excused, Now) /\ Lively(Now) BY DEF Inv
<1>2. Now.factory = factory /\ Now.source = source BY <1>1, ConnectionPlaces
<1>3. CASE Start
  <2>1. Now.factory.status # "Running" /\ Becomes(start(Now)) BY <1>2, <1>3 DEF Start
  <2>2. /\ start(Now) \in Orderly(Excused, {}) /\ Complete(Excused, start(Now)) /\ Moves(start(Now), Now)
        /\ Lively(start(Now))
    BY <1>1, <2>1, Begun DEF Moves
  <2> QED BY <2>1, <2>2, Reached
<1>4. CASE Stop
  <2>1. Becomes(stop(Now)) BY <1>4 DEF Stop
  <2>2. Exact => \A p \in Places(Now) : At(Now, p).timers = 0
    BY <1>1, <1>4, NobodyWaits DEF Stop, Exact
  <2>3. /\ stop(Now) \in Orderly(Excused, {}) /\ Complete(Excused, stop(Now)) /\ Moves(stop(Now), Now)
        /\ Lively(stop(Now))
    BY <1>1, <2>2, Halted DEF Moves
  <2> QED BY <2>1, <2>3, Reached
<1>5. ASSUME NEW m \in Mirrors, NEW used \in BOOLEAN, NEW n \in 1 .. MaxConnections,
             SetMirrors(m, used, n)
      PROVE  Inv' /\ Moves(Now', Now)
  <2>1. PICK t \in Orderly(Excused, {}) :
            /\ Becomes(t) /\ Frame(t) = Frame(Now) /\ (Lively(Now) => Lively(t))
            /\ Idle(Now) /\ Now.factory.file # "open" => Idle(t)
    BY <1>1, <1>5, MirrorsSet
  <2>2. Complete(Excused, t) /\ Moves(t, Now) BY <1>1, <2>1, FrameComplete DEF Moves
  <2> QED BY <1>1, <2>1, <2>2, Reached
<1>6. ASSUME NEW pieces \in SUBSET Pieces, Repair(pieces)
      PROVE  Inv' /\ Moves(Now', Now)
  <2> DEFINE t == slotRepair([Now EXCEPT !.disk = @ \ Damage(pieces)],
                             BrokenChunks(pieces, PieceSize))
  <2>1. Now.factory.status = "Finished" /\ Becomes(t) BY <1>2, <1>6 DEF Repair
  <2>2. t \in Orderly(Excused, {}) /\ Complete(Excused, t) /\ Moves(t, Now) /\ Lively(t)
    BY <1>1, <2>1, Repaired DEF Moves
  <2> HIDE DEF t
  <2> QED BY <2>1, <2>2, Reached
<1> QED BY <1>3, <1>4, <1>5, <1>6 DEF Commands

LEMMA AnswersInv ==
  ASSUME Inv, NEW c \in Connections,
         \/ SizeFound(c[1], c[2]) \/ Data(c[1], c[2]) \/ WriteRest(c[1], c[2])
         \/ JobFails(c[1], c[2]) \/ JobEnds(c[1], c[2])
  PROVE  Inv' /\ Moves(Now', Now)
<1> DEFINE m == c[1]
           i == c[2]
           seg == Seg(Now, m, i)
<1>1. Now \in Orderly(Excused, {}) /\ Complete(Excused, Now) /\ Lively(Now) BY DEF Inv
<1>2. /\ m \in Mirrors /\ i \in Nat \ {0} /\ <<m, i>> \in Places(Now)
      /\ seg = At(Now, <<m, i>>)
  BY <1>1, ConnectionPlaces
<1>3. Seg(Now, <<m, i>>[1], <<m, i>>[2]) = seg OBVIOUS
<1>4. Now.factory.status # "Finished" BY <1>1, <1>2, BusyIsUnfinished
<1> HIDE DEF m, i
<1>5. CASE SizeFound(m, i)
  <2>1. /\ At(Now, <<m, i>>).finding /\ At(Now, <<m, i>>).job = "active"
        /\ Becomes(slotFoundFileSize(Now, m, i))
    BY <1>2, <1>3, <1>5 DEF SizeFound, Active
  <2>2. /\ slotFoundFileSize(Now, m, i) \in Orderly(Excused, {})
        /\ slotFoundFileSize(Now, m, i).factory.status = "Running"
        /\ Untouched(slotFoundFileSize(Now, m, i), Now)
        /\ Lively(slotFoundFileSize(Now, m, i))
    BY <1>1, <1>2, <2>1, SizeWasFound
  <2>3. Complete(Excused, slotFoundFileSize(Now, m, i)) /\ Moves(slotFoundFileSize(Now, m, i), Now)
    BY <1>4, <2>2 DEF Complete, Moves, Still
  <2> QED BY <2>1, <2>2, <2>3, Reached
<1>6. CASE Data(m, i)
  <2>1. /\ At(Now, <<m, i>>).job # "none" /\ ~At(Now, <<m, i>>).finding
        /\ At(Now, <<m, i>>).pos < FileSize
        /\ Becomes(slotData(Now, m, i, Seg(Now, m, i).pos))
    BY <1>2, <1>3, <1>6 DEF Data, Active
  <2>2. /\ slotData(Now, m, i, Seg(Now, m, i).pos) \in Orderly(Excused, {})
        /\ Advanced(slotData(Now, m, i, Seg(Now, m, i).pos), Now, Held(At(Now, <<m, i>>)))
        /\ Lively(slotData(Now, m, i, Seg(Now, m, i).pos))
    BY <1>1, <1>2, <2>1, DataReceived
  <2>3. /\ Complete(Excused, slotData(Now, m, i, Seg(Now, m, i).pos))
        /\ Moves(slotData(Now, m, i, Seg(Now, m, i).pos), Now)
    BY <1>2, <1>4, <2>2 DEF Complete, Moves, Advanced
  <2> QED BY <2>1, <2>2, <2>3, Reached
<1>7. CASE WriteRest(m, i)
  <2> DEFINE old == [Seg(Now, m, i) EXCEPT !.timers = @ - 1]
             t == slotWriteRest(WithSegment(Now, m, i, old), m, i)
  <2>1. At(Now, <<m, i>>).timers > 0 /\ Becomes(t)
    BY <1>2, <1>3, <1>7 DEF WriteRest, Waiting
  <2>2. t \in Orderly(Excused, {}) /\ Advanced(t, Now, Held(At(Now, <<m, i>>))) /\ Lively(t)
    BY <1>1, <1>2, <2>1, RestTried
  <2> HIDE DEF t
  <2>3. Complete(Excused, t) /\ Moves(t, Now) BY <1>2, <1>4, <2>2 DEF Complete, Moves, Advanced
  <2> QED BY <2>1, <2>2, <2>3, Reached
<1>8. CASE JobFails(m, i)
  <2> DEFINE early == FALSE
             e == Nowhere
             t == slotError(Now, m, i)
  <2>1. Becomes(t) BY <1>8 DEF JobFails
  <2>2. Now \in Good(Excused, {}, e, early, {}) /\ e \in {Nowhere, <<m, i>>} /\ e = Nowhere
    BY <1>1 DEF Orderly
  <2> HIDE DEF early, e
  <2>3. Sums(Excused, Now, At(Now, <<m, i>>))
    <3>1. Fitting(Excused, Now, {}, e, early) BY <2>2 DEF Good
    <3>2. Adds(Excused, Now, At(Now, <<m, i>>)) BY <1>2, <2>2, <3>1, NowhereIsNoPlace DEF Fitting
    <3> QED BY <3>2 DEF Adds, Sums
  <2>4. t \in Good(Excused, {}, Nowhere, early, {}) /\ Frame(t) = Frame(Now) /\ (Lively(Now) => Lively(t))
    BY <1>2, <2>2, <2>3, FailedSegment
  <2> HIDE DEF t
  <2>5. t \in Orderly(Excused, {}) BY <2>4 DEF Orderly, early
  <2>6. Complete(Excused, t) /\ Moves(t, Now) BY <1>1, <2>4, FrameComplete DEF Moves
  <2> QED BY <1>1, <2>1, <2>4, <2>5, <2>6, Reached
<1>9. CASE JobEnds(m, i)
  <2> DEFINE t == WithSegment(Now, m, i, Ended(Seg(Now, m, i)))
  <2>1. /\ Becomes(t) /\ At(Now, <<m, i>>).job = "active"
        /\ Exact => At(Now, <<m, i>>).buffer = <<>>
    BY <1>2, <1>3, <1>9 DEF JobEnds, Active, Ended, Exact
  <2>2. t \in Orderly(Excused, {}) /\ Swapped(t, Now, <<m, i>>, Ended(Seg(Now, m, i)))
    BY <1>1, <1>2, <2>1, JobEnded
  <2> HIDE DEF t
  <2>3. Lively(t) BY <1>1, <2>2, SwappedLively
  <2>4. Complete(Excused, t) /\ Moves(t, Now)
    BY <1>1, <2>2 DEF Complete, Moves, Still, Untouched, Swapped
  <2> QED BY <2>1, <2>2, <2>3, <2>4, Reached
<1> QED BY <1>5, <1>6, <1>7, <1>8, <1>9 DEF m, i

(* The invariant is inductive. *)
LEMMA InvNext ==
  ASSUME Inv, [Next]_vars
  PROVE  Inv' /\ Moves(Now', Now)
<1>1. Now \in Orderly(Excused, {}) /\ Complete(Excused, Now) /\ Lively(Now) BY DEF Inv
<1>2. Now.factory = factory /\ Now.source = source BY <1>1, ConnectionPlaces
<1>3. CASE Opened
  <2>1. Now.factory.file = "opening" /\ Becomes(open(Now)) BY <1>2, <1>3 DEF Opened
  <2>2. /\ open(Now) \in Orderly(Excused, {}) /\ Complete(Excused, open(Now)) /\ Moves(open(Now), Now)
        /\ Lively(open(Now))
    BY <1>1, <2>1, FileOpened DEF Moves
  <2> QED BY <2>1, <2>2, Reached
<1>4. CASE Written
  <2>1. Becomes(slotDataWritten(Now)) BY <1>4 DEF Written
  <2>2. /\ slotDataWritten(Now) \in Orderly(Excused, {}) /\ Complete(Excused, slotDataWritten(Now))
        /\ Moves(slotDataWritten(Now), Now) /\ Lively(slotDataWritten(Now))
    BY <1>1, DataWritten DEF Moves
  <2> QED BY <2>1, <2>2, Reached
<1>5. CASE Restart
  <2>1. /\ Now.factory.status = "Running" /\ Becomes(start(stop(Now)))
        /\ \A c \in Connections : ~Waiting(c)
    BY <1>2, <1>5 DEF Restart, Stalled
  <2>2. \A p \in Places(Now) : At(Now, p).timers = 0 BY <1>1, <2>1, NobodyWaits
  <2>3. /\ stop(Now) \in Orderly(Excused, {}) /\ Complete(Excused, stop(Now))
        /\ stop(Now).factory.status = "Stopped" /\ Still(stop(Now), Now)
    BY <1>1, <2>1, <2>2, Halted
  <2>4. /\ start(stop(Now)) \in Orderly(Excused, {}) /\ Complete(Excused, start(stop(Now)))
        /\ Still(start(stop(Now)), stop(Now)) /\ Lively(start(stop(Now)))
    BY <2>3, Begun
  <2>5. Moves(start(stop(Now)), Now) BY <2>3, <2>4 DEF Moves, Still, Untouched
  <2> QED BY <2>1, <2>4, <2>5, Reached
<1>6. CASE Commands BY <1>6, CommandsInv
<1>7. ASSUME NEW c \in Connections,
             \/ SizeFound(c[1], c[2]) \/ Data(c[1], c[2]) \/ WriteRest(c[1], c[2])
             \/ JobFails(c[1], c[2]) \/ JobEnds(c[1], c[2])
      PROVE  Inv' /\ Moves(Now', Now)
  BY <1>7, AnswersInv
<1>8. CASE UNCHANGED vars
  <2>1. Now' = Now BY <1>8 DEF vars, Now
  <2>2. Lively(Now)' BY <1>1, <2>1 DEF Lively, Going, Manned, Attended, Places
  <2>4. Inv' BY <1>1, <2>1, <2>2 DEF Inv, Complete
  <2>3. Moves(Now', Now) BY <2>1 DEF Moves, Still, Untouched
  <2> QED BY <2>3, <2>4
<1> QED BY <1>3, <1>4, <1>5, <1>6, <1>7, <1>8 DEF Next, Progress

LEMMA InvAlways == Spec => []Inv
<1> QED BY InitInv, InvNext, PTL DEF Spec

-----------------------------------------------------------------------------
(* What follows from the invariant *)

(* Every chunk that was started is finished or belongs to one segment, and only
   to one, after any sequence of commands, answers, failures and repairs, for any
   number of mirrors, connections and chunks, and even if a download is stopped
   while it writes. *)
THEOREM ChunksHaveOwnersAlways ==
  Spec => []ChunksHaveOwners
<1>1. ASSUME Inv PROVE ChunksHaveOwners
  <2> DEFINE early == FALSE
             X == {}
  <2>1. /\ Now \in Orderly(Excused, {}) /\ Now \in Good(Excused, X, Nowhere, early, {}) /\ X = {}
    BY <1>1 DEF Inv, Orderly
  <2> HIDE DEF early, X
  <2>2. Recorded(Excused, Now, X) /\ Apart(Now) /\ Covered(Now, X) BY <2>1 DEF Good
  <2>3. /\ Now.factory = factory /\ \A c : c \in Connections <=> c \in Places(Now)
        /\ \A c \in Connections : Seg(Now, c[1], c[2]) = At(Now, c)
    BY <2>1, ConnectionPlaces
  <2>4. ASSUME NEW c \in Assigned
        PROVE  /\ c \in Places(Now) /\ ChunksOf(c) = Held(At(Now, c))
               /\ ChunksOf(c) # {} /\ ChunksOf(c) \subseteq factory.started
               /\ ChunksOf(c) \cap factory.finished = {}
    <3>1. c \in Places(Now) /\ ~At(Now, c).finding /\ ChunksOf(c) = Held(At(Now, c))
      BY <2>3 DEF Assigned, ChunksOf, Held
    <3>2. /\ At(Now, c).cur \in Chunks /\ At(Now, c).cur <= At(Now, c).end
          /\ Held(At(Now, c)) = At(Now, c).cur .. At(Now, c).end
          /\ Held(At(Now, c)) \subseteq Taken(Now, X)
          /\ At(Now, c).end \in Chunks
      BY <2>1, <3>1, ChunkFacts
    <3>3. At(Now, c).cur \in Held(At(Now, c)) BY <3>2 DEF Chunks
    <3> QED BY <2>3, <3>1, <3>2, <3>3 DEF Taken
  <2>5. factory.finished \subseteq factory.started BY <2>2, <2>3 DEF Recorded
  <2>6. ASSUME NEW k \in factory.started, k \notin factory.finished
        PROVE  \E c \in Assigned : k \in ChunksOf(c)
    <3>1. k \in Taken(Now, X) BY <2>1, <2>3, <2>6 DEF Taken
    <3>2. PICK c \in Places(Now) : k \in Held(At(Now, c)) BY <2>2, <3>1 DEF Covered
    <3>3. ~At(Now, c).finding /\ k \in Owned(At(Now, c)) BY <3>2 DEF Held
    <3> QED BY <2>3, <3>2, <3>3 DEF Assigned, ChunksOf
  <2>7. factory.started = factory.finished \cup UNION {ChunksOf(c) : c \in Assigned}
    BY <2>4, <2>5, <2>6
  <2>8. \A c \in Assigned : \A d \in Assigned \ {c} : ChunksOf(c) \cap ChunksOf(d) = {}
    BY <2>2, <2>4 DEF Apart
  <2> QED BY <2>4, <2>7, <2>8 DEF ChunksHaveOwners
<1> QED BY <1>1, InvAlways, PTL

(* A download that goes on has its connections started, and one of them while a mirror
   is used and something is missing. *)
LEMMA GoingIsExecuted ==
  ASSUME NEW L, NEW D, Now \in Orderly(L, D), Lively(Now), Going(Now),
         Now.factory.finished # Chunks
  PROVE  /\ \A c \in Connections : HasStarted(Seg(Now, c[1], c[2]))
         /\ Used(Now) # <<>> => Connections # {}
<1> DEFINE early == FALSE
<1>1. Now \in Good(L, {}, Nowhere, early, D) BY DEF Orderly
<1> HIDE DEF early
<1>2. /\ \A c : c \in Connections <=> c \in Places(Now)
      /\ \A c \in Connections : Seg(Now, c[1], c[2]) = At(Now, c)
  BY ConnectionPlaces
<1> HIDE DEF Now
<1>3. Fitting(L, Now, {}, Nowhere, early) BY <1>1 DEF Good
<1>4. /\ \A m \in Mirrors : Now.source[m].used => Now.source[m].running
      /\ Manned(Now) => Attended(Now)
  BY DEF Lively
<1>5. ASSUME NEW c \in Connections PROVE HasStarted(Seg(Now, c[1], c[2]))
  <2>1. c \in Places(Now) /\ Seg(Now, c[1], c[2]) = At(Now, c) BY <1>2
  <2>2. c[1] \in Mirrors /\ Now.source[c[1]].used BY <1>1, <2>1, ChunkFacts
  <2>3. Wakes(Now, c[1], At(Now, c)) BY <1>3, <2>1 DEF Fitting, Fits
  <2> QED BY <1>4, <2>1, <2>2, <2>3 DEF Wakes, HasStarted
<1>6. ASSUME Used(Now) # <<>> PROVE Connections # {}
  <2>1. Manned(Now) BY <1>6, UsedMirrors DEF Manned
  <2>2. Places(Now) # {} BY <1>4, <2>1 DEF Attended
  <2> QED BY <1>2, <2>2
<1> QED BY <1>5, <1>6

(* While a download that is not complete runs, it has a connection as long as a mirror
   is used, and each was started, with no job that nobody resumes, after any sequence
   of commands, answers, failures, early ends and repairs, and even if segments are
   stopped with data: what is left to do is always given to somebody. *)
THEOREM WorkIsGivenAlways ==
  Spec => []WorkIsGiven
<1>1. ASSUME Inv PROVE WorkIsGiven
  <2>1. Now \in Orderly(Excused, {}) /\ Lively(Now) /\ Now.factory = factory
    BY <1>1 DEF Inv, Now
  <2> HIDE DEF Now
  <2> QED BY <2>1, GoingIsExecuted DEF WorkIsGiven, Going
<1> QED BY <1>1, InvAlways, PTL

(* The segments of an assigned connection *)
LEMMA AssignedSums ==
  ASSUME Inv, Exact, NEW c \in Assigned
  PROVE  /\ c \in Places(Now) /\ Seg(Now, c[1], c[2]) = At(Now, c)
         /\ Exactly(At(Now, c)) /\ At(Now, c) \in AnySegment
<1> DEFINE early == FALSE
           D == {}
<1>1. Now \in Orderly(Excused, {}) /\ Now \in Good(Excused, {}, Nowhere, early, D) BY DEF Inv, Orderly
<1> HIDE DEF early, D
<1>2. c \in Places(Now) /\ Seg(Now, c[1], c[2]) = At(Now, c) /\ ~At(Now, c).finding
  BY <1>1, ConnectionPlaces DEF Assigned
<1>3. Fitting(Excused, Now, {}, Nowhere, early) BY <1>1 DEF Good
<1>4. Adds(Excused, Now, At(Now, c)) BY <1>2, <1>3, NowhereIsNoPlace DEF Fitting
<1>5. At(Now, c) \in AnySegment BY <1>1, <1>2, ChunkFacts
<1> QED BY <1>2, <1>4, <1>5 DEF Adds

(* The offset, the rest of the current chunk and the rest of all chunks of every
   segment agree, and its buffer and its job go on at the offset, if no download is
   stopped while a segment waits to write. *)
THEOREM OffsetsAgreeAlways ==
  ASSUME ~StopsWithData
  PROVE  Spec => []OffsetsAgree
<1>1. ASSUME Inv PROVE OffsetsAgree
  <2>1. ASSUME NEW c \in Assigned
        PROVE  LET seg == Seg(Now, c[1], c[2])
               IN  /\ ChunkSize * seg.cur <= seg.offset /\ seg.curSize > 0
                   /\ seg.offset + seg.curSize = EndOf(seg.cur)
                   /\ seg.offset + seg.left = EndOf(seg.end)
                   /\ \A k \in DOMAIN seg.buffer : seg.buffer[k] = seg.offset + k - 1
                   /\ seg.job # "none" => seg.pos = seg.offset + Len(seg.buffer)
    <3> DEFINE seg == Seg(Now, c[1], c[2])
    <3>1. Exactly(seg) /\ seg \in AnySegment BY <1>1, AssignedSums DEF Exact
    <3> HIDE DEF seg
    <3>2. DOMAIN seg.buffer = 1 .. Len(seg.buffer) BY <3>1 DEF AnySegment
    <3>3. /\ ChunkSize * seg.cur <= seg.offset /\ seg.curSize > 0
          /\ seg.offset + seg.curSize = EndOf(seg.cur)
          /\ seg.offset + seg.left = EndOf(seg.end)
          /\ \A k \in DOMAIN seg.buffer : seg.buffer[k] = seg.offset + k - 1
          /\ seg.job # "none" => seg.pos = seg.offset + Len(seg.buffer)
      BY <3>1, <3>2 DEF Exactly
    <3> QED BY <3>3 DEF seg
  <2> QED BY <2>1 DEF OffsetsAgree
<1> QED BY <1>1, InvAlways, PTL

(* The state keeps its types and ranges: chunks, offsets and units exist, if no
   download is stopped while a segment waits to write. *)
THEOREM DownloadTypes ==
  ASSUME ~StopsWithData
  PROVE  Spec => []TypeOK
<1>1. ASSUME Inv PROVE TypeOK
  <2> DEFINE early == FALSE
             D == {}
  <2>1. /\ Now \in Orderly(Excused, {}) /\ Now \in Good(Excused, {}, Nowhere, early, D) /\ Exact
    BY <1>1 DEF Inv, Orderly, Exact
  <2> HIDE DEF early, D
  <2>2. /\ Now \in State /\ Recorded(Excused, Now, {}) /\ Fitting(Excused, Now, {}, Nowhere, early)
        /\ Now.factory = factory /\ Now.source = source /\ Now.disk = disk
    BY <2>1, ConnectionPlaces DEF Good, Now
  <2> HIDE DEF Now
  <2>3. factory \in Factory
    <3> DEFINE w == factory.write
    <3>1. factory \in AnyFactory /\ w \in [offset : Int, data : Seq(Int)]
      BY <2>2, Parts DEF AnyFactory
    <3>2. /\ w.offset \in Units /\ w.offset + Len(w.data) <= FileSize
          /\ \A k \in 1 .. Len(w.data) : w.data[k] = w.offset + k - 1
      BY <2>1, <2>2 DEF Recorded
    <3> HIDE DEF w
    <3>3. \A k \in 1 .. Len(w.data) : w.data[k] \in Units
      BY <3>1, <3>2, SizesAssumption DEF Units
    <3>4. w.data \in Seq(Units) BY <3>1, <3>3
    <3>5. w \in [offset : Units, data : Seq(Units)] BY <3>1, <3>2, <3>4
    <3> QED BY <3>1, <3>5 DEF AnyFactory, Factory, w
  <2>4. ASSUME NEW m \in Mirrors PROVE source[m] \in Source
    <3>1. source[m] \in AnySource /\ source[m].segments \in Seq(AnySegment)
      BY <2>2, Parts
    <3>2. ASSUME NEW i \in 1 .. Len(source[m].segments)
          PROVE  source[m].segments[i] \in Segment
      <4> DEFINE p == <<m, i>>
                 seg == At(Now, p)
      <4>1. p \in Places(Now) /\ seg = source[m].segments[i] BY <2>2, Parts
      <4>2. seg \in AnySegment BY <3>1, <4>1
      <4>3. Searches(Now, seg) /\ Adds(Excused, Now, seg)
        <5>1. p # Nowhere BY <4>1, NowhereIsNoPlace
        <5> QED BY <2>2, <4>1, <5>1 DEF Fitting, Fits
      <4>4. ~seg.finding => seg.cur \in Chunks /\ seg.end \in Chunks
        BY <2>1, <4>1, ChunkFacts
      <4> HIDE DEF seg, p
      <4>5. /\ seg.cur \in Chunks /\ seg.end \in Chunks /\ seg.offset \in 0 .. FileSize
            /\ seg.pos \in 0 .. FileSize /\ seg.buffer \in Seq(Units)
        <5>1. CASE seg.finding
          <6> DEFINE none == <<>>
          <6>1. none \in Seq(Units) OBVIOUS
          <6>2. 0 \in Chunks /\ 0 \in 0 .. FileSize
            BY NumberOfChunks, SizesAssumption DEF Chunks
          <6>3. /\ seg.cur = 0 /\ seg.end = 0 /\ seg.offset = 0 /\ seg.pos = 0
                /\ seg.buffer = none
            BY <4>3, <5>1 DEF Searches
          <6> HIDE DEF none
          <6> QED BY <6>1, <6>2, <6>3
        <5>2. CASE ~seg.finding
          <6>1. Exactly(seg) BY <2>1, <4>3, <5>2 DEF Adds
          <6>2. ChunkSize * seg.cur \in Nat
            <7>1. seg.cur \in Nat /\ ChunkSize \in Nat
              BY <4>4, <5>2, SizesAssumption DEF Chunks
            <7> QED BY <7>1
          <6>3. /\ seg.offset \in Int /\ seg.buffer \in Seq(Int) /\ Len(seg.buffer) \in Nat
            BY <4>2 DEF AnySegment
          <6> DEFINE first == ChunkSize * seg.cur
          <6>4. first <= seg.offset BY <6>1 DEF Exactly
          <6> HIDE DEF first
          <6>5. 0 <= seg.offset BY <6>2, <6>3, <6>4 DEF first
          <6>6. seg.offset + Len(seg.buffer) <= FileSize BY <6>1 DEF Exactly
          <6>7. seg.offset \in 0 .. FileSize BY <6>3, <6>5, <6>6, SizesAssumption
          <6>8. seg.pos \in 0 .. FileSize
            <7>1. seg.pos = 0 \/ seg.pos = seg.offset + Len(seg.buffer) BY <6>1 DEF Exactly
            <7> QED BY <6>3, <6>5, <6>6, <7>1, SizesAssumption
          <6>9. \A k \in 1 .. Len(seg.buffer) : seg.buffer[k] \in Units
            <7>1. \A k \in 1 .. Len(seg.buffer) : seg.buffer[k] = seg.offset + k - 1
              BY <6>1 DEF Exactly
            <7> DEFINE o == seg.offset
                       n == Len(seg.buffer)
            <7>2. /\ o \in Int /\ n \in Nat /\ 0 <= o /\ o + n <= FileSize /\ FileSize \in Int
              BY <6>3, <6>5, <6>6, SizesAssumption
            <7> HIDE DEF o, n
            <7>3. \A k \in 1 .. n : o + k - 1 \in Units BY <7>2 DEF Units
            <7> QED BY <7>1, <7>3 DEF o, n
          <6>10. seg.buffer \in Seq(Units) BY <6>3, <6>9
          <6> QED BY <4>4, <5>2, <6>7, <6>8, <6>10
        <5> QED BY <5>1, <5>2
      <4>6. seg \in Segment
        <5>1. 1 .. ChunkSize \subseteq Nat BY SizesAssumption
        <5> QED BY <4>2, <4>5, <5>1 DEF AnySegment, Segment
      <4> QED BY <4>1, <4>6
    <3>3. source[m].segments \in Seq(Segment) BY <3>1, <3>2
    <3> QED BY <3>1, <3>3 DEF AnySource, Source
  <2>5. source \in [Mirrors -> Source]
    <3>1. source \in [Mirrors -> AnySource] BY <2>2 DEF State
    <3> QED BY <2>4, <3>1
  <2>6. disk \subseteq Units BY <2>1, <2>2 DEF Recorded
  <2> QED BY <2>3, <2>5, <2>6 DEF TypeOK
<1> QED BY <1>1, InvAlways, PTL

(* A finished file has all its units right, and a finished chunk is on the disk or
   in the write that is under way, after any sequence of commands, failures and
   repairs, if no download is stopped while a segment waits to write and if the
   chunks a repair fetches again cover the damage. *)
THEOREM FinishedIsWrittenAlways ==
  ASSUME ~StopsWithData, RepairCovers
  PROVE  Spec => []FinishedIsWritten
<1>1. ASSUME Inv PROVE FinishedIsWritten
  <2>1. /\ Now \in Orderly(Excused, {}) /\ Complete(Excused, Now) /\ Exact /\ Excused = {}
    BY <1>1 DEF Inv, Exact, Excused
  <2>2. Recorded(Excused, Now, {}) /\ Now.factory = factory /\ Now.disk = disk
    BY <2>1 DEF Orderly, Good, Now
  <2> HIDE DEF Now
  <2>3. factory.status = "Finished" => disk = Units
    <3>1. disk \subseteq Units BY <2>1, <2>2 DEF Recorded
    <3> QED BY <2>1, <2>2, <3>1 DEF Complete
  <2>4. \A c \in factory.finished : ChunkUnits(c) \subseteq disk \cup RightUnits(factory.write)
    BY <2>1, <2>2 DEF Recorded, Kept
  <2> QED BY <2>3, <2>4 DEF FinishedIsWritten, FinishedFileIsRight
<1> QED BY <1>1, InvAlways, PTL

(* The chunks that a repair fetches again cover the damage when a piece with a
   checksum is one chunk, so FinishedIsWrittenAlways applies to such files. *)
LEMMA PiecesAreChunks ==
  ASSUME PieceSize = ChunkSize
  PROVE  RepairCovers
<1> SUFFICES ASSUME NEW pieces \in SUBSET Pieces, NEW u \in Damage(pieces)
             PROVE  u \div ChunkSize \in BrokenChunks(pieces, PieceSize)
  BY DEF RepairCovers
<1>1. u \in Units /\ u \div ChunkSize \in Chunks
  <2>1. u \in Units BY DEF Damage
  <2> QED BY <2>1, UnitsOfChunks
<1>2. CASE pieces = {} BY <1>1, <1>2 DEF BrokenChunks
<1>3. CASE pieces # {}
  <2> DEFINE p == u \div ChunkSize
             length == (PieceSize + ChunkSize - 1) \div ChunkSize
             first(q) == (q * PieceSize) \div ChunkSize
             range(q) == first(q) .. first(q) + length - 1
  <2>1. p \in pieces BY <1>3 DEF Damage
  <2>2. p \in Int /\ ChunkSize \in Int /\ ChunkSize > 0
    BY <1>1, SizesAssumption DEF Chunks
  <2> HIDE DEF p
  <2>3. length = 1
    <3> DEFINE a == ChunkSize + ChunkSize - 1
               one == 1
    <3>1. a \in Int /\ one \in Int /\ ChunkSize * one = ChunkSize /\ one = 1 BY <2>2
    <3>2. ChunkSize <= a /\ a < ChunkSize + ChunkSize BY <2>2
    <3> HIDE DEF a, one
    <3>3. a \div ChunkSize = one BY <3>1, <3>2, Division
    <3> QED BY <3>1, <3>3 DEF a
  <2>4. first(p) = p
    <3> DEFINE a == ChunkSize * p
    <3>1. a \in Int BY <2>2, Products
    <3>2. p * PieceSize = a BY <2>2
    <3>3. a <= a /\ a < a + ChunkSize
      <4> HIDE DEF a
      <4> QED BY <2>2, <3>1
    <3>4. a \div ChunkSize = p BY <2>2, <3>1, <3>3, Division
    <3> QED BY <3>2, <3>4
  <2>5. range(p) = {p} BY <2>2, <2>3, <2>4
  <2>6. range(p) \subseteq Chunks BY <1>1, <2>5 DEF p
  <2>7. BrokenChunks(pieces, PieceSize) = UNION {range(q) : q \in {x \in pieces : range(x) \subseteq Chunks}}
    BY <1>3 DEF BrokenChunks
  <2> HIDE DEF range, first, length
  <2>8. p \in BrokenChunks(pieces, PieceSize) BY <2>1, <2>5, <2>6, <2>7
  <2> QED BY <2>8 DEF p
<1> QED BY <1>2, <1>3

-----------------------------------------------------------------------------
(* The engine implements ChunkStore. *)

Owners == [c \in Chunks |-> OwnerOf(c)]
Stored == {c \in Chunks : ChunkUnits(c) \subseteq disk}

(* A chunk is owned by the mirror whose connection holds it. *)
OwnersFit ==
    /\ Owners \in [Chunks -> Mirrors \cup {"nobody", "done"}]
    /\ \A c \in Chunks : Owners[c] = "done" <=> c \in factory.finished
    /\ \A p \in Places(Now) : p[1] \in Mirrors /\ \A c \in Held(At(Now, p)) : Owners[c] = p[1]

LEMMA ChunksAreFilled ==
  ASSUME NEW c \in Chunks
  PROVE  ChunkUnits(c) # {}
<1> DEFINE u == ChunkSize * c
<1>1. /\ c \in Int /\ u \in Int /\ u < EndOf(c) /\ EndOf(c) <= FileSize /\ EndOf(c) \in Int
      /\ c \in Nat
  BY Ends, Products
<1>2. 0 <= u BY <1>1, SizesAssumption
<1>3. u <= u /\ u < u + ChunkSize
  <2> HIDE DEF u
  <2> QED BY <1>1, SizesAssumption
<1>4. u \div ChunkSize = c BY <1>1, <1>3, Division
<1> HIDE DEF u
<1>5. u \in Units BY <1>1, <1>2, SizesAssumption DEF Units
<1> QED BY <1>4, <1>5 DEF ChunkUnits

LEMMA OwnersKnown ==
  ASSUME Inv, "done" \notin Mirrors
  PROVE  OwnersFit
<1> DEFINE early == FALSE
           X == {}
<1>1. Now \in Orderly(Excused, {}) /\ Now \in Good(Excused, X, Nowhere, early, {}) /\ X = {}
  BY DEF Inv, Orderly
<1> HIDE DEF early, X
<1>2. Recorded(Excused, Now, X) /\ Apart(Now) /\ Covered(Now, X) /\ Now \in State BY <1>1 DEF Good
<1>3. /\ Now.factory = factory /\ Now.source = source
      /\ \A c \in Connections : c \in Places(Now) /\ Seg(Now, c[1], c[2]) = At(Now, c)
  BY <1>1, ConnectionPlaces
<1>4. \A m \in Mirrors : \A i \in DOMAIN source[m].segments : <<m, i>> \in Connections
  BY DEF Connections
<1> HIDE DEF Now
<1>5. ASSUME NEW p \in Places(Now), NEW c \in Held(At(Now, p))
      PROVE  /\ p[1] \in Mirrors /\ c \in factory.started /\ c \notin factory.finished
             /\ \A m \in Mirrors : c \in OwnedBy(m) <=> m = p[1]
  <2>1. ~At(Now, p).finding /\ c \in Owned(At(Now, p)) BY <1>5 DEF Held
  <2>2. c \in Taken(Now, X) /\ p[1] \in Mirrors BY <1>1, <1>5, <2>1, ChunkFacts
  <2>3. /\ p[2] \in 1 .. Len(source[p[1]].segments) /\ p = <<p[1], p[2]>>
        /\ DOMAIN source[p[1]].segments = 1 .. Len(source[p[1]].segments)
    <3>1. p[2] \in 1 .. Len(Now.source[p[1]].segments) /\ p = <<p[1], p[2]>>
      BY <1>2, Parts
    <3>2. source[p[1]].segments \in Seq(AnySegment) BY <1>2, <1>3, <2>2, Parts
    <3> QED BY <1>3, <3>1, <3>2
  <2>4. At(Now, p) \in SegmentsOf(p[1])
    <3>1. At(Now, p) = Seg(Now, p[1], p[2]) BY DEF At, Seg
    <3> QED BY <2>3, <3>1 DEF SegmentsOf
  <2>5. c \in OwnedBy(p[1]) BY <2>1, <2>4 DEF OwnedBy
  <2>6. ASSUME NEW m \in Mirrors, c \in OwnedBy(m) PROVE m = p[1]
    <3>1. PICK seg \in SegmentsOf(m) : ~seg.finding /\ c \in Owned(seg) BY <2>6 DEF OwnedBy
    <3>2. PICK i \in DOMAIN source[m].segments : seg = Seg(Now, m, i) BY <3>1 DEF SegmentsOf
    <3>3. <<m, i>> \in Places(Now) /\ At(Now, <<m, i>>) = seg
      <4>1. <<m, i>> \in Connections BY <1>4, <3>2
      <4> QED BY <1>3, <3>2, <4>1 DEF Seg, At
    <3>4. c \in Held(At(Now, <<m, i>>)) BY <3>1, <3>3 DEF Held
    <3>5. <<m, i>> = p BY <1>2, <1>5, <3>3, <3>4 DEF Apart
    <3> QED BY <3>5
  <2> QED BY <1>3, <2>2, <2>5, <2>6 DEF Taken
<1>6. ASSUME NEW p \in Places(Now), NEW c \in Held(At(Now, p))
      PROVE  OwnerOf(c) = p[1]
  BY <1>5 DEF OwnerOf
<1>7. ASSUME NEW c \in Chunks
      PROVE  /\ OwnerOf(c) \in Mirrors \cup {"nobody", "done"}
             /\ OwnerOf(c) = "done" <=> c \in factory.finished
  <2>1. CASE c \in factory.finished BY <2>1 DEF OwnerOf
  <2>2. CASE c \notin factory.finished /\ c \notin factory.started BY <2>2 DEF OwnerOf
  <2>3. CASE c \notin factory.finished /\ c \in factory.started
    <3>1. c \in Taken(Now, X) BY <1>1, <1>3, <2>3 DEF Taken
    <3>2. PICK p \in Places(Now) : c \in Held(At(Now, p)) BY <1>2, <3>1 DEF Covered
    <3>3. OwnerOf(c) = p[1] /\ p[1] \in Mirrors BY <1>5, <1>6, <3>2
    <3> QED BY <2>3, <3>3
  <2> QED BY <2>1, <2>2, <2>3
<1>8. ASSUME NEW p \in Places(Now)
      PROVE  p[1] \in Mirrors /\ Held(At(Now, p)) \subseteq Chunks
  <2>1. p[1] \in Mirrors /\ (~At(Now, p).finding => Held(At(Now, p)) \subseteq Taken(Now, X))
    BY <1>1, ChunkFacts
  <2>2. factory.started \subseteq Chunks BY <1>2, <1>3, Parts DEF AnyFactory
  <2> QED BY <1>3, <2>1, <2>2 DEF Taken, Held
<1>9. \A p \in Places(Now) : \A c \in Held(At(Now, p)) : Owners[c] = p[1]
  BY <1>6, <1>8 DEF Owners
<1> HIDE DEF OwnerOf
<1> QED BY <1>7, <1>8, <1>9 DEF OwnersFit, Owners

(* No chunk changes hands. *)
LEMMA SameOwners ==
  ASSUME Inv, OwnersFit, OwnersFit', Complete(Excused, Now), factory.status = "Finished",
         factory'.finished = factory.finished
  PROVE  Owners' = Owners /\ \A c \in Chunks : Owners[c] = "done"
<1> DEFINE early == FALSE
<1>1. Now \in Good(Excused, {}, Nowhere, early, {}) /\ Now.factory = factory
  BY DEF Inv, Orderly, Now
<1> HIDE DEF early
<1>2. factory.finished = Chunks
  <2>1. Now.factory.finished = Chunks BY <1>1 DEF Complete
  <2> QED BY <1>1, <2>1
<1>3. \A c \in Chunks : Owners[c] = "done" /\ Owners'[c] = "done" BY <1>2 DEF OwnersFit
<1> HIDE DEF Owners
<1>4. Owners \in [Chunks -> Mirrors \cup {"nobody", "done"}] BY DEF OwnersFit
<1>5. Owners' \in [Chunks -> Mirrors \cup {"nobody", "done"}] BY DEF OwnersFit
<1> QED BY <1>3, <1>4, <1>5

(* A step of the engine is one of ChunkStore, or changes nothing of it. *)
LEMMA StoreStep ==
  ASSUME ~StopsWithData, RepairCovers, Inv, Inv', OwnersFit, OwnersFit',
         Moves(Now', Now)
  PROVE  [Store!Next]_Store!storeVars
<1> DEFINE Names == Mirrors \cup {"nobody", "done"}
           complete == factory.status = "Finished"
<1>1. /\ Now.factory = factory /\ Now.disk = disk
      /\ Now'.factory = factory' /\ Now'.disk = disk'
  BY DEF Now
<1>2. /\ Now \in Orderly(Excused, {}) /\ Complete(Excused, Now) /\ Now' \in Orderly(Excused, {})
      /\ Complete(Excused, Now') /\ Exact /\ Excused = {}
  BY DEF Inv, Exact, Excused, Complete
<1>3. /\ Owners \in [Chunks -> Names] /\ Owners' \in [Chunks -> Names]
      /\ \A c \in Chunks : Owners[c] = "done" <=> c \in factory.finished
      /\ \A c \in Chunks : Owners'[c] = "done" <=> c \in factory'.finished
      /\ \A p \in Places(Now) : p[1] \in Mirrors
      /\ \A p \in Places(Now) : \A c \in Held(At(Now, p)) : Owners[c] = p[1]
  BY DEF OwnersFit
<1>4. complete => Stored = Chunks
  <2>1. complete => Units \subseteq disk BY <1>1, <1>2 DEF Complete
  <2> QED BY <2>1 DEF Stored, ChunkUnits
<1>5. complete' => Stored' = Chunks
  <2>1. complete' => Units \subseteq disk' BY <1>1, <1>2 DEF Complete
  <2> QED BY <2>1 DEF Stored, ChunkUnits
<1>6. disk \subseteq disk' => Stored \subseteq Stored' BY DEF Stored
<1>7. disk' \subseteq disk => Stored' \subseteq Stored BY DEF Stored
<1>8. disk' = disk => Stored' = Stored BY DEF Stored
<1>9. ASSUME complete, factory'.finished = factory.finished
      PROVE  Owners' = Owners /\ \A c \in Chunks : Owners[c] = "done"
  BY <1>2, <1>9, SameOwners
<1>10. ASSUME UNCHANGED <<Owners, Stored, complete>> PROVE UNCHANGED Store!storeVars
  BY <1>10 DEF Store!storeVars, Owners, Stored
<1>11. ASSUME ~complete, ~complete', factory'.finished = factory.finished,
              Stored \subseteq Stored'
       PROVE  Store!Next
  <2>1. \A c \in Chunks : (Owners'[c] = "done") = (Owners[c] = "done") BY <1>3, <1>11
  <2>2. Store!Assign BY <1>3, <1>11, <2>1 DEF Store!Assign, Owners, Stored
  <2> QED BY <1>11, <2>2 DEF Store!Next, Store!Work
<1>12. CASE Still(Now', Now)
  <2>1. /\ factory'.finished = factory.finished /\ complete' = complete /\ disk' = disk
    BY <1>1, <1>12 DEF Still, Untouched
  <2>2. CASE complete BY <1>8, <1>9, <1>10, <2>1, <2>2
  <2>3. CASE ~complete BY <1>8, <1>11, <2>1, <2>3
  <2> QED BY <2>2, <2>3
<1>13. CASE Landed(Now', Now)
  <2>1. /\ factory'.finished = factory.finished /\ disk \subseteq disk'
        /\ \/ factory'.status = factory.status
           \/ factory.done /\ complete'
    BY <1>1, <1>2, <1>13 DEF Landed
  <2>2. CASE complete
    <3>1. complete' = complete /\ Stored' = Stored BY <1>4, <1>5, <2>1, <2>2
    <3> QED BY <1>9, <1>10, <2>1, <2>2, <3>1
  <2>3. CASE ~complete /\ ~complete' BY <1>6, <1>11, <2>1, <2>3
  <2>4. CASE ~complete /\ complete'
    <3>1. factory.finished = Chunks
      <4> DEFINE early == FALSE
      <4>1. Now \in Good(Excused, {}, Nowhere, early, {}) BY <1>2 DEF Orderly
      <4> HIDE DEF early
      <4>2. Now.factory.done BY <1>1, <2>1, <2>4
      <4> QED BY <1>1, <4>1, <4>2, DoneHasNoPlaces
    <3>2. \A c \in Chunks : Owners[c] = "done" /\ Owners'[c] = "done" BY <1>3, <2>1, <3>1
    <3>3. Owners' = Owners BY <1>3, <3>2
    <3>4. Store!Complete BY <1>5, <2>4, <3>2, <3>3 DEF Store!Complete, Owners, Stored
    <3> QED BY <3>4 DEF Store!Next
  <2> QED BY <2>2, <2>3, <2>4
<1>14. CASE Lost(Now', Now)
  <2>1. /\ complete /\ ~complete' /\ disk' \subseteq disk
        /\ \A c \in factory'.finished : ChunkUnits(c) \subseteq disk'
    BY <1>1, <1>2, <1>14 DEF Lost
  <2>2. \A c \in Chunks : Owners'[c] = "done" => c \in Stored' BY <1>3, <2>1 DEF Stored
  <2>3. Store!Reopen BY <1>3, <1>7, <2>1, <2>2 DEF Store!Reopen, Owners, Stored
  <2> QED BY <2>3 DEF Store!Next
<1>15. ASSUME NEW p \in Places(Now), Advanced(Now', Now, Held(At(Now, p)))
       PROVE  Store!Next
  <2> DEFINE m == p[1]
  <2>1. /\ disk' = disk /\ factory'.status = factory.status
        /\ factory.finished \subseteq factory'.finished
        /\ factory'.finished \subseteq factory.finished \cup Held(At(Now, p))
    BY <1>1, <1>15 DEF Advanced
  <2>2. ~complete /\ ~complete' BY <1>1, <1>2, <2>1, BusyIsUnfinished
  <2>3. m \in Mirrors /\ \A c \in Held(At(Now, p)) : Owners[c] = m BY <1>3
  <2> HIDE DEF m
  <2>4. \A c \in Chunks : IF Owners[c] = "done" THEN Owners'[c] = "done"
                          ELSE Owners'[c] = "done" => Owners[c] = m
    BY <1>3, <2>1, <2>3
  <2>5. Store!Finish(m)
    BY <1>3, <1>8, <2>1, <2>4 DEF Store!Finish, Owners, Stored
  <2> QED BY <2>2, <2>3, <2>5 DEF Store!Next, Store!Work
<1> QED BY <1>12, <1>13, <1>14, <1>15 DEF Moves

(* The engine implements ChunkStore, for any number of mirrors, connections and
   chunks: chunks are finished by the mirror that owns them, nothing that was
   written is lost, and the file is complete only when all of it is right, whatever
   fails, stops or is repaired, if no download is stopped while a segment waits to
   write and if the chunks a repair fetches again cover the damage. *)
THEOREM EngineImplementsStore ==
  ASSUME ~StopsWithData, RepairCovers, "done" \notin Mirrors
  PROVE  Spec => ImplementsStore
<1>1. ASSUME Init PROVE Store!Init
  <2>1. factory.finished = {} /\ factory.started = {} /\ factory.status = "Stopped" /\ disk = {}
    BY <1>1 DEF Init
  <2>2. Owners = [c \in Chunks |-> "nobody"] BY <2>1 DEF Owners, OwnerOf
  <2>3. Stored = {} BY <2>1, ChunksAreFilled DEF Stored
  <2> QED BY <2>1, <2>2, <2>3 DEF Store!Init, Owners, Stored
<1>2. ASSUME Inv PROVE OwnersFit BY <1>2, OwnersKnown
<1>3. ASSUME Inv, Inv', OwnersFit, OwnersFit', Moves(Now', Now)
      PROVE  [Store!Next]_Store!storeVars
  BY <1>3, StoreStep
<1> QED BY <1>1, <1>2, <1>3, InitInv, InvNext, PTL DEF Spec, ImplementsStore, Store!Spec

-----------------------------------------------------------------------------
(* Restarts *)

(* What a save wrote, and what can be said of it later *)
AnySave == [status : {"Stopped", "Running", "Finished"}, sized : BOOLEAN,
            finished : SUBSET Chunks, unused : Seq(Mirrors), used : SUBSET Mirrors,
            connections : [Mirrors -> Nat \ {0}], complete : BOOLEAN]
Sound(sv, L, s) ==
    /\ sv \in AnySave
    /\ ~sv.sized => sv.finished = {}
    /\ sv.status = "Finished" => sv.finished = Chunks /\ Mirrors # {}
    /\ Exact => \A c \in sv.finished : ChunkUnits(c) \subseteq Kept(L, s)

(* A download that nobody has started in this program *)
Resting(s) == s.factory.file = "none" /\ Idle(s) /\ ~Blocked(s)

(* A new DataSourceFactory, before it has a mirror *)
Blank(content) == [factory |-> NewFactory, source |-> [m \in Mirrors |-> NoSource],
                   disk |-> content]

LEMMA BlankDownload ==
  ASSUME NEW L, NEW content \in SUBSET Int, Exact => content \subseteq Units
  PROVE  /\ Blank(content) \in Orderly(L, Mirrors) /\ Idle(Blank(content))
         /\ Blank(content).disk = content /\ Blank(content).factory = NewFactory
<1> DEFINE s == Blank(content)
<1>1. /\ NewFactory \in AnyFactory /\ NewFactory.started = {} /\ NewFactory.finished = {}
      /\ NewFactory.file = "none" /\ ~NewFactory.known /\ ~NewFactory.done
      /\ NewFactory.status = "Stopped" /\ NewFactory.write = NoWrite
  <2> DEFINE none == {}
             list == <<>>
             b == FALSE
             x == "Stopped"
             o == "none"
             w == NoWrite
             f == [status |-> x, file |-> o, known |-> b, sized |-> b, startTried |-> b,
                   findTried |-> b, assignTried |-> b, done |-> b, started |-> none,
                   finished |-> none, unused |-> list, write |-> w]
  <2>1. /\ none \in SUBSET Chunks /\ list \in Seq(Mirrors) /\ b \in BOOLEAN /\ ~b
        /\ x \in {"Stopped", "Running", "Finished"} /\ o \in {"none", "opening", "open"}
        /\ w \in [offset : Int, data : Seq(Int)]
    BY NothingToWrite
  <2>2. f = NewFactory BY DEF NewFactory
  <2>3. none = {} /\ o = "none" /\ x = "Stopped" /\ w = NoWrite OBVIOUS
  <2> HIDE DEF none, list, b, x, o, w
  <2>4. /\ f \in AnyFactory /\ f.started = none /\ f.finished = none /\ f.file = o
        /\ f.known = b /\ f.done = b /\ f.status = x /\ f.write = w
    BY <2>1 DEF AnyFactory
  <2> HIDE DEF f
  <2> QED BY <2>1, <2>2, <2>3, <2>4
<1>2. NoSource \in AnySource /\ ~NoSource.running /\ NoSource.segments = <<>>
  <2> DEFINE list == <<>>
             b == FALSE
  <2>1. list \in Seq(AnySegment) /\ b \in BOOLEAN /\ ~b OBVIOUS
  <2>2. NoSource = [used |-> b, running |-> b, connections |-> MaxConnections, segments |-> list]
    BY DEF NoSource
  <2>3. list = <<>> OBVIOUS
  <2> HIDE DEF list, b
  <2> QED BY <2>1, <2>2, <2>3, SizesAssumption DEF AnySource
<1>3. /\ s \in State /\ s.factory = NewFactory /\ s.disk = content
      /\ \A m \in Mirrors : s.source[m] = NoSource
  <2> HIDE DEF NewFactory, NoSource
  <2> QED BY <1>1, <1>2 DEF State, Blank
<1> HIDE DEF s
<1>4. Recorded(L, s, {})
  <2>1. 0 \in Units /\ 0 + 0 <= FileSize BY SizesAssumption DEF Units
  <2> QED BY <1>1, <1>3, <2>1, NothingToWrite DEF Recorded
<1>5. Mirrored(s, Mirrors) BY <1>2, <1>3 DEF Mirrored
<1>6. Places(s) = {}
  <2>1. \A m \in Mirrors : Len(s.source[m].segments) = 0 BY <1>2, <1>3
  <2> QED BY <2>1 DEF Places
<1>7. Fitting(L, s, {}, Nowhere, FALSE) /\ Apart(s) BY <1>6 DEF Fitting, Apart
<1>8. Covered(s, {}) BY <1>1, <1>3 DEF Covered, Taken
<1>9. Idle(s) BY <1>2, <1>3 DEF Idle
<1> QED BY <1>3, <1>4, <1>5, <1>7, <1>8, <1>9 DEF Good, Orderly, s

(* What a factory has at first, and its first mirror does not change *)
Fresh(s, content) ==
    /\ s.factory.status = "Stopped" /\ s.factory.file = "none" /\ ~s.factory.known
    /\ ~s.factory.startTried /\ ~s.factory.done /\ s.factory.finished = {}
    /\ s.factory.write = NoWrite /\ s.disk = content

LEMMA CreatedDownload ==
  ASSUME MirrorOrder # <<>>, NEW L, NEW content \in SUBSET Int, Exact => content \subseteq Units
  PROVE  LET t == NewDownload(content)
         IN  t \in Orderly(L, Mirrors) /\ Idle(t) /\ Fresh(t, content)
<1> DEFINE s == Blank(content)
           m == MainSource
           n == MaxConnections
           b == TRUE
           early == FALSE
           D == Mirrors
           t == addMirror(s, m, b, n)
<1>1. s \in Good(L, {}, Nowhere, early, D) /\ Idle(s) /\ Fresh(s, content)
  <2>1. /\ s \in Orderly(L, Mirrors) /\ Idle(s) /\ s.disk = content /\ s.factory = NewFactory
    BY BlankDownload
  <2> HIDE DEF s
  <2>2. Fresh(s, content) BY <2>1 DEF Fresh, NewFactory
  <2> QED BY <2>1, <2>2 DEF Orderly
<1>2. m \in Mirrors
  <2>1. MirrorOrder \in Seq(Mirrors) BY MirrorsAssumption
  <2>2. Len(MirrorOrder) \in Nat /\ Len(MirrorOrder) # 0 BY <2>1
  <2>3. 1 \in 1 .. Len(MirrorOrder) BY <2>2
  <2> QED BY <2>1, <2>3 DEF MainSource
<1>3. n \in Nat \ {0} /\ b \in BOOLEAN /\ early = FALSE BY SizesAssumption
<1>4. NewDownload(content) = t BY DEF NewDownload, Blank
<1> HIDE DEF s, m, n, b, early, D
<1>5. /\ t \in Good(L, {}, Nowhere, early, D \ {m}) /\ Frame(t) = Frame(s)
      /\ Idle(s) /\ s.factory.file # "open" => Idle(t)
  <2>1. t \in Good(L, {}, Nowhere, early, D \ {m}) BY <1>1, <1>2, <1>3, AddedMirror
  <2>2. /\ t \in Good(L, {}, Nowhere, early, D \ {m}) /\ Frame(t) = Frame(s)
        /\ Lively(s) => Lively(t)
    BY <1>1, <1>2, <1>3, <2>1, AddedMirror
  <2>3. Idle(s) /\ s.factory.file # "open" => Idle(t) BY <1>1, <1>2, <1>3, AddedMirror
  <2> QED BY <2>1, <2>2, <2>3
<1> HIDE DEF t
<1>6. t \in Good(L, {}, Nowhere, early, D)
  <2>1. D \ {m} \subseteq D OBVIOUS
  <2> QED BY <1>5, <2>1, MoreOpen
<1>7. Fresh(t, content) BY <1>1, <1>5, FrameFields DEF Fresh
<1>8. s.factory.file # "open" BY <1>1 DEF Fresh
<1> QED BY <1>1, <1>3, <1>4, <1>5, <1>6, <1>7, <1>8 DEF Orderly, D

(* The chunks of a save are begun and finished. *)
LEMMA LoadedChunks ==
  ASSUME NEW L, NEW s \in Orderly(L, Mirrors), s.factory.file = "none", ~s.factory.known,
         ~s.factory.done, NEW sv \in AnySave, ~sv.sized => sv.finished = {},
         Exact => \A c \in sv.finished : ChunkUnits(c) \subseteq Kept(L, s)
  PROVE  LET t == LoadChunks(s, sv)
         IN  /\ t \in Orderly(L, Mirrors) /\ t.source = s.source /\ t.disk = s.disk
             /\ t.factory.finished = sv.finished /\ t.factory.write = s.factory.write
             /\ t.factory.status = s.factory.status /\ t.factory.file = s.factory.file
             /\ t.factory.startTried = s.factory.startTried
<1> DEFINE early == FALSE
           z == sv.sized
           F == sv.finished
           k == s.factory.known \/ z
           f == [s.factory EXCEPT !.sized = z, !.started = F, !.finished = F, !.known = k]
           t == [factory |-> f, source |-> s.source, disk |-> s.disk]
<1>1. s \in State /\ Recorded(L, s, {}) /\ Mirrored(s, Mirrors) /\ s \in Good(L, {}, Nowhere, early, Mirrors)
  BY DEF Orderly, Good
<1>2. z \in BOOLEAN /\ F \in SUBSET Chunks /\ k \in BOOLEAN BY DEF AnySave
<1>3. s.factory \in AnyFactory BY <1>1, Parts
<1>4. LoadChunks(s, sv) = t
  <2> DEFINE a == [s EXCEPT !.factory.sized = z, !.factory.started = F, !.factory.finished = F]
             g == [s.factory EXCEPT !.sized = z, !.started = F, !.finished = F]
  <2>2. LoadChunks(s, sv) = init(a) BY DEF LoadChunks
  <2> HIDE DEF z, F
  <2>1. a = [factory |-> g, source |-> s.source, disk |-> s.disk]
    <3> DEFINE a1 == [s EXCEPT !.factory.sized = z]
               g1 == [s.factory EXCEPT !.sized = z]
               a2 == [a1 EXCEPT !.factory.started = F]
               g2 == [g1 EXCEPT !.started = F]
               a3 == [a2 EXCEPT !.factory.finished = F]
               g3 == [g2 EXCEPT !.finished = F]
    <3>1. a = a3 OBVIOUS
    <3>2. g = g3 OBVIOUS
    <3>3. a1 = [factory |-> g1, source |-> s.source, disk |-> s.disk] BY <1>1 DEF State
    <3> HIDE DEF a1, g1
    <3>4. a2 = [factory |-> g2, source |-> s.source, disk |-> s.disk] BY <3>3
    <3> HIDE DEF a2, g2
    <3>5. a3 = [factory |-> g3, source |-> s.source, disk |-> s.disk] BY <3>4
    <3> QED BY <3>1, <3>2, <3>5
  <2> HIDE DEF a
  <2>3. init(a) = [factory |-> [g EXCEPT !.known = a.factory.known \/ a.factory.sized],
                   source |-> s.source, disk |-> s.disk]
    <3> HIDE DEF g
    <3> QED BY <2>1 DEF init
  <2>4. a.factory.known = s.factory.known /\ a.factory.sized = z
    BY <1>3, <2>1 DEF AnyFactory
  <2>5. [g EXCEPT !.known = k] = f BY <1>3 DEF AnyFactory
  <2> HIDE DEF g, f
  <2> QED BY <2>2, <2>3, <2>4, <2>5
<1>5. k = z /\ (~z => F = {}) /\ (Exact => \A c \in F : ChunkUnits(c) \subseteq Kept(L, s))
  BY <1>2
<1>6. F = sv.finished OBVIOUS
<1> HIDE DEF z, F, k
<1>7. /\ f \in AnyFactory /\ f.sized = z /\ f.started = F /\ f.finished = F /\ f.known = k
      /\ f.status = s.factory.status /\ f.file = s.factory.file /\ f.done = s.factory.done
      /\ f.startTried = s.factory.startTried /\ f.write = s.factory.write
      /\ f.unused = s.factory.unused
  BY <1>2, <1>3 DEF AnyFactory
<1> HIDE DEF f
<1>8. t \in State /\ t.factory = f /\ t.source = s.source /\ t.disk = s.disk
  BY <1>1, <1>7, OtherFactory
<1> HIDE DEF t
<1>9. Kept(L, t) = Kept(L, s) BY <1>7, <1>8 DEF Kept
<1>10. Recorded(L, t, {}) BY <1>1, <1>5, <1>7, <1>8, <1>9 DEF Recorded
<1>11. Mirrored(t, Mirrors) BY <1>1, <1>7, <1>8 DEF Mirrored
<1>12. Places(t) = {}
  <2>1. ASSUME NEW p \in Places(s) PROVE FALSE
    <3>1. ~At(s, p).finding BY <1>1, NoSearch
    <3>2. /\ At(s, p).cur \in Chunks /\ At(s, p).cur <= At(s, p).end
          /\ Held(At(s, p)) = At(s, p).cur .. At(s, p).end
          /\ Held(At(s, p)) \subseteq Taken(s, {})
      BY <1>1, <3>1, ChunkFacts
    <3>3. At(s, p).cur \in Held(At(s, p)) BY <3>2 DEF Chunks
    <3>4. s.factory.started = {} BY <1>1 DEF Recorded
    <3> QED BY <3>2, <3>3, <3>4 DEF Taken
  <2> QED BY <1>8, <2>1 DEF Places
<1>13. Fitting(L, t, {}, Nowhere, FALSE) /\ Apart(t) BY <1>12 DEF Fitting, Apart
<1>14. Covered(t, {}) BY <1>7, <1>8 DEF Covered, Taken
<1> QED BY <1>4, <1>6, <1>7, <1>8, <1>10, <1>11, <1>13, <1>14 DEF Good, Orderly

(* The mirrors of a save are added one after the other. *)
LEMMA LoadedMirrors ==
  ASSUME NEW L, NEW s \in Orderly(L, Mirrors), Idle(s), s.factory.file = "none",
         NEW sv \in AnySave, NEW list \in Seq(Mirrors), NEW used \in BOOLEAN
  PROVE  LET t == LoadMirrors(s, sv, list, used)
         IN  t \in Orderly(L, Mirrors) /\ Frame(t) = Frame(s) /\ Idle(t)
<1> DEFINE N == Len(list)
           early == FALSE
           D == Mirrors
           A == {t \in Good(L, {}, Nowhere, early, D) : Frame(t) = Frame(s) /\ Idle(t)}
           Step(t, m) == addMirror(t, m, used, sv.connections[m])
           Loop(f) == f = [n \in 0 .. N |-> IF n = 0 THEN s ELSE Step(f[n - 1], list[n])]
           after == CHOOSE f : Loop(f)
           step == [p \in A \X (1 .. N) |-> Step(p[1], list[p[2]])]
<1>1. N \in Nat /\ \A n \in 1 .. N : list[n] \in Mirrors OBVIOUS
<1>2. s \in A BY DEF Orderly
<1>3. early = FALSE /\ D = Mirrors OBVIOUS
<1> HIDE DEF early, D
<1>4. ASSUME NEW t \in A, NEW m \in Mirrors PROVE Step(t, m) \in A
  <2> DEFINE number == sv.connections[m]
             u == addMirror(t, m, used, number)
  <2>1. number \in Nat \ {0} BY DEF AnySave
  <2> HIDE DEF number
  <2>2. t \in Good(L, {}, Nowhere, early, D) /\ Frame(t) = Frame(s) /\ Idle(t) OBVIOUS
  <2> HIDE DEF A
  <2>3. u \in Good(L, {}, Nowhere, early, D \ {m}) BY <2>1, <2>2, AddedMirror
  <2>4. /\ u \in Good(L, {}, Nowhere, early, D \ {m}) /\ Frame(u) = Frame(t)
        /\ Lively(t) => Lively(u)
    BY <2>1, <2>2, <2>3, AddedMirror
  <2>5. Idle(t) /\ t.factory.file # "open" => Idle(u) BY <2>1, <2>2, AddedMirror
  <2>6. Step(t, m) = u BY DEF number
  <2> HIDE DEF u, Step
  <2>7. t.factory.file = "none" BY <2>2, FrameFields
  <2>8. D \ {m} \subseteq D OBVIOUS
  <2>9. u \in Good(L, {}, Nowhere, early, D) BY <2>4, <2>8, MoreOpen
  <2> QED BY <2>2, <2>4, <2>5, <2>6, <2>7, <2>9 DEF A
<1> HIDE DEF A, Step
<1>5. step \in [A \X (1 .. N) -> A] BY <1>1, <1>4
<1>6. \A t \in A, n \in 1 .. N : step[<<t, n>>] = Step(t, list[n]) OBVIOUS
<1> HIDE DEF step
<1>7. Iterations(A, s, N, step) # {} BY <1>1, <1>2, <1>5, IterationsExist
<1>8. PICK g : Loop(g)
  <2>1. PICK g \in Iterations(A, s, N, step) : TRUE BY <1>7
  <2>2. \A n \in 1 .. N : n - 1 \in 0 .. N BY <1>1
  <2>3. \A n \in 1 .. N : g[n] = Step(g[n - 1], list[n])
    BY <1>6, <2>2 DEF Iterations
  <2>4. Loop(g) BY <1>1, <2>3 DEF Iterations
  <2> QED BY <2>4
<1>9. Loop(after) BY <1>8
<1> HIDE DEF after, N
<1>10. after[0] = s BY <1>1, <1>9
<1>11. \A n \in 1 .. N : after[n] = Step(after[n - 1], list[n])
  <2>1. \A n \in 1 .. N : n \in 0 .. N /\ n # 0 BY <1>1
  <2> QED BY <1>9, <2>1
<1>12. \A n \in 1 .. N : after[n - 1] \in A => after[n] \in A BY <1>1, <1>4, <1>11
<1>13. \A n \in 0 .. N : after[n] \in A BY <1>1, <1>2, <1>10, <1>12, IterationsStay
<1>14. after[N] \in A BY <1>1, <1>13
<1>15. LoadMirrors(s, sv, list, used) = after[N]
  BY DEF LoadMirrors, ForEach, after, Step, N
<1> QED BY <1>3, <1>14, <1>15 DEF A, Orderly

(* A program that ended goes on with what was saved, and with the file as it is. *)
LEMMA LoadedDownload ==
  ASSUME MirrorOrder # <<>>, NEW L, NEW content \in SUBSET Int, Exact => content \subseteq Units,
         NEW sv \in AnySave, ~sv.sized => sv.finished = {},
         sv.status = "Finished" => sv.finished = Chunks /\ Mirrors # {},
         Exact => \A c \in sv.finished : ChunkUnits(c) \subseteq content \cup L
  PROVE  LET t == load(NewDownload(content), sv)
         IN  /\ t \in Orderly(L, Mirrors) /\ Complete(L, t) /\ Resting(t)
             /\ t.disk = content /\ t.factory.write = NoWrite
<1> DEFINE a == NewDownload(content)
           b == LoadChunks(a, sv)
           all == Among(MirrorOrder, sv.used)
           c == LoadMirrors(b, sv, all, TRUE)
           d == LoadMirrors(c, sv, sv.unused, FALSE)
           x == sv.status
           t == WithStatus(d, x)
<1>1. load(a, sv) = t BY DEF load, WithStatus
<1>2. a \in Orderly(L, Mirrors) /\ Idle(a) /\ Fresh(a, content) BY CreatedDownload
<1> HIDE DEF a
<1>3. Kept(L, a) = content \cup L BY <1>2, NothingToWrite DEF Kept, Fresh
<1>4. /\ b \in Orderly(L, Mirrors) /\ b.source = a.source /\ b.disk = a.disk
      /\ b.factory.finished = sv.finished /\ b.factory.write = a.factory.write
      /\ b.factory.status = a.factory.status /\ b.factory.file = a.factory.file
      /\ b.factory.startTried = a.factory.startTried
  <2>1. a.factory.file = "none" /\ ~a.factory.known /\ ~a.factory.done BY <1>2 DEF Fresh
  <2>2. Exact => \A k \in sv.finished : ChunkUnits(k) \subseteq Kept(L, a) BY <1>3
  <2> QED BY <1>2, <2>1, <2>2, LoadedChunks
<1> HIDE DEF b
<1>5. /\ b.factory.file = "none" /\ Idle(b) /\ b.disk = content /\ b.factory.write = NoWrite
      /\ b.factory.status = "Stopped"
  BY <1>2, <1>4 DEF Fresh, Idle
<1>6. all \in Seq(Mirrors) /\ sv.unused \in Seq(Mirrors) /\ x \in {"Stopped", "Running", "Finished"}
  BY MirrorsAssumption, AmongFacts DEF AnySave
<1> HIDE DEF all
<1>7. c \in Orderly(L, Mirrors) /\ Frame(c) = Frame(b) /\ Idle(c)
  <2> DEFINE yes == TRUE
  <2>1. yes \in BOOLEAN OBVIOUS
  <2> HIDE DEF yes
  <2>2. LET u == LoadMirrors(b, sv, all, yes)
        IN  u \in Orderly(L, Mirrors) /\ Frame(u) = Frame(b) /\ Idle(u)
    BY <1>4, <1>5, <1>6, <2>1, LoadedMirrors
  <2> QED BY <2>2 DEF yes
<1> HIDE DEF c
<1>8. c.factory.file = "none" BY <1>5, <1>7, FrameFields
<1>9. d \in Orderly(L, Mirrors) /\ Frame(d) = Frame(c) /\ Idle(d)
  <2> DEFINE no == FALSE
             list == sv.unused
  <2>1. no \in BOOLEAN /\ list \in Seq(Mirrors) BY <1>6
  <2> HIDE DEF no, list
  <2>2. LET u == LoadMirrors(c, sv, list, no)
        IN  u \in Orderly(L, Mirrors) /\ Frame(u) = Frame(c) /\ Idle(u)
    BY <1>7, <1>8, <2>1, LoadedMirrors
  <2> QED BY <2>2 DEF no, list
<1> HIDE DEF d
<1>10. /\ d.factory.file = "none" /\ d.disk = content /\ d.factory.write = NoWrite
       /\ d.factory.status = "Stopped" /\ d.factory.finished = sv.finished
  BY <1>4, <1>5, <1>7, <1>9, FrameFields
<1>11. x = sv.status OBVIOUS
<1> HIDE DEF x
<1>12. /\ t \in Orderly(L, Mirrors) /\ t.factory.status = x /\ t.source = d.source
       /\ t.factory.done = d.factory.done /\ Untouched(t, d)
  <2>1. d.factory.status # "Running" BY <1>10
  <2> QED BY <1>6, <1>9, <2>1, StatusSet
<1>13. t.factory.file = "none"
  <2>1. d \in State BY <1>9 DEF Orderly, Good
  <2>2. t.factory.file = d.factory.file BY <2>1 DEF WithStatus, State, AnyFactory
  <2> QED BY <1>10, <2>2
<1> HIDE DEF t
<1>14. /\ t.disk = content /\ t.factory.write = NoWrite /\ t.factory.finished = sv.finished
  BY <1>10, <1>12 DEF Untouched
<1>15. Idle(t) BY <1>9, <1>12 DEF Idle
<1>16. Resting(t) BY <1>13, <1>14, <1>15 DEF Resting, Blocked
<1>17. Complete(L, t)
  <2>1. SUFFICES ASSUME t.factory.status = "Finished"
                 PROVE  /\ t.factory.finished = Chunks /\ Mirrors # {}
                        /\ Exact => Units \subseteq t.disk \cup L
    BY DEF Complete
  <2>2. t.factory.finished = Chunks /\ Mirrors # {} BY <1>11, <1>12, <1>14, <2>1
  <2>3. ASSUME Exact PROVE Units \subseteq t.disk \cup L
    <3>1. \A k \in Chunks : ChunkUnits(k) \subseteq t.disk \cup L BY <1>14, <2>2, <2>3
    <3>2. \A u \in Units : \E k \in Chunks : u \in ChunkUnits(k) BY UnitsOfChunks
    <3> QED BY <3>1, <3>2
  <2> QED BY <2>2, <2>3
<1> QED BY <1>1, <1>12, <1>14, <1>16, <1>17 DEF a

(* What the transfer knows of the status of its factory.  Nothing was told of one that
   was loaded. *)
Led(x, s) ==
    /\ Lively(s) \/ (Resting(s) /\ x # "Running")
    /\ x = "Running" => s.factory.status = "Running"
    /\ Going(s) => x = "Running" \/ Resting(s)

RestartInv == /\ Now \in Orderly(lost, Mirrors) /\ Complete(lost, Now)
              /\ Led(transfer, Now) /\ Sound(saved, lost, Now)

LEMMA RemainsSound ==
  ASSUME NEW sv, NEW L, NEW M, NEW s, NEW t, Sound(sv, L, s),
         Exact => Kept(L, s) \subseteq Kept(M, t)
  PROVE  Sound(sv, M, t)
BY DEF Sound

LEMMA StillGrows ==
  ASSUME NEW s, NEW t, Untouched(t, s)
  PROVE  Grows(t, s)
BY DEF Grows, Untouched

(* A call that loses nothing leaves a state of the invariant behind. *)
LEMMA Resumed ==
  ASSUME Sound(saved, lost, Now), NEW t \in Orderly(lost, Mirrors), Complete(lost, t),
         Led(transfer', t), Grows(t, Now), Becomes(t), Stays
  PROVE  RestartInv'
<1>1. t = [factory |-> t.factory, source |-> t.source, disk |-> t.disk] BY DEF Orderly, Good, State
<1>2. Now' = t BY <1>1 DEF Becomes, Now
<1>3. lost' = lost /\ saved' = saved BY DEF Stays
<1>4. Exact => Kept(lost, Now) \subseteq Kept(lost, t) BY DEF Grows, Kept
<1>5. Sound(saved, lost, t) BY <1>4, RemainsSound
<1> QED BY <1>2, <1>3, <1>5 DEF RestartInv

(* No answer comes to a download that was not started. *)
LEMMA RestingHasNoJobs ==
  ASSUME Exact, NEW L, NEW D, NEW s \in Orderly(L, D), Resting(s), NEW p \in Places(s)
  PROVE  At(s, p).job = "none" /\ At(s, p).timers = 0
<1> DEFINE early == FALSE
<1>1. s \in Good(L, {}, Nowhere, early, D) /\ early = FALSE BY DEF Orderly
<1> HIDE DEF early
<1>2. ~At(s, p).finding
  <2>1. s.factory.file # "open" BY DEF Resting
  <2> QED BY <1>1, <2>1, NoSearch
<1>3. p[1] \in Mirrors BY <1>1, ChunkFacts
<1>4. s.source[p[1]].running \/ Rests(At(s, p), early) BY <1>1 DEF Good, Fitting, Fits
<1>5. ~s.source[p[1]].running BY <1>3 DEF Resting, Idle
<1> QED BY <1>1, <1>2, <1>4, <1>5 DEF Rests

(* What is saved is right, and counts as much as what is there. *)
LEMMA SavedIsSound ==
  ASSUME NEW L, NEW D, Now \in Orderly(L, D), Complete(L, Now)
  PROVE  Sound(Saved, L, Now)
<1>1. Now \in State /\ Recorded(L, Now, {}) BY DEF Orderly, Good
<1>2. Now.factory = factory /\ Now.source = source BY DEF Now
<1> HIDE DEF Now
<1>3. factory \in AnyFactory /\ \A m \in Mirrors : source[m] \in AnySource BY <1>1, <1>2, Parts
<1>4. /\ Saved \in AnySave /\ Saved.status = factory.status /\ Saved.sized = factory.sized
      /\ Saved.finished = factory.finished
  <2> DEFINE x == factory.status
             z == factory.sized
             F == factory.finished
             q == factory.unused
             U == {m \in Mirrors : source[m].used}
             g == [m \in Mirrors |-> source[m].connections]
             b == factory.sized /\ downloaded = FileSize
             sv == [status |-> x, sized |-> z, finished |-> F, unused |-> q, used |-> U,
                    connections |-> g, complete |-> b]
  <2>1. /\ x \in {"Stopped", "Running", "Finished"} /\ z \in BOOLEAN /\ F \in SUBSET Chunks
        /\ q \in Seq(Mirrors)
    BY <1>3 DEF AnyFactory
  <2>2. g \in [Mirrors -> Nat \ {0}] BY <1>3 DEF AnySource
  <2>3. U \in SUBSET Mirrors /\ b \in BOOLEAN BY <2>1
  <2>4. Saved = sv BY DEF Saved
  <2>5. x = factory.status /\ z = factory.sized /\ F = factory.finished OBVIOUS
  <2> HIDE DEF x, z, F, q, U, g, b
  <2>6. sv \in AnySave /\ sv.status = x /\ sv.sized = z /\ sv.finished = F
    BY <2>1, <2>2, <2>3 DEF AnySave
  <2> HIDE DEF sv
  <2> QED BY <2>4, <2>5, <2>6
<1> HIDE DEF Saved
<1>5. ~factory.sized => factory.finished = {} BY <1>1, <1>2 DEF Recorded
<1>6. factory.status = "Finished" => factory.finished = Chunks /\ Mirrors # {}
  BY <1>2 DEF Complete
<1>7. Exact => \A c \in factory.finished : ChunkUnits(c) \subseteq Kept(L, Now)
  BY <1>1, <1>2 DEF Recorded
<1> QED BY <1>4, <1>5, <1>6, <1>7 DEF Sound

(* A start of a transfer that does not run: its factory may say that it does, when it
   was loaded or when it remembers a start. *)
LEMMA StartedAgain ==
  ASSUME NEW L, NEW D, NEW s \in Orderly(L, D), Complete(L, s), NEW x, x # "Running", Led(x, s)
  PROVE  /\ start(s) \in Orderly(L, D) /\ Complete(L, start(s)) /\ Still(start(s), s)
         /\ Lively(start(s)) /\ start(s).factory.status \in {s.factory.status, "Running"}
<1>1. CASE s.factory.status # "Running" BY <1>1, Begun
<1>2. CASE s.factory.status = "Running"
  <2> DEFINE early == FALSE
  <2>1. s \in Good(L, {}, Nowhere, early, D) /\ early \in BOOLEAN /\ ~early BY DEF Orderly
  <2> HIDE DEF early
  <2>2. Mirrored(s, D) BY <2>1 DEF Good
  <2>3. Going(s) => Resting(s) BY DEF Led
  <2>4. Idle(s) /\ (s.factory.file = "open" => Quiet(s))
    BY <1>2, <2>2, <2>3 DEF Idle, Quiet, Mirrored, Going, Resting
  <2>5. /\ start(s) \in Orderly(L, D) /\ start(s).factory.status \in {s.factory.status, "Running"}
        /\ Untouched(start(s), s) /\ Lively(start(s))
    BY <1>2, <2>1, <2>4, StartedDownload
  <2> QED BY <1>2, <2>5 DEF Complete, Still
<1> QED BY <1>1, <1>2

(* The transfer is told the status with which a download goes on. *)
LEMMA ToldStatus ==
  ASSUME NEW x, NEW s, NEW t, Led(x, s), s.factory = factory, transfer = x, Becomes(t),
         TransferFollows, Lively(t), t.factory.status \in {s.factory.status, "Running"}
  PROVE  Led(transfer', t)
<1>1. t.factory = factory' BY DEF Becomes
<1>2. CASE StartIsTold
  <2>1. transfer' = t.factory.status BY <1>1, <1>2 DEF TransferFollows
  <2> QED BY <2>1 DEF Led, Going
<1>3. CASE ~StartIsTold
  <2>1. transfer' = transfer /\ ~Going(t) BY <1>1, <1>3 DEF TransferFollows, StartIsTold, Going
  <2>2. x = "Running" => t.factory.status = "Running" BY DEF Led
  <2> QED BY <2>1, <2>2 DEF Led
<1> QED BY <1>2, <1>3

LEMMA RestartInitInv ==
  ASSUME MirrorOrder # <<>>, RestartInit
  PROVE  RestartInv
<1> DEFINE none == {}
           t == NewDownload(none)
<1>1. none \in SUBSET Int /\ (Exact => none \subseteq Units) /\ none = {} OBVIOUS
<1>2. factory = t.factory /\ source = t.source /\ disk = none BY DEF RestartInit
<1>3. transfer = "Stopped" /\ saved = Saved /\ lost = {} BY DEF RestartInit
<1> HIDE DEF none
<1>4. t \in Orderly(lost, Mirrors) /\ Idle(t) /\ Fresh(t, none) BY <1>1, CreatedDownload
<1> HIDE DEF t
<1>5. Now = t
  <2>1. t = [factory |-> t.factory, source |-> t.source, disk |-> t.disk]
    BY <1>4 DEF Orderly, Good, State
  <2> QED BY <1>2, <1>4, <2>1 DEF Now, Fresh
<1>6. Complete(lost, Now) /\ Lively(Now) /\ ~Going(Now)
  BY <1>4, <1>5 DEF Complete, Lively, Going, Fresh
<1>7. Led(transfer, Now) BY <1>3, <1>6 DEF Led
<1>8. Now \in Orderly(lost, Mirrors) BY <1>4, <1>5
<1>9. Sound(saved, lost, Now) BY <1>3, <1>6, <1>8, SavedIsSound
<1> QED BY <1>6, <1>7, <1>8, <1>9 DEF RestartInv

(* The commands of the user and of the scheduler *)
LEMMA RestartCommands ==
  ASSUME Exact, RestartInv, StartTransfer \/ StopTransfer \/ RestartStalled
  PROVE  RestartInv'
<1> DEFINE L == lost
           D == Mirrors
<1>1. /\ Now \in Orderly(L, D) /\ Complete(L, Now) /\ Led(transfer, Now)
      /\ Sound(saved, lost, Now) /\ D = Mirrors /\ L = lost
  BY DEF RestartInv
<1>2. Now.factory = factory /\ Now.source = source BY DEF Now
<1> HIDE DEF L, D, Now
<1>3. CASE StartTransfer
  <2> DEFINE t == start(Now)
  <2>1. Becomes(t) /\ TransferFollows /\ Stays /\ transfer # "Running" BY <1>3 DEF StartTransfer
  <2>2. /\ t \in Orderly(L, D) /\ Complete(L, t) /\ Still(t, Now) /\ Lively(t)
        /\ t.factory.status \in {Now.factory.status, "Running"}
    BY <1>1, <2>1, StartedAgain
  <2> HIDE DEF t
  <2>3. Led(transfer', t) BY <1>1, <1>2, <2>1, <2>2, ToldStatus
  <2> QED BY <1>1, <2>1, <2>2, <2>3, StillGrows, Resumed DEF Still
<1>4. CASE StopTransfer
  <2> DEFINE t == stop(Now)
  <2>1. /\ Becomes(t) /\ transfer' = "Stopped" /\ Stays /\ Now.factory.status # "Finished"
        /\ \A c \in Connections : ~Waiting(c)
    BY <1>2, <1>4 DEF StopTransfer, Exact
  <2>2. \A p \in Places(Now) : At(Now, p).timers = 0 BY <1>1, <2>1, NobodyWaits
  <2>3. /\ t \in Orderly(L, D) /\ Complete(L, t) /\ Still(t, Now) /\ Lively(t)
        /\ t.factory.status = "Stopped"
    BY <1>1, <2>1, <2>2, Halted
  <2> HIDE DEF t
  <2>4. Led(transfer', t) BY <2>1, <2>3 DEF Led, Going
  <2> QED BY <1>1, <2>1, <2>3, <2>4, StillGrows, Resumed DEF Still
<1>5. CASE RestartStalled
  <2> DEFINE u == stop(Now)
             t == start(u)
  <2>1. /\ Now.factory.status = "Running" /\ Becomes(t) /\ transfer' = factory'.status /\ Stays
        /\ \A c \in Connections : ~Waiting(c)
    BY <1>2, <1>5 DEF RestartStalled, Restart, Stalled
  <2>2. \A p \in Places(Now) : At(Now, p).timers = 0 BY <1>1, <2>1, NobodyWaits
  <2>3. u \in Orderly(L, D) /\ Complete(L, u) /\ Still(u, Now) /\ u.factory.status = "Stopped"
    BY <1>1, <2>1, <2>2, Halted
  <2> HIDE DEF u
  <2>4. t \in Orderly(L, D) /\ Complete(L, t) /\ Still(t, u) /\ Lively(t)
    BY <2>3, Begun
  <2> HIDE DEF t
  <2>5. Led(transfer', t) BY <2>1, <2>4 DEF Led, Going, Becomes
  <2>6. Grows(t, Now) BY <2>3, <2>4 DEF Still, Untouched, Grows
  <2> QED BY <1>1, <2>1, <2>4, <2>5, <2>6, Resumed
<1> QED BY <1>3, <1>4, <1>5

(* The answers of the file and of the servers, and the dialog of the mirrors *)
LEMMA RestartContinues ==
  ASSUME Exact, RestartInv, Continues
  PROVE  RestartInv'
<1> DEFINE L == lost
           D == Mirrors
<1>1. /\ Now \in Orderly(L, D) /\ Complete(L, Now) /\ Led(transfer, Now)
      /\ Sound(saved, lost, Now) /\ D = Mirrors /\ L = lost /\ Stays /\ Continue
  BY DEF RestartInv, Continues
<1>2. Now.factory = factory /\ Now.source = source BY DEF Now
<1> HIDE DEF L, D, Now
<1>3. CASE Opened /\ TransferFollows
  <2> DEFINE t == open(Now)
  <2>1. Now.factory.file = "opening" /\ Becomes(t) BY <1>2, <1>3 DEF Opened
  <2>2. Lively(Now) BY <1>1, <2>1 DEF Led, Resting
  <2>3. /\ t \in Orderly(L, D) /\ Complete(L, t) /\ Still(t, Now) /\ Lively(t)
        /\ t.factory.status \in {Now.factory.status, "Running"}
    BY <1>1, <2>1, <2>2, FileOpened
  <2> HIDE DEF t
  <2>4. Led(transfer', t) BY <1>1, <1>2, <1>3, <2>1, <2>3, ToldStatus
  <2> QED BY <1>1, <2>1, <2>3, <2>4, StillGrows, Resumed DEF Still
<1>4. ASSUME NEW m \in Mirrors, NEW used \in BOOLEAN, NEW n \in 1 .. MaxConnections,
             SetMirrors(m, used, n), transfer' = transfer
      PROVE  RestartInv'
  <2>1. PICK t \in Orderly(L, {}) :
            /\ Becomes(t) /\ Frame(t) = Frame(Now) /\ (Lively(Now) => Lively(t))
            /\ Idle(Now) /\ Now.factory.file # "open" => Idle(t)
    BY <1>1, <1>4, MirrorsSet
  <2>2. t \in Orderly(L, D)
    <3> DEFINE early == FALSE
               none == {}
    <3>1. t \in Good(L, {}, Nowhere, early, none) /\ none \subseteq D BY <2>1 DEF Orderly
    <3> HIDE DEF early, none
    <3>2. t \in Good(L, {}, Nowhere, early, D) BY <3>1, MoreOpen
    <3> QED BY <3>2 DEF Orderly, early
  <2>3. Complete(L, t) /\ Still(t, Now) BY <1>1, <2>1, FrameComplete
  <2>4. /\ t.factory.status = Now.factory.status /\ t.factory.file = Now.factory.file
        /\ t.factory.startTried = Now.factory.startTried
        /\ t.factory.write = Now.factory.write
    BY <2>1, FrameFields
  <2>5. Going(t) = Going(Now) BY <2>4 DEF Going
  <2>6. Resting(Now) => Resting(t) BY <2>1, <2>4 DEF Resting, Blocked
  <2>7. Led(transfer', t) BY <1>1, <1>4, <2>1, <2>4, <2>5, <2>6 DEF Led
  <2> QED BY <1>1, <2>1, <2>2, <2>3, <2>7, StillGrows, Resumed DEF Still
<1>5. ASSUME NEW c \in Connections,
             \/ SizeFound(c[1], c[2]) /\ TransferFollows
             \/ /\ \/ Data(c[1], c[2]) \/ WriteRest(c[1], c[2])
                   \/ JobFails(c[1], c[2]) \/ JobEnds(c[1], c[2])
                /\ transfer' = transfer
      PROVE  RestartInv'
  <2> DEFINE m == c[1]
             i == c[2]
  <2>1. /\ m \in Mirrors /\ i \in Nat \ {0} /\ <<m, i>> \in Places(Now)
        /\ Seg(Now, m, i) = At(Now, <<m, i>>)
        /\ Seg(Now, <<m, i>>[1], <<m, i>>[2]) = Seg(Now, m, i)
    BY <1>1, ConnectionPlaces
  <2>2. Active(<<m, i>>) => At(Now, <<m, i>>).job # "none" BY <2>1 DEF Active
  <2>3. Waiting(<<m, i>>) => At(Now, <<m, i>>).timers > 0 BY <2>1 DEF Waiting
  <2>4. Now.factory.status # "Finished" BY <1>1, <2>1, BusyIsUnfinished
  <2> HIDE DEF m, i
  <2>5. Active(<<m, i>>) \/ Waiting(<<m, i>>)
    BY <1>5 DEF SizeFound, Data, WriteRest, JobFails, JobEnds, m, i
  <2>6. Lively(Now)
    <3>1. ~Resting(Now) BY <1>1, <2>1, <2>2, <2>3, <2>5, RestingHasNoJobs
    <3> QED BY <1>1, <3>1 DEF Led
  <2>7. CASE SizeFound(m, i) /\ TransferFollows
    <3> DEFINE t == slotFoundFileSize(Now, m, i)
    <3>1. At(Now, <<m, i>>).finding /\ At(Now, <<m, i>>).job = "active" /\ Becomes(t)
      BY <2>1, <2>7 DEF SizeFound, Active
    <3>2. t \in Orderly(L, D) /\ t.factory.status = "Running" /\ Untouched(t, Now) /\ Lively(t)
      BY <1>1, <2>1, <3>1, SizeWasFound
    <3> HIDE DEF t
    <3>3. Complete(L, t) BY <3>2 DEF Complete
    <3>4. Led(transfer', t) BY <1>1, <1>2, <2>7, <3>1, <3>2, ToldStatus
    <3> QED BY <1>1, <3>1, <3>2, <3>3, <3>4, StillGrows, Resumed
  <2>8. ASSUME NEW t \in Orderly(L, D), Becomes(t), Lively(t), transfer' = transfer,
               Advanced(t, Now, Held(At(Now, <<m, i>>)))
        PROVE  RestartInv'
    <3>1. Complete(L, t) BY <2>4, <2>8 DEF Complete, Advanced
    <3>2. Going(t) => Going(Now) /\ ~Resting(Now)
      BY <1>1, <2>1, <2>2, <2>3, <2>5, <2>8, RestingHasNoJobs DEF Going, Advanced
    <3>3. Led(transfer', t) BY <1>1, <2>8, <3>2 DEF Led, Advanced
    <3>4. Grows(t, Now) BY <2>8 DEF Advanced
    <3> QED BY <1>1, <2>8, <3>1, <3>3, <3>4, Resumed
  <2>9. CASE Data(m, i) /\ transfer' = transfer
    <3> DEFINE t == slotData(Now, m, i, Seg(Now, m, i).pos)
    <3>1. /\ ~At(Now, <<m, i>>).finding /\ At(Now, <<m, i>>).pos < FileSize
          /\ At(Now, <<m, i>>).job # "none" /\ Becomes(t)
      BY <2>1, <2>2, <2>9 DEF Data
    <3>2. /\ t \in Orderly(L, D) /\ Advanced(t, Now, Held(At(Now, <<m, i>>)))
          /\ Lively(Now) => Lively(t)
      BY <1>1, <2>1, <3>1, DataReceived
    <3> HIDE DEF t
    <3> QED BY <2>6, <2>8, <2>9, <3>1, <3>2
  <2>10. CASE WriteRest(m, i) /\ transfer' = transfer
    <3> DEFINE old == [Seg(Now, m, i) EXCEPT !.timers = @ - 1]
               t == slotWriteRest(WithSegment(Now, m, i, old), m, i)
    <3>1. At(Now, <<m, i>>).timers > 0 /\ Becomes(t) BY <2>3, <2>10 DEF WriteRest
    <3>2. t \in Orderly(L, D) /\ Advanced(t, Now, Held(At(Now, <<m, i>>))) /\ Lively(t)
      BY <1>1, <2>1, <2>6, <3>1, RestTried
    <3> HIDE DEF t
    <3> QED BY <2>8, <2>10, <3>1, <3>2
  <2>11. CASE JobFails(m, i) /\ transfer' = transfer
    <3> DEFINE early == FALSE
               e == Nowhere
               t == slotError(Now, m, i)
    <3>1. Becomes(t) BY <2>11 DEF JobFails
    <3>2. Now \in Good(L, {}, e, early, D) /\ e \in {Nowhere, <<m, i>>} /\ e = Nowhere
      BY <1>1 DEF Orderly
    <3> HIDE DEF early, e
    <3>3. Sums(L, Now, At(Now, <<m, i>>))
      <4>1. Fitting(L, Now, {}, e, early) BY <3>2 DEF Good
      <4>2. Adds(L, Now, At(Now, <<m, i>>)) BY <2>1, <3>2, <4>1, NowhereIsNoPlace DEF Fitting
      <4> QED BY <4>2 DEF Adds, Sums
    <3>4. /\ t \in Good(L, {}, Nowhere, early, D) /\ Frame(t) = Frame(Now)
          /\ Lively(Now) => Lively(t)
      BY <2>1, <3>2, <3>3, FailedSegment
    <3> HIDE DEF t
    <3>5. t \in Orderly(L, D) BY <3>4 DEF Orderly, early
    <3>6. Advanced(t, Now, Held(At(Now, <<m, i>>))) BY <3>4, FrameAdvance
    <3> QED BY <2>6, <2>8, <2>11, <3>1, <3>4, <3>5, <3>6
  <2>12. CASE JobEnds(m, i) /\ transfer' = transfer
    <3> DEFINE t == WithSegment(Now, m, i, Ended(Seg(Now, m, i)))
    <3>1. /\ Becomes(t) /\ At(Now, <<m, i>>).job = "active"
          /\ Exact => At(Now, <<m, i>>).buffer = <<>>
      BY <2>1, <2>12 DEF JobEnds, Active, Ended, Exact
    <3>2. t \in Orderly(L, D) /\ Swapped(t, Now, <<m, i>>, Ended(Seg(Now, m, i)))
      BY <1>1, <2>1, <3>1, JobEnded
    <3> HIDE DEF t
    <3>3. Lively(t) BY <2>6, <3>2, SwappedLively
    <3>4. Advanced(t, Now, Held(At(Now, <<m, i>>))) BY <3>2, SameAdvance DEF Swapped
    <3> QED BY <2>8, <2>12, <3>1, <3>2, <3>3, <3>4
  <2> QED BY <1>5, <2>7, <2>9, <2>10, <2>11, <2>12 DEF m, i
<1> QED BY <1>1, <1>3, <1>4, <1>5 DEF Continue

(* The end of a write *)
LEMMA RestartWrites ==
  ASSUME RestartInv, WriteEnds
  PROVE  RestartInv'
<1> DEFINE L == lost
           D == Mirrors
           t == slotDataWritten(Now)
<1>1. /\ Now \in Orderly(L, D) /\ Complete(L, Now) /\ Led(transfer, Now)
      /\ Sound(saved, lost, Now) /\ D = Mirrors /\ L = lost
  BY DEF RestartInv
<1>2. Now.factory = factory BY DEF Now
<1>3. Blocked(Now) /\ Becomes(t) /\ Stays /\ transfer' = IF factory.done THEN "Finished" ELSE transfer
  BY DEF WriteEnds, Written
<1> HIDE DEF L, D, Now
<1>4. Lively(Now) BY <1>1, <1>3 DEF Led, Resting
<1>5. t \in Orderly(L, D) /\ Complete(L, t) /\ Landed(t, Now) /\ (Lively(Now) => Lively(t))
  BY <1>1, DataWritten
<1>6. IF factory.done THEN t.factory.status = "Finished"
      ELSE /\ t.factory.status = factory.status /\ t.factory.startTried = factory.startTried
  <2>1. Now \in State /\ Now.factory \in AnyFactory BY <1>1, Parts DEF Orderly, Good
  <2> DEFINE d == AfterWrite(Now.disk, Now.factory.write)
             f == [Now.factory EXCEPT !.write = NoWrite]
             free == [Now EXCEPT !.disk = d, !.factory.write = NoWrite]
  <2>2. free.factory = f
    <3> HIDE DEF d
    <3> QED BY <2>1 DEF State
  <2>3. /\ f.done = factory.done /\ f.status = factory.status
        /\ f.startTried = factory.startTried /\ f \in AnyFactory
    BY <1>2, <2>1, NothingToWrite DEF AnyFactory
  <2>4. t = IF factory.done
            THEN [free EXCEPT !.factory.file = "none", !.factory.status = "Finished"]
            ELSE free
    BY <1>2 DEF slotDataWritten
  <2>5. DOMAIN free = {"factory", "source", "disk"} BY <2>1 DEF State
  <2> HIDE DEF free, f, t
  <2>6. CASE factory.done
    <3>1. t.factory.status = "Finished" BY <2>2, <2>3, <2>4, <2>5, <2>6 DEF AnyFactory
    <3> QED BY <2>6, <3>1
  <2>7. CASE ~factory.done BY <2>2, <2>3, <2>4, <2>7
  <2> QED BY <2>6, <2>7
<1> HIDE DEF t
<1>7. Led(transfer', t)
  <2>1. CASE factory.done BY <1>3, <1>4, <1>5, <1>6, <2>1 DEF Led, Going
  <2>2. CASE ~factory.done
    <3>1. Going(t) => Going(Now) /\ ~Resting(Now)
      BY <1>2, <1>3, <1>6, <2>2 DEF Going, Resting
    <3> QED BY <1>1, <1>2, <1>3, <1>4, <1>5, <1>6, <2>2, <3>1 DEF Led
  <2> QED BY <2>1, <2>2
<1> QED BY <1>1, <1>3, <1>5, <1>7, Resumed DEF Landed

(* The program ends: what was saved is loaded, and the write under way got to the file,
   or is lost from now on. *)
LEMMA CrashInv ==
  ASSUME MirrorOrder # <<>>, RestartInv, Crash
  PROVE  RestartInv'
<1> DEFINE write == factory.write
<1>1. PICK content \in {disk, AfterWrite(disk, write)} :
          /\ Becomes(load(NewDownload(content), saved))
          /\ lost' = lost \cup (RightUnits(write) \ content)
  BY DEF Crash
<1>2. saved' = saved /\ transfer' \in {"Finished", "Stopped"} BY DEF Crash
<1> DEFINE M == lost'
           t == load(NewDownload(content), saved)
<1>3. /\ Now \in State /\ Recorded(lost, Now, {}) /\ Sound(saved, lost, Now)
      /\ Now.factory.write = write /\ Now.disk = disk
  BY DEF RestartInv, Orderly, Good, Now
<1> HIDE DEF Now, write
<1>4. /\ AfterWrite(disk, write) \in SUBSET Int
      /\ Exact => /\ AfterWrite(disk, write) = disk \cup RightUnits(write)
                  /\ AfterWrite(disk, write) \subseteq Units
  BY <1>3, WriteIsRight
<1>5. content \in SUBSET Int /\ (Exact => content \subseteq Units /\ disk \subseteq content)
  <2>1. disk \in SUBSET Int BY <1>3, Parts
  <2> QED BY <1>4, <2>1
<1>6. Exact => Kept(lost, Now) \subseteq content \cup M BY <1>1, <1>3, <1>5 DEF Kept
<1>7. /\ saved \in AnySave /\ (~saved.sized => saved.finished = {})
      /\ saved.status = "Finished" => saved.finished = Chunks /\ Mirrors # {}
      /\ Exact => \A c \in saved.finished : ChunkUnits(c) \subseteq content \cup M
  BY <1>3, <1>6 DEF Sound
<1>8. M = lost' OBVIOUS
<1> HIDE DEF M
<1>9. /\ t \in Orderly(M, Mirrors) /\ Complete(M, t) /\ Resting(t)
      /\ t.disk = content /\ t.factory.write = NoWrite
  BY <1>5, <1>7, LoadedDownload
<1> HIDE DEF t
<1>10. Now' = t
  <2>1. t = [factory |-> t.factory, source |-> t.source, disk |-> t.disk]
    BY <1>9 DEF Orderly, Good, State
  <2>2. Becomes(t) BY <1>1 DEF t
  <2> QED BY <2>1, <2>2 DEF Becomes, Now
<1>11. Led(transfer', t) BY <1>2, <1>9 DEF Led
<1>12. Sound(saved, M, t)
  <2>1. Exact => Kept(lost, Now) \subseteq Kept(M, t) BY <1>6, <1>9 DEF Kept
  <2> QED BY <1>3, <2>1, RemainsSound
<1> QED BY <1>2, <1>8, <1>9, <1>10, <1>11, <1>12 DEF RestartInv

(* The invariant is inductive, where stops lose nothing. *)
LEMMA RestartNextInv ==
  ASSUME MirrorOrder # <<>>, Exact, RestartInv, [RestartNext]_restartVars
  PROVE  RestartInv'
<1>1. CASE StartTransfer \/ StopTransfer \/ RestartStalled BY <1>1, RestartCommands
<1>2. CASE Continues BY <1>2, RestartContinues
<1>3. CASE WriteEnds BY <1>3, RestartWrites
<1>4. CASE Crash BY <1>4, CrashInv
<1>5. CASE Save
  <2>1. Now' = Now /\ transfer' = transfer /\ lost' = lost /\ saved' = Saved
    BY <1>5 DEF Save, vars, Now
  <2>2. Now \in Orderly(lost, Mirrors) /\ Complete(lost, Now) /\ Led(transfer, Now)
    BY DEF RestartInv
  <2>3. Sound(Saved, lost, Now) BY <2>2, SavedIsSound
  <2> HIDE DEF Now, Saved
  <2> QED BY <2>1, <2>2, <2>3 DEF RestartInv
<1>6. CASE UNCHANGED restartVars
  <2>1. Now' = Now /\ transfer' = transfer /\ lost' = lost /\ saved' = saved
    BY <1>6 DEF restartVars, vars, Now
  <2> HIDE DEF Now
  <2> QED BY <2>1 DEF RestartInv
<1> QED BY <1>1, <1>2, <1>3, <1>4, <1>5, <1>6 DEF RestartNext

LEMMA RestartInvAlways ==
  ASSUME MirrorOrder # <<>>, ~StopsWithData
  PROVE  RestartSpec => []RestartInv
<1>1. Exact BY DEF Exact
<1>2. RestartInit => RestartInv BY RestartInitInv
<1>3. RestartInv /\ [RestartNext]_restartVars => RestartInv' BY <1>1, RestartNextInv
<1> QED BY <1>2, <1>3, PTL DEF RestartSpec

(* Whatever was saved when, and however often the program ends, a chunk that counts as
   finished is on the disk or in the write under way, but for what the write lost that
   was under way at an end, for any file, mirrors and connections and whatever fails,
   if no download is stopped while a segment waits to write
   (datasourcefactory.cpp:641). *)
THEOREM CrashesLoseOneWrite ==
  ASSUME MirrorOrder # <<>>, ~StopsWithData
  PROVE  RestartSpec => []CrashLosesOneWrite
<1>1. ASSUME RestartInv PROVE CrashLosesOneWrite
  <2>1. /\ Recorded(lost, Now, {}) /\ Exact /\ Now.factory = factory /\ Now.disk = disk
    BY <1>1 DEF RestartInv, Orderly, Good, Now, Exact
  <2> HIDE DEF Now
  <2> QED BY <2>1 DEF Recorded, Kept, CrashLosesOneWrite
<1> QED BY <1>1, RestartInvAlways, PTL

(* A download that was loaded and runs again, after any number of ends of the program,
   has its connections started, and at least one while there is a mirror and something
   is missing (datasourcefactory.cpp:1017-1022). *)
THEOREM RestartedGoesOn ==
  ASSUME MirrorOrder # <<>>, ~StopsWithData
  PROVE  RestartSpec => []RestartedIsExecuted
<1>1. ASSUME RestartInv PROVE RestartedIsExecuted
  <2>1. Now \in Orderly(lost, Mirrors) /\ Led(transfer, Now) /\ Now.factory = factory
    BY <1>1 DEF RestartInv, Now
  <2> HIDE DEF Now
  <2>2. SUFFICES ASSUME transfer = "Running", ~factory.startTried, factory.finished # Chunks
                 PROVE  /\ factory.status = "Running"
                        /\ \A c \in Connections : HasStarted(Seg(Now, c[1], c[2]))
                        /\ Used(Now) # <<>> => Connections # {}
    BY DEF RestartedIsExecuted
  <2>3. factory.status = "Running" /\ Lively(Now) BY <2>1, <2>2 DEF Led
  <2>4. Going(Now) BY <2>1, <2>2, <2>3 DEF Going
  <2>5. /\ \A c \in Connections : HasStarted(Seg(Now, c[1], c[2]))
        /\ Used(Now) # <<>> => Connections # {}
    BY <2>1, <2>2, <2>3, <2>4, GoingIsExecuted
  <2> QED BY <2>3, <2>5
<1> QED BY <1>1, RestartInvAlways, PTL
=============================================================================
