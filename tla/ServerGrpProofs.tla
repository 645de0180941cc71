-------------------------- MODULE ServerGrpProofs ---------------------------
(***************************************************************************)
(* Proofs about ServerGrp, for groups of any size: what ConnectAll, the    *)
(* other operations and any partition leave of the links.  The loops of    *)
(* the code are recursive functions; what a turn keeps holds after all     *)
(* turns (Turns), and their values exist (Loop).                           *)
(***************************************************************************)
EXTENDS ServerGrp, WellFoundedInduction, TLAPS

\* Zenon proves the steps that name no other prover.
USE ZenonT(30)

\* Induction.
LEMMA Ind ==
    ASSUME NEW P, 0 \in P, \A n \in Nat : n \in P => n + 1 \in P
    PROVE  Nat \subseteq P
  <1> SUFFICES ASSUME NEW m \in Nat, m \notin P PROVE FALSE
    OBVIOUS
  <1> DEFINE B == {n \in Nat : n \notin P}
  <1>1. PICK n \in B : \A y \in B : <<y, n>> \notin OpToRel(<, Nat)
    <2>1. B \subseteq Nat /\ B # {}
      OBVIOUS
    <2>2. IsWellFoundedOn(OpToRel(<, Nat), Nat)
      BY NatLessThanWellFounded
    <2> HIDE DEF B
    <2>3. QED
      BY <2>1, <2>2, WFMin
  <1>2. \A y \in Nat : y < n => y \in P
    BY <1>1 DEF OpToRel
  <1>3. n # 0
    OBVIOUS
  <1>4. n - 1 \in P /\ n - 1 \in Nat /\ n = (n - 1) + 1
    BY <1>2, <1>3, SMTT(60)
  <1>5. QED
    BY <1>4

\* What holds before a loop and is kept by each turn holds after any number of turns.
LEMMA Turns ==
    ASSUME NEW M \in Nat, NEW P, 0 \in P, \A n \in 1 .. M : n - 1 \in P => n \in P
    PROVE  \A n \in 0 .. M : n \in P
  <1> DEFINE Q == {n \in Nat : n <= M => n \in P}
  <1>1. 0 \in Q
    OBVIOUS
  <1>2. ASSUME NEW n \in Nat, n \in Q PROVE n + 1 \in Q
    BY <1>2, SMTT(60)
  <1> HIDE DEF Q
  <1>3. Nat \subseteq Q
    BY <1>1, <1>2, Ind
  <1>4. QED
    BY <1>3, SMTT(60) DEF Q

\* The values of a loop: its body is F, and it starts with x.
Runs(M, S, x, F) ==
    \E h \in [0 .. M -> S] : h[0] = x /\ \A n \in 1 .. M : h[n] = F[n][h[n - 1]]

\* A loop has values: one for each of its turns.
LEMMA Loop ==
    ASSUME NEW M \in Nat, NEW S, NEW x \in S, NEW F \in [1 .. M -> [S -> S]]
    PROVE  Runs(M, S, x, F)
  <1> DEFINE Ok(k, h) == h[0] = x /\ \A n \in 1 .. k : h[n] = F[n][h[n - 1]]
             P == {k \in 0 .. M : \E h \in [0 .. k -> S] : Ok(k, h)}
  <1>1. 0 \in P
    <2> DEFINE h == [n \in 0 .. 0 |-> x]
    <2>1. h \in [0 .. 0 -> S] /\ Ok(0, h)
      BY SMTT(60)
    <2>2. 0 \in 0 .. M
      BY SMTT(60)
    <2> HIDE DEF h, Ok
    <2>3. QED
      BY <2>1, <2>2
  <1>2. ASSUME NEW k \in 1 .. M, k - 1 \in P PROVE k \in P
    <2>1. PICK h \in [0 .. k - 1 -> S] : Ok(k - 1, h)
      BY <1>2
    <2> DEFINE g == [n \in 0 .. k |-> IF n = k THEN F[k][h[k - 1]] ELSE h[n]]
    <2>2. g \in [0 .. k -> S] /\ k \in 0 .. M
      BY SMTT(60)
    <2>3. Ok(k, g)
      BY <2>1, SMTT(60)
    <2> HIDE DEF g, Ok
    <2>4. QED
      BY <2>2, <2>3
  <1> HIDE DEF P
  <1>3. \A k \in 0 .. M : k \in P
    BY <1>1, <1>2, Turns
  <1>4. M \in P
    BY <1>3, SMTT(60)
  <1>5. QED
    BY <1>4 DEF P, Runs

-----------------------------------------------------------------------------

\* c is what connecting i to the servers of s makes of l.
IsConnected(c, l, i, s) ==
    /\ c \in Links /\ c.connected[i]
    /\ \A a \in Srv : a # i => c.connected[a] = l.connected[a]
    /\ \A a, b \in Srv : c.enabled[a][b] =>
           l.enabled[a][b] \/ (a = i /\ b \in Range(s)) \/ (b = i /\ a \in Range(s))
    /\ \A a, b \in Srv : l.enabled[a][b] => c.enabled[a][b]
    /\ \A b \in Range(s) : c.enabled[i][b]

\* connect (group.go:149-166).
LEMMA ConnectIs ==
    ASSUME NEW l \in Links, NEW i \in Srv, NEW s, Range(s) \subseteq Srv
    PROVE  IsConnected(Connect(l, i, s), l, i, s)
  <1> DEFINE on == [l.connected EXCEPT ![i] = TRUE]
             incoming == {s[n] : n \in {m \in DOMAIN s : on[m - 1]}}
             out == EnableFrom(l.enabled, i, s)
             E == [a \in Srv |-> [b \in Srv |-> out[a][b] \/ (b = i /\ a \in incoming)]]
  <1>1. Connect(l, i, s) = [connected |-> on, enabled |-> E]
    BY DEF Connect
  <1>2. l.enabled \in [Srv -> [Srv -> BOOLEAN]] /\ l.connected \in [Srv -> BOOLEAN]
    BY DEF Links
  <1>3. incoming \subseteq Range(s)
    BY DEF Range
  <1>4. on \in [Srv -> BOOLEAN] /\ on[i] /\ \A a \in Srv : a # i => on[a] = l.connected[a]
    BY <1>2
  <1>5. /\ out \in [Srv -> [Srv -> BOOLEAN]]
        /\ \A b \in Srv : out[i][b] <=> l.enabled[i][b] \/ b \in Range(s)
        /\ \A a \in Srv : a # i => out[a] = l.enabled[a]
    BY <1>2 DEF EnableFrom
  <1> HIDE DEF on, incoming, out
  <1>6. /\ E \in [Srv -> [Srv -> BOOLEAN]]
        /\ \A a, b \in Srv : E[a][b] <=> out[a][b] \/ (b = i /\ a \in incoming)
    BY <1>5
  <1> HIDE DEF E
  <1>7. Connect(l, i, s) \in Links
    BY <1>1, <1>4, <1>6, SMTT(60) DEF Links
  <1>8. Connect(l, i, s).connected = on /\ Connect(l, i, s).enabled = E
    BY <1>1, SMTT(60)
  <1>9. QED
    BY <1>3, <1>4, <1>5, <1>6, <1>7, <1>8 DEF IsConnected

\* c is what disconnecting i from the servers of s makes of l.
IsDisconnected(c, l, i, s) ==
    /\ c \in Links /\ ~c.connected[i]
    /\ \A a \in Srv : a # i => c.connected[a] = l.connected[a]
    /\ \A a, b \in Srv : c.enabled[a][b] <=>
           l.enabled[a][b] /\ ~(a = i /\ b \in Range(s)) /\ ~(b = i /\ a \in Range(s))

\* disconnect (group.go:168-187).
LEMMA DisconnectIs ==
    ASSUME NEW l \in Links, NEW i \in Srv, NEW s
    PROVE  IsDisconnected(Disconnect(l, i, s), l, i, s)
  <1> DEFINE off == [l.connected EXCEPT ![i] = FALSE]
             out == DisableFrom(l.enabled, i, s)
             E == [a \in Srv |-> [b \in Srv |-> out[a][b] /\ ~(b = i /\ a \in Range(s))]]
  <1>1. Disconnect(l, i, s) = [connected |-> off, enabled |-> E]
    BY DEF Disconnect
  <1>2. l.enabled \in [Srv -> [Srv -> BOOLEAN]] /\ l.connected \in [Srv -> BOOLEAN]
    BY DEF Links
  <1>4. off \in [Srv -> BOOLEAN] /\ ~off[i] /\ \A a \in Srv : a # i => off[a] = l.connected[a]
    BY <1>2
  <1>5. /\ out \in [Srv -> [Srv -> BOOLEAN]]
        /\ \A b \in Srv : out[i][b] <=> l.enabled[i][b] /\ b \notin Range(s)
        /\ \A a \in Srv : a # i => out[a] = l.enabled[a]
    BY <1>2 DEF DisableFrom
  <1> HIDE DEF off, out
  <1>6. /\ E \in [Srv -> [Srv -> BOOLEAN]]
        /\ \A a, b \in Srv : E[a][b] <=> out[a][b] /\ ~(b = i /\ a \in Range(s))
    BY <1>5
  <1> HIDE DEF E
  <1>7. Disconnect(l, i, s) \in Links
    BY <1>1, <1>4, <1>6, SMTT(60) DEF Links
  <1>8. Disconnect(l, i, s).connected = off /\ Disconnect(l, i, s).enabled = E
    BY <1>1, SMTT(60)
  <1>9. QED
    BY <1>4, <1>5, <1>6, <1>7, <1>8 DEF IsDisconnected

\* all() lists every server.
LEMMA AllIs ==
    ASSUME N \in Nat \ {0}
    PROVE  /\ \A n \in 1 .. N : All[n] = n - 1 /\ All[n] \in Srv
           /\ Range(All) = Srv
  <1>1. \A n \in 1 .. N : All[n] = n - 1 /\ All[n] \in Srv
    BY SMTT(60) DEF All, Srv
  <1>2. DOMAIN All = 1 .. N
    BY DEF All
  <1>3. ASSUME NEW i \in Srv PROVE i + 1 \in 1 .. N /\ (i + 1) - 1 = i
    BY SMTT(60) DEF Srv
  <1>4. QED
    BY <1>1, <1>2, <1>3 DEF Range

\* The loop of ConnectAll, turn by turn.
LEMMA ConnectTurns ==
    ASSUME N \in Nat \ {0}, NEW l \in Links
    PROVE  \E h \in [0 .. N -> Links] :
               /\ h[0] = l /\ \A n \in 1 .. N : h[n] = Connect(h[n - 1], All[n], All)
               /\ ConnectEach(l) = h[N]
  <1> DEFINE F == [n \in 1 .. N |-> [m \in Links |-> Connect(m, All[n], All)]]
             Is(f) == f = [n \in 0 .. N |-> IF n = 0 THEN l ELSE Connect(f[n - 1], All[n], All)]
  <1>0. N \in Nat
    OBVIOUS
  <1>a. ASSUME NEW n \in 1 .. N, NEW m \in Links PROVE Connect(m, All[n], All) \in Links
    <2>1. All[n] \in Srv /\ Range(All) \subseteq Srv
      BY AllIs
    <2>2. IsConnected(Connect(m, All[n], All), m, All[n], All)
      BY <2>1, ConnectIs
    <2>3. QED
      BY <2>2 DEF IsConnected
  <1>1. F \in [1 .. N -> [Links -> Links]]
    BY <1>a
  <1>2. PICK h \in [0 .. N -> Links] : h[0] = l /\ \A n \in 1 .. N : h[n] = F[n][h[n - 1]]
    <2> HIDE DEF F
    <2>1. Runs(N, Links, l, F)
      BY <1>0, <1>1, Loop
    <2>2. QED
      BY <2>1 DEF Runs
  <1>3. \A n \in 1 .. N : n - 1 \in 0 .. N /\ h[n] = Connect(h[n - 1], All[n], All)
    <2>1. \A n \in 1 .. N : n - 1 \in 0 .. N
      BY SMTT(60)
    <2>2. QED
      BY <1>2, <2>1
  <1>4. Is(h)
    <2>1. \A n \in 0 .. N : n # 0 => n \in 1 .. N
      BY SMTT(60)
    <2>2. \A n \in 0 .. N : h[n] = IF n = 0 THEN l ELSE Connect(h[n - 1], All[n], All)
      BY <1>2, <1>3, <2>1
    <2>3. QED
      BY <2>2
  <1> DEFINE g == CHOOSE f : Is(f)
  <1>5. Is(g) /\ ConnectEach(l) = g[N]
    BY <1>4 DEF ConnectEach
  <1> HIDE DEF Is, g
  <1>6. /\ g = [n \in 0 .. N |-> g[n]] /\ g[0] = l
        /\ \A n \in 1 .. N : g[n] = Connect(g[n - 1], All[n], All)
    <2>1. g = [n \in 0 .. N |-> IF n = 0 THEN l ELSE Connect(g[n - 1], All[n], All)]
      BY <1>5 DEF Is
    <2>2. 0 \in 0 .. N /\ \A n \in 1 .. N : n \in 0 .. N /\ n # 0
      BY SMTT(60)
    <2>3. QED
      BY <2>1, <2>2
  <1>7. \A n \in 0 .. N : g[n] \in Links
    <2> DEFINE P == {n \in 0 .. N : g[n] \in Links}
    <2>1. 0 \in 0 .. N /\ N \in Nat /\ \A n \in 1 .. N : n \in 0 .. N
      BY SMTT(60)
    <2>2. 0 \in P
      BY <1>6, <2>1
    <2>3. ASSUME NEW n \in 1 .. N, n - 1 \in P PROVE n \in P
      <3>1. g[n - 1] \in Links
        BY <2>3
      <3>2. Connect(g[n - 1], All[n], All) \in Links
        BY <1>a, <3>1
      <3>3. QED
        BY <1>6, <2>1, <3>2
    <2> HIDE DEF P
    <2>4. \A n \in 0 .. N : n \in P
      BY <1>0, <2>2, <2>3, Turns
    <2>5. QED
      BY <2>4 DEF P
  <1>8. g \in [0 .. N -> Links]
    BY <1>6, <1>7
  <1>9. QED
    BY <1>5, <1>6, <1>8

\* ConnectAll joins every server to every other.
LEMMA ConnectEachIs ==
    ASSUME N \in Nat \ {0}, NEW l \in Links
    PROVE  /\ ConnectEach(l) \in Links
           /\ \A a \in Srv : ConnectEach(l).connected[a]
           /\ \A a, b \in Srv : ConnectEach(l).enabled[a][b]
  <1>1. PICK h \in [0 .. N -> Links] :
            /\ h[0] = l /\ \A n \in 1 .. N : h[n] = Connect(h[n - 1], All[n], All)
            /\ ConnectEach(l) = h[N]
    BY ConnectTurns
  <1> DEFINE Joined(n) == \A a \in 0 .. n - 1 : h[n].connected[a] /\ \A b \in Srv : h[n].enabled[a][b]
             P == {n \in 0 .. N : Joined(n)}
  <1>2. N \in Nat /\ N \in 0 .. N
    BY SMTT(60)
  <1>3. 0 \in P
    BY SMTT(60)
  <1>4. ASSUME NEW n \in 1 .. N, n - 1 \in P PROVE n \in P
    <2>1. /\ n \in 0 .. N /\ n - 1 \in 0 .. N /\ \A a \in 0 .. n - 1 : a = n - 1 \/ a \in 0 .. (n - 1) - 1
          /\ 0 .. n - 1 \subseteq Srv
      BY SMTT(60) DEF Srv
    <2>2. h[n - 1] \in Links /\ All[n] = n - 1 /\ n - 1 \in Srv /\ Range(All) = Srv /\ Range(All) \subseteq Srv
      BY <2>1, AllIs
    <2>3. h[n] = Connect(h[n - 1], n - 1, All)
      BY <1>1, <2>2
    <2>a. IsConnected(Connect(h[n - 1], n - 1, All), h[n - 1], n - 1, All)
      BY <2>2, ConnectIs
    <2>4. /\ h[n].connected[n - 1] /\ \A b \in Srv : h[n].enabled[n - 1][b]
          /\ \A a \in Srv : a # n - 1 => h[n].connected[a] = h[n - 1].connected[a]
          /\ \A a, b \in Srv : h[n - 1].enabled[a][b] => h[n].enabled[a][b]
      BY <2>2, <2>3, <2>a DEF IsConnected
    <2>5. Joined(n - 1)
      BY <1>4
    <2>6. Joined(n)
      BY <2>1, <2>4, <2>5
    <2> HIDE DEF Joined
    <2>7. QED
      BY <2>1, <2>6
  <1> HIDE DEF P
  <1>5. N \in P
    BY <1>2, <1>3, <1>4, Turns
  <1>6. Joined(N)
    BY <1>5 DEF P
  <1>7. QED
    BY <1>1, <1>2, <1>6 DEF Srv

\* One turn of a loop of Partition: i, which is of the side p, is cut off from q.
Turn(l, i, p, q) == Connect(Disconnect(l, i, q), i, p)

IsTurned(c, l, i, p, q) ==
    /\ c \in Links /\ c.connected[i]
    /\ \A a \in Srv : a # i => c.connected[a] = l.connected[a]
    /\ \A b \in Range(p) : c.enabled[i][b]
    /\ \A a, b \in Range(p) : l.enabled[a][b] => c.enabled[a][b]
    /\ \A b \in Range(q) : ~c.enabled[i][b] /\ ~c.enabled[b][i]
    /\ \A a, b \in Srv : a \in Range(q) \/ b \in Range(q) => (c.enabled[a][b] => l.enabled[a][b])
    /\ \A a, b \in Range(q) : l.enabled[a][b] => c.enabled[a][b]

\* One turn of a loop of Partition (group.go:288-298).
LEMMA TurnIs ==
    ASSUME NEW l \in Links, NEW i \in Srv, NEW p, NEW q, Range(p) \subseteq Srv, Range(q) \subseteq Srv,
           i \in Range(p), Range(p) \cap Range(q) = {}
    PROVE  IsTurned(Turn(l, i, p, q), l, i, p, q)
  <1> DEFINE d == Disconnect(l, i, q)
             c == Connect(d, i, p)
  <1>1. /\ d \in Links /\ ~d.connected[i]
        /\ \A a \in Srv : a # i => d.connected[a] = l.connected[a]
        /\ \A a, b \in Srv : d.enabled[a][b] <=>
               l.enabled[a][b] /\ ~(a = i /\ b \in Range(q)) /\ ~(b = i /\ a \in Range(q))
    BY DisconnectIs DEF IsDisconnected
  <1> HIDE DEF d
  <1>2. /\ c \in Links /\ c.connected[i]
        /\ \A a \in Srv : a # i => c.connected[a] = d.connected[a]
        /\ \A a, b \in Srv : c.enabled[a][b] =>
               d.enabled[a][b] \/ (a = i /\ b \in Range(p)) \/ (b = i /\ a \in Range(p))
        /\ \A a, b \in Srv : d.enabled[a][b] => c.enabled[a][b]
        /\ \A b \in Range(p) : c.enabled[i][b]
    BY <1>1, ConnectIs DEF IsConnected
  <1>3. Turn(l, i, p, q) = c
    BY DEF Turn, d
  <1> HIDE DEF c
  <1>4. i \notin Range(q) /\ \A a \in Range(q) : a \notin Range(p)
    OBVIOUS
  <1>5. \A a \in Srv : a # i => c.connected[a] = l.connected[a]
    BY <1>1, <1>2
  <1>6. \A a, b \in Range(p) : l.enabled[a][b] => c.enabled[a][b]
    BY <1>1, <1>2
  <1>7. \A b \in Range(q) : ~c.enabled[i][b] /\ ~c.enabled[b][i]
    BY <1>1, <1>2, <1>4
  <1>8. \A a, b \in Srv : a \in Range(q) \/ b \in Range(q) => (c.enabled[a][b] => l.enabled[a][b])
    <2>1. SUFFICES ASSUME NEW a \in Srv, NEW b \in Srv, a \in Range(q) \/ b \in Range(q), c.enabled[a][b]
                   PROVE  d.enabled[a][b]
      BY <1>1
    <2>2. QED
      BY <1>2, <1>4, <2>1
  <1>9. \A a, b \in Range(q) : l.enabled[a][b] => c.enabled[a][b]
    BY <1>1, <1>2, <1>4
  <1>10. QED
    BY <1>2, <1>3, <1>5, <1>6, <1>7, <1>8, <1>9 DEF IsTurned

\* A loop of Partition, turn by turn.
CutOffRuns(l, M, p, q) ==
    \E h \in [0 .. M -> Links] :
        /\ h[0] = l /\ \A n \in 1 .. M : h[n] = Turn(h[n - 1], p[n], p, q)
        /\ CutOff(l, p, q) = h[M]

\* CutOff is the value after the last turn.
LEMMA CutOffTurns ==
    ASSUME NEW l \in Links, NEW M \in Nat, NEW p \in [1 .. M -> Srv], NEW q, Range(q) \subseteq Srv
    PROVE  CutOffRuns(l, M, p, q)
  <1> DEFINE F == [n \in 1 .. M |-> [m \in Links |-> Turn(m, p[n], p, q)]]
             Is(f) == f = [n \in 0 .. M |-> IF n = 0 THEN l ELSE Turn(f[n - 1], p[n], p, q)]
  <1>0. Range(p) \subseteq Srv
    BY DEF Range
  <1>1. ASSUME NEW m \in Links, NEW n \in 1 .. M PROVE Turn(m, p[n], p, q) \in Links
    <2>1. p[n] \in Srv /\ Disconnect(m, p[n], q) \in Links
      BY DisconnectIs DEF IsDisconnected
    <2>2. IsConnected(Turn(m, p[n], p, q), Disconnect(m, p[n], q), p[n], p)
      BY <1>0, <2>1, ConnectIs DEF Turn
    <2>3. QED
      BY <2>2 DEF IsConnected
  <1>2. F \in [1 .. M -> [Links -> Links]]
    BY <1>1
  <1>3. PICK h \in [0 .. M -> Links] : h[0] = l /\ \A n \in 1 .. M : h[n] = F[n][h[n - 1]]
    <2> HIDE DEF F
    <2>1. Runs(M, Links, l, F)
      BY <1>2, Loop
    <2>2. QED
      BY <2>1 DEF Runs
  <1>4. \A n \in 1 .. M : n - 1 \in 0 .. M /\ h[n] = Turn(h[n - 1], p[n], p, q)
    <2>1. \A n \in 1 .. M : n - 1 \in 0 .. M
      BY SMTT(60)
    <2>2. QED
      BY <1>3, <2>1
  <1>5. Is(h)
    <2>1. \A n \in 0 .. M : n # 0 => n \in 1 .. M
      BY SMTT(60)
    <2>2. \A n \in 0 .. M : h[n] = IF n = 0 THEN l ELSE Turn(h[n - 1], p[n], p, q)
      BY <1>3, <1>4, <2>1
    <2>3. QED
      BY <2>2
  <1> DEFINE g == CHOOSE f : Is(f)
  <1>6. Is(g) /\ CutOff(l, p, q) = g[M]
    <2>1. Is(g)
      BY <1>5
    <2>2. Len(p) = M
      BY SMTT(60)
    <2>3. CutOff(l, p, q) = g[M]
      BY <2>2 DEF CutOff, Turn
    <2>4. QED
      BY <2>1, <2>3
  <1> HIDE DEF Is, g
  <1>7. /\ g = [n \in 0 .. M |-> g[n]] /\ g[0] = l
        /\ \A n \in 1 .. M : g[n] = Turn(g[n - 1], p[n], p, q)
    <2>1. g = [n \in 0 .. M |-> IF n = 0 THEN l ELSE Turn(g[n - 1], p[n], p, q)]
      BY <1>6 DEF Is
    <2>2. 0 \in 0 .. M /\ \A n \in 1 .. M : n \in 0 .. M /\ n # 0
      BY SMTT(60)
    <2>3. QED
      BY <2>1, <2>2
  <1>8. \A n \in 0 .. M : g[n] \in Links
    <2> DEFINE P == {n \in 0 .. M : g[n] \in Links}
    <2>1. 0 \in 0 .. M /\ \A n \in 1 .. M : n \in 0 .. M
      BY SMTT(60)
    <2>2. 0 \in P
      BY <1>7, <2>1
    <2>3. ASSUME NEW n \in 1 .. M, n - 1 \in P PROVE n \in P
      BY <1>1, <1>7, <2>1, <2>3
    <2> HIDE DEF P
    <2>4. \A n \in 0 .. M : n \in P
      BY <2>2, <2>3, Turns
    <2>5. QED
      BY <2>4 DEF P
  <1>9. g \in [0 .. M -> Links]
    BY <1>7, <1>8
  <1>10. QED
    BY <1>6, <1>7, <1>9 DEF CutOffRuns

\* The links m after the servers D of the side p have been cut off from q; they were l.
IsCut(m, l, D, p, q) ==
    /\ \A a \in D : m.connected[a]
    /\ \A a \in Srv \ Range(p) : m.connected[a] = l.connected[a]
    /\ \A a \in D, b \in Range(p) : m.enabled[a][b]
    /\ \A a \in D, b \in Range(q) : ~m.enabled[a][b] /\ ~m.enabled[b][a]
    /\ \A a, b \in Range(q) : l.enabled[a][b] => m.enabled[a][b]

\* A turn cuts off one more server, and undoes no earlier turn.
LEMMA TurnCuts ==
    ASSUME NEW l, NEW m \in Links, NEW i \in Srv, NEW p, NEW q, Range(p) \subseteq Srv,
           Range(q) \subseteq Srv, i \in Range(p), Range(p) \cap Range(q) = {},
           NEW D \in SUBSET Range(p), IsCut(m, l, D, p, q)
    PROVE  IsCut(Turn(m, i, p, q), l, D \cup {i}, p, q)
  <1> DEFINE c == Turn(m, i, p, q)
  <1>1. /\ c.connected[i]
        /\ \A a \in Srv : a # i => c.connected[a] = m.connected[a]
        /\ \A b \in Range(p) : c.enabled[i][b]
        /\ \A a, b \in Range(p) : m.enabled[a][b] => c.enabled[a][b]
        /\ \A b \in Range(q) : ~c.enabled[i][b] /\ ~c.enabled[b][i]
        /\ \A a, b \in Srv : a \in Range(q) \/ b \in Range(q) => (c.enabled[a][b] => m.enabled[a][b])
        /\ \A a, b \in Range(q) : m.enabled[a][b] => c.enabled[a][b]
    <2>1. IsTurned(c, m, i, p, q)
      BY TurnIs
    <2> HIDE DEF c
    <2>2. QED
      BY <2>1 DEF IsTurned
  <1> HIDE DEF c
  <1>2. \A a \in D \cup {i} : c.connected[a]
    BY <1>1 DEF IsCut
  <1>3. \A a \in Srv \ Range(p) : c.connected[a] = l.connected[a]
    BY <1>1 DEF IsCut
  <1>4. \A a \in D \cup {i}, b \in Range(p) : c.enabled[a][b]
    BY <1>1 DEF IsCut
  <1>5. \A a \in D \cup {i}, b \in Range(q) : ~c.enabled[a][b] /\ ~c.enabled[b][a]
    <2>1. SUFFICES ASSUME NEW a \in D \cup {i}, NEW b \in Range(q)
                   PROVE  ~c.enabled[a][b] /\ ~c.enabled[b][a]
      OBVIOUS
    <2>2. CASE a = i
      BY <1>1, <2>2
    <2>3. CASE a \in D
      <3>1. ~m.enabled[a][b] /\ ~m.enabled[b][a] /\ a \in Srv /\ b \in Srv
        BY <2>3 DEF IsCut
      <3>2. QED
        BY <1>1, <3>1
    <2>4. QED
      BY <2>2, <2>3
  <1>6. \A a, b \in Range(q) : l.enabled[a][b] => c.enabled[a][b]
    BY <1>1 DEF IsCut
  <1>7. QED
    BY <1>2, <1>3, <1>4, <1>5, <1>6 DEF IsCut, c

\* A loop of Partition cuts off every server of its side (group.go:288-298).
LEMMA CutOffIs ==
    ASSUME NEW l \in Links, NEW M \in Nat, NEW p \in [1 .. M -> Srv], NEW q, Range(q) \subseteq Srv,
           Range(p) \cap Range(q) = {}
    PROVE  CutOff(l, p, q) \in Links /\ IsCut(CutOff(l, p, q), l, Range(p), p, q)
  <1>1. PICK h \in [0 .. M -> Links] :
            /\ h[0] = l /\ \A n \in 1 .. M : h[n] = Turn(h[n - 1], p[n], p, q)
            /\ CutOff(l, p, q) = h[M]
    <2>1. CutOffRuns(l, M, p, q)
      BY CutOffTurns
    <2>2. QED
      BY <2>1 DEF CutOffRuns
  <1> DEFINE D(n) == {p[k] : k \in 1 .. n}
             P == {n \in 0 .. M : IsCut(h[n], l, D(n), p, q)}
  <1>2. Range(p) \subseteq Srv /\ D(M) = Range(p) /\ \A n \in 1 .. M : p[n] \in Range(p) /\ p[n] \in Srv
    BY DEF Range
  <1>3. 0 \in P
    <2>1. 0 \in 0 .. M /\ D(0) = {}
      BY SMTT(60)
    <2> HIDE DEF D
    <2>2. IsCut(h[0], l, D(0), p, q)
      BY <1>1, <2>1 DEF IsCut
    <2>3. QED
      BY <2>1, <2>2
  <1>4. ASSUME NEW n \in 1 .. M, n - 1 \in P PROVE n \in P
    <2>1. /\ n \in 0 .. M /\ n - 1 \in 0 .. M /\ n - 1 \in Nat
          /\ 1 .. n = (1 .. n - 1) \cup {n} /\ 1 .. n - 1 \subseteq 1 .. M
      BY SMTT(60)
    <2>2. D(n) = D(n - 1) \cup {p[n]} /\ D(n - 1) \in SUBSET Range(p)
      BY <1>2, <2>1
    <2>3. h[n - 1] \in Links /\ h[n] = Turn(h[n - 1], p[n], p, q)
      BY <1>1, <2>1
    <2>4. IsCut(h[n - 1], l, D(n - 1), p, q)
      BY <1>4
    <2> HIDE DEF D
    <2>5. IsCut(h[n], l, D(n), p, q)
      <3>1. IsCut(Turn(h[n - 1], p[n], p, q), l, D(n - 1) \cup {p[n]}, p, q)
        BY <1>2, <2>2, <2>3, <2>4, TurnCuts
      <3>2. QED
        BY <2>2, <2>3, <3>1
    <2>6. QED
      BY <2>1, <2>5
  <1> HIDE DEF P
  <1>5. \A n \in 0 .. M : n \in P
    BY <1>3, <1>4, Turns
  <1>6. M \in P /\ M \in 0 .. M
    BY <1>5, SMTT(60)
  <1>7. IsCut(h[M], l, D(M), p, q)
    BY <1>6 DEF P
  <1>8. QED
    BY <1>1, <1>2, <1>6, <1>7

-----------------------------------------------------------------------------

\* p and q are slices with the servers of the two sides of a partition.
Sides(p, q) ==
    /\ \E n \in Nat : p \in [1 .. n -> Srv]
    /\ \E n \in Nat : q \in [1 .. n -> Srv]
    /\ Range(p) \cap Range(q) = {} /\ Range(p) \cup Range(q) = Srv

\* After Partition all servers are connected, and the links are those within a side.
LEMMA PartitionIs ==
    ASSUME NEW l \in Links, NEW p, NEW q, Sides(p, q)
    PROVE  LET c == CutOff(CutOff(l, p, q), q, p)
           IN /\ c \in Links /\ \A a \in Srv : c.connected[a]
              /\ \A a, b \in Srv : ~(a \in Range(p) /\ b \in Range(q)) /\ ~(a \in Range(q) /\ b \in Range(p))
                                   => c.enabled[a][b]
              /\ \A a \in Range(p), b \in Range(q) : ~c.enabled[a][b] /\ ~c.enabled[b][a]
  <1>1. /\ Range(p) \cap Range(q) = {} /\ Range(q) \cap Range(p) = {} /\ Range(p) \cup Range(q) = Srv
        /\ Range(p) \subseteq Srv /\ Range(q) \subseteq Srv
    BY DEF Sides
  <1>2. PICK m \in Nat : p \in [1 .. m -> Srv]
    BY DEF Sides
  <1>3. PICK n \in Nat : q \in [1 .. n -> Srv]
    BY DEF Sides
  <1> DEFINE d == CutOff(l, p, q)
             c == CutOff(d, q, p)
  <1>4. d \in Links /\ IsCut(d, l, Range(p), p, q)
    BY <1>1, <1>2, CutOffIs
  <1> HIDE DEF d
  <1>5. c \in Links /\ IsCut(c, d, Range(q), q, p)
    BY <1>1, <1>3, <1>4, CutOffIs
  <1> HIDE DEF c
  <1>6. \A a \in Srv : c.connected[a]
    <2>1. \A a \in Range(q) : c.connected[a]
      BY <1>5 DEF IsCut
    <2>2. \A a \in Srv \ Range(q) : c.connected[a] = d.connected[a]
      BY <1>5 DEF IsCut
    <2>3. \A a \in Range(p) : d.connected[a]
      BY <1>4 DEF IsCut
    <2>4. QED
      BY <1>1, <2>1, <2>2, <2>3
  <1>7. \A a, b \in Range(p) : c.enabled[a][b]
    <2>1. \A a, b \in Range(p) : d.enabled[a][b]
      BY <1>4 DEF IsCut
    <2>2. QED
      BY <1>5, <2>1 DEF IsCut
  <1>8. /\ \A a, b \in Range(q) : c.enabled[a][b]
        /\ \A a \in Range(q), b \in Range(p) : ~c.enabled[a][b] /\ ~c.enabled[b][a]
    BY <1>5 DEF IsCut
  <1>9. QED
    BY <1>1, <1>5, <1>6, <1>7, <1>8 DEF c, d

\* Slices without a common server are sides.
LEMMA SlicesAreSides ==
    ASSUME NEW P \in SUBSET Srv, NEW p \in Slices(P), NEW q \in Slices(Srv \ P)
    PROVE  Sides(p, q)
  <1>1. ASSUME NEW Q \in SUBSET Srv, NEW s \in Slices(Q)
        PROVE  (\E n \in Nat : s \in [1 .. n -> Srv]) /\ Range(s) = Q
    <2>1. PICK n \in 0 .. N : s \in Bijection(1 .. n, Q)
      BY DEF Slices
    <2>2. s \in [1 .. n -> Q] /\ \A x \in Q : \E k \in 1 .. n : s[k] = x
      BY <2>1 DEF Bijection, Injection, Surjection
    <2>3. n \in Nat
      BY SMTT(60)
    <2>4. s \in [1 .. n -> Srv] /\ Range(s) = Q
      BY <2>2 DEF Range
    <2>5. QED
      BY <2>3, <2>4
  <1>2. Srv \ P \in SUBSET Srv
    OBVIOUS
  <1>3. QED
    BY <1>1, <1>2 DEF Sides

\* For an odd group, MakePartition makes sides: every server is in one half (group.go:268-286).
LEMMA HalvesAreSides ==
    ASSUME N \in Nat \ {0}, Splittable, NEW l \in Srv
    PROVE  Sides(MakePartition(l)[1], MakePartition(l)[2])
  <1> DEFINE half == N \div 2
             Other(n) == IF n >= N THEN 0 ELSE IF n <= l THEN n - 1 ELSE n
             p == [n \in 1 .. half + 1 |-> Other(n)]
             q == [n \in 1 .. half |-> IF n = half THEN l ELSE Other(half + 1 + n)]
  <1>1. MakePartition(l)[1] = p /\ MakePartition(l)[2] = q
    BY SMTT(60) DEF MakePartition
  <1>2. half \in Nat /\ half >= 1 /\ N = 2 * half + 1 /\ l \in 0 .. N - 1
    BY SMTT(60) DEF Splittable, Srv
  <1> HIDE DEF half
  <1>3. p \in [1 .. half + 1 -> Srv] /\ q \in [1 .. half -> Srv]
    BY <1>2, SMTT(60) DEF Srv
  <1>4. \A m \in 1 .. half + 1, n \in 1 .. half : p[m] # q[n]
    BY <1>2, SMTT(60)
  <1>5. ASSUME NEW s \in Srv
        PROVE  (\E m \in 1 .. half + 1 : p[m] = s) \/ (\E n \in 1 .. half : q[n] = s)
    <2>1. CASE s = l
      BY <1>2, <2>1, SMTT(60)
    <2>2. CASE s < l
      <3>1. CASE s + 1 <= half + 1
        <4>1. s + 1 \in 1 .. half + 1 /\ p[s + 1] = s
          BY <1>2, <2>2, <3>1, SMTT(60) DEF Srv
        <4>2. QED
          BY <4>1
      <3>2. CASE s + 1 > half + 1
        <4>1. s + 1 - (half + 1) \in 1 .. half /\ q[s + 1 - (half + 1)] = s
          BY <1>2, <2>2, <3>2, SMTT(60) DEF Srv
        <4>2. QED
          BY <4>1
      <3>3. QED
        BY <1>2, <3>1, <3>2, SMTT(60) DEF Srv
    <2>3. CASE s > l
      <3>1. CASE s <= half + 1
        <4>1. s \in 1 .. half + 1 /\ p[s] = s
          BY <1>2, <2>3, <3>1, SMTT(60) DEF Srv
        <4>2. QED
          BY <4>1
      <3>2. CASE s > half + 1
        <4>1. s - (half + 1) \in 1 .. half /\ q[s - (half + 1)] = s
          BY <1>2, <2>3, <3>2, SMTT(60) DEF Srv
        <4>2. QED
          BY <4>1
      <3>3. QED
        BY <1>2, <3>1, <3>2, SMTT(60) DEF Srv
    <2>4. QED
      BY <1>2, <2>1, <2>2, <2>3, SMTT(60) DEF Srv
  <1> HIDE DEF p, q
  <1>6. Range(p) \cap Range(q) = {} /\ Range(p) \cup Range(q) = Srv
    <2>1. DOMAIN p = 1 .. half + 1 /\ DOMAIN q = 1 .. half /\ Range(p) \subseteq Srv /\ Range(q) \subseteq Srv
      BY <1>3 DEF Range
    <2>2. Range(p) \cap Range(q) = {}
      BY <1>4, <2>1 DEF Range
    <2>3. \A s \in Srv : s \in Range(p) \/ s \in Range(q)
      BY <1>5, <2>1 DEF Range
    <2>4. QED
      BY <2>1, <2>2, <2>3
  <1>7. half + 1 \in Nat
    BY <1>2, SMTT(60)
  <1>8. QED
    BY <1>1, <1>2, <1>3, <1>6, <1>7 DEF Sides

-----------------------------------------------------------------------------

\* The three invariants are inductive with the types.
GrpInv ==
    /\ N \in Nat \ {0} /\ Current \in Links /\ apart \subseteq Srv \X Srv
    /\ ConnectedCanTalk /\ PartitionHolds /\ DisconnectedIsSilent

\* The state is that of c.
LEMMA Currently ==
    ASSUME NEW c \in Links, enabled' = c.enabled, connected' = c.connected
    PROVE  Current' \in Links
  BY SMTT(60) DEF Current, Links

\* Current puts the two variables together.
LEMMA CurrentIs == Current.enabled = enabled /\ Current.connected = connected
  BY SMTT(60) DEF Current

\* All servers are joined, by ConnectAll or by Partition.
LEMMA JoinedInv ==
    ASSUME N \in Nat \ {0}, NEW c \in Links, Becomes(c), \A a \in Srv : c.connected[a],
           apart' \subseteq Srv \X Srv, \A a, b \in Srv : <<a, b>> \notin apart' => c.enabled[a][b],
           \A x \in apart' : ~c.enabled[x[1]][x[2]]
    PROVE  GrpInv'
  <1>1. enabled' = c.enabled /\ connected' = c.connected
    BY DEF Becomes
  <1>2. Current' \in Links
    BY <1>1, Currently
  <1>3. ConnectedCanTalk' /\ PartitionHolds' /\ DisconnectedIsSilent'
    BY <1>1 DEF ConnectedCanTalk, PartitionHolds, DisconnectedIsSilent
  <1>4. QED
    BY <1>2, <1>3 DEF GrpInv

\* StartServers joins all (group.go:235-239).
LEMMA GrpInit == N \in Nat \ {0} /\ Init => GrpInv
  <1> SUFFICES ASSUME N \in Nat \ {0}, Init PROVE GrpInv
    OBVIOUS
  <1> DEFINE c == ConnectEach(MakeSrvGrp)
  <1>1. MakeSrvGrp \in Links
    BY SMTT(60) DEF MakeSrvGrp, Links
  <1>2. c \in Links /\ (\A a \in Srv : c.connected[a]) /\ \A a, b \in Srv : c.enabled[a][b]
    BY <1>1, ConnectEachIs
  <1>3. enabled = c.enabled /\ connected = c.connected /\ apart = {}
    BY DEF Init
  <1> HIDE DEF c
  <1>4. Current \in Links
    BY <1>2, <1>3, SMTT(60) DEF Current, Links
  <1>5. ConnectedCanTalk /\ PartitionHolds /\ DisconnectedIsSilent
    BY <1>2, <1>3 DEF ConnectedCanTalk, PartitionHolds, DisconnectedIsSilent
  <1>6. QED
    BY <1>3, <1>4, <1>5 DEF GrpInv

\* Connecting i to all gives it the links to all, and from those that are connected.
LEMMA ConnectToAll ==
    ASSUME N \in Nat \ {0}, NEW l \in Links, NEW i \in Srv
    PROVE  \A a, b \in Srv : Connect(l, i, All).enabled[a][b] <=>
               l.enabled[a][b] \/ a = i \/ (b = i /\ l.connected[a])
  <1> DEFINE on == [l.connected EXCEPT ![i] = TRUE]
             incoming == {All[n] : n \in {m \in DOMAIN All : on[m - 1]}}
             out == EnableFrom(l.enabled, i, All)
             E == [a \in Srv |-> [b \in Srv |-> out[a][b] \/ (b = i /\ a \in incoming)]]
  <1>1. Connect(l, i, All).enabled = E
    BY DEF Connect
  <1>2. l.enabled \in [Srv -> [Srv -> BOOLEAN]] /\ l.connected \in [Srv -> BOOLEAN]
    BY DEF Links
  <1>3. on[i] /\ \A a \in Srv : a # i => on[a] = l.connected[a]
    BY <1>2
  <1>4. \A a, b \in Srv : out[a][b] <=> l.enabled[a][b] \/ a = i
    <2>1. Range(All) = Srv
      BY AllIs
    <2>2. QED
      BY <1>2, <2>1 DEF EnableFrom
  <1> HIDE DEF on, out
  <1>5. \A a \in Srv : a \in incoming <=> on[a]
    <2>1. DOMAIN All = 1 .. N /\ \A n \in 1 .. N : All[n] = n - 1 /\ All[n] \in Srv
      BY AllIs DEF All
    <2>2. \A a \in Srv : a + 1 \in 1 .. N /\ (a + 1) - 1 = a
      BY SMTT(60) DEF Srv
    <2>3. ASSUME NEW a \in Srv, on[a] PROVE a \in incoming
      <3>1. a + 1 \in DOMAIN All /\ on[(a + 1) - 1] /\ All[a + 1] = a
        BY <2>1, <2>2, <2>3
      <3>2. QED
        BY <3>1
    <2>4. ASSUME NEW a \in incoming PROVE on[a]
      <3>1. PICK n \in DOMAIN All : on[n - 1] /\ a = All[n]
        OBVIOUS
      <3>2. QED
        BY <2>1, <3>1
    <2> HIDE DEF incoming
    <2>5. QED
      BY <2>3, <2>4
  <1> HIDE DEF incoming
  <1>6. \A a, b \in Srv : E[a][b] <=> out[a][b] \/ (b = i /\ a \in incoming)
    OBVIOUS
  <1> HIDE DEF E
  <1>7. QED
    BY <1>1, <1>3, <1>4, <1>5, <1>6

\* ConnectOne keeps the invariant (group.go:149-166).
LEMMA ConnectOneInv ==
    ASSUME GrpInv, NEW i \in Srv, ConnectOne(i)
    PROVE  GrpInv'
  <1>0. /\ N \in Nat \ {0} /\ Current \in Links /\ apart \subseteq Srv \X Srv
        /\ ConnectedCanTalk /\ PartitionHolds /\ DisconnectedIsSilent
    BY DEF GrpInv
  <1> DEFINE c == Connect(Current, i, All)
  <1>1. enabled' = c.enabled /\ connected' = c.connected /\ fresh' = fresh \ {i} /\ apart' = apart \ With(i)
    BY DEF ConnectOne, Becomes
  <1>2. IsConnected(c, Current, i, All)
    <2>1. Range(All) \subseteq Srv
      BY <1>0, AllIs
    <2>2. QED
      BY <1>0, <2>1, ConnectIs
  <1>3. \A a, b \in Srv : c.enabled[a][b] <=> enabled[a][b] \/ a = i \/ (b = i /\ connected[a])
    <2>1. \A a, b \in Srv : c.enabled[a][b] <=> Current.enabled[a][b] \/ a = i \/ (b = i /\ Current.connected[a])
      BY <1>0, ConnectToAll
    <2>2. QED
      BY <2>1, CurrentIs
  <1> HIDE DEF c
  <1>4. /\ c \in Links /\ c.connected[i]
        /\ \A a \in Srv : a # i => c.connected[a] = connected[a]
    BY <1>2, CurrentIs DEF IsConnected
  <1>5. Current' \in Links
    BY <1>1, <1>4, Currently
  <1>6. apart' \subseteq Srv \X Srv /\ apart' \subseteq apart
    BY <1>0, <1>1
  <1>7. \A a, b \in Srv : <<a, b>> \in apart /\ a # i /\ b # i => <<a, b>> \in apart'
    BY <1>1, SMTT(60) DEF With
  <1>8. ConnectedCanTalk'
    BY <1>0, <1>1, <1>3, <1>4, <1>7 DEF ConnectedCanTalk
  <1>9. PartitionHolds'
    <2>1. SUFFICES ASSUME NEW x \in apart' PROVE ~c.enabled[x[1]][x[2]]
      BY <1>1 DEF PartitionHolds
    <2>2. x \in apart /\ x[1] \in Srv /\ x[2] \in Srv /\ x[1] # i /\ x[2] # i
      BY <1>0, <1>1, SMTT(60) DEF With
    <2>3. QED
      BY <1>0, <1>3, <2>2 DEF PartitionHolds
  <1>10. DisconnectedIsSilent'
    BY <1>0, <1>1, <1>3, <1>4 DEF DisconnectedIsSilent
  <1>11. QED
    BY <1>0, <1>5, <1>6, <1>8, <1>9, <1>10 DEF GrpInv

\* A server is cut off from all.
LEMMA CutOneInv ==
    ASSUME GrpInv, NEW i \in Srv, Becomes(Disconnect(Current, i, All)), apart' = apart,
           fresh \subseteq fresh' \cup {i}
    PROVE  GrpInv'
  <1>0. /\ N \in Nat \ {0} /\ Current \in Links /\ apart \subseteq Srv \X Srv
        /\ ConnectedCanTalk /\ PartitionHolds /\ DisconnectedIsSilent
    BY DEF GrpInv
  <1> DEFINE c == Disconnect(Current, i, All)
  <1>1. enabled' = c.enabled /\ connected' = c.connected
    BY DEF Becomes
  <1>2. IsDisconnected(c, Current, i, All)
    BY <1>0, DisconnectIs
  <1> HIDE DEF c
  <1>3. Range(All) = Srv
    BY <1>0, AllIs
  <1>4. /\ c \in Links /\ ~c.connected[i]
        /\ \A a \in Srv : a # i => c.connected[a] = connected[a]
        /\ \A a, b \in Srv : c.enabled[a][b] <=> enabled[a][b] /\ a # i /\ b # i
    BY <1>2, <1>3, CurrentIs DEF IsDisconnected
  <1>5. Current' \in Links
    BY <1>1, <1>4, Currently
  <1>6. ConnectedCanTalk'
    BY <1>0, <1>1, <1>4 DEF ConnectedCanTalk
  <1>7. PartitionHolds'
    <2>1. SUFFICES ASSUME NEW x \in apart PROVE ~c.enabled[x[1]][x[2]]
      BY <1>1 DEF PartitionHolds
    <2>2. x[1] \in Srv /\ x[2] \in Srv
      BY <1>0, SMTT(60)
    <2>3. QED
      BY <1>0, <1>4, <2>2 DEF PartitionHolds
  <1>8. DisconnectedIsSilent'
    BY <1>0, <1>1, <1>4 DEF DisconnectedIsSilent
  <1>9. QED
    BY <1>0, <1>5, <1>6, <1>7, <1>8 DEF GrpInv

\* A server started anew has no links; its flag stays as it was (group.go:222-233).
LEMMA StartServerInv ==
    ASSUME GrpInv, NEW i \in Srv, StartServer(i)
    PROVE  GrpInv'
  <1>0. /\ N \in Nat \ {0} /\ Current \in Links /\ apart \subseteq Srv \X Srv
        /\ ConnectedCanTalk /\ PartitionHolds /\ DisconnectedIsSilent
    BY DEF GrpInv
  <1>1. /\ enabled' = [enabled EXCEPT ![i] = [j \in Srv |-> FALSE]]
        /\ connected' = connected /\ apart' = apart /\ fresh' = fresh \cup {i}
    BY DEF StartServer
  <1>2. enabled \in [Srv -> [Srv -> BOOLEAN]] /\ connected \in [Srv -> BOOLEAN]
    BY <1>0, SMTT(60) DEF Current, Links
  <1>3. /\ enabled' \in [Srv -> [Srv -> BOOLEAN]]
        /\ \A a, b \in Srv : enabled'[a][b] <=> enabled[a][b] /\ a # i
    BY <1>1, <1>2
  <1>4. Current' \in Links
    BY <1>1, <1>2, <1>3, SMTT(60) DEF Current, Links
  <1>5. ConnectedCanTalk'
    BY <1>0, <1>1, <1>3 DEF ConnectedCanTalk
  <1>6. PartitionHolds'
    <2>1. \A x \in apart : x[1] \in Srv /\ x[2] \in Srv
      BY <1>0, SMTT(60)
    <2>2. QED
      BY <1>0, <1>1, <1>3, <2>1 DEF PartitionHolds
  <1>7. DisconnectedIsSilent'
    BY <1>0, <1>1, <1>3 DEF DisconnectedIsSilent
  <1>8. QED
    BY <1>0, <1>1, <1>4, <1>5, <1>6, <1>7 DEF GrpInv

\* Partition keeps the invariant (group.go:288-298).
LEMMA PartitionInv ==
    ASSUME GrpInv, NEW p, NEW q, Sides(p, q), Partition(p, q)
    PROVE  GrpInv'
  <1>0. N \in Nat \ {0} /\ Current \in Links
    BY DEF GrpInv
  <1> DEFINE c == CutOff(CutOff(Current, p, q), q, p)
  <1>1. Becomes(c) /\ apart' = (Range(p) \X Range(q)) \cup (Range(q) \X Range(p))
    BY DEF Partition
  <1>2. /\ c \in Links /\ \A a \in Srv : c.connected[a]
        /\ \A a, b \in Srv : ~(a \in Range(p) /\ b \in Range(q)) /\ ~(a \in Range(q) /\ b \in Range(p))
                             => c.enabled[a][b]
        /\ \A a \in Range(p), b \in Range(q) : ~c.enabled[a][b] /\ ~c.enabled[b][a]
    BY <1>0, PartitionIs
  <1> HIDE DEF c
  <1>3. apart' \subseteq Srv \X Srv
    BY <1>1 DEF Sides
  <1>4. \A a, b \in Srv : <<a, b>> \notin apart' => c.enabled[a][b]
    BY <1>1, <1>2, SMTT(60)
  <1>5. \A x \in apart' : ~c.enabled[x[1]][x[2]]
    BY <1>1, <1>2, SMTT(60)
  <1>6. QED
    BY <1>0, <1>1, <1>2, <1>3, <1>4, <1>5, JoinedInv

\* Every operation of the tester keeps the invariant.
LEMMA GrpStep == GrpInv /\ [Next]_vars => GrpInv'
  <1> SUFFICES ASSUME GrpInv, [Next]_vars PROVE GrpInv'
    OBVIOUS
  <1>0. N \in Nat \ {0} /\ Current \in Links
    BY DEF GrpInv
  <1>1. ASSUME NEW i \in Srv, ConnectOne(i) PROVE GrpInv'
    BY <1>1, ConnectOneInv
  <1>2. ASSUME NEW i \in Srv, DisconnectAll(i) PROVE GrpInv'
    BY <1>2, CutOneInv DEF DisconnectAll
  <1>3. ASSUME NEW i \in Srv, ShutdownServer(i) PROVE GrpInv'
    BY <1>3, CutOneInv DEF ShutdownServer
  <1>4. ASSUME NEW i \in Srv, StartServer(i) PROVE GrpInv'
    BY <1>4, StartServerInv
  <1>5. CASE ConnectAll
    <2>1. Becomes(ConnectEach(Current)) /\ apart' = {}
      BY <1>5 DEF ConnectAll
    <2>2. QED
      BY <1>0, <2>1, ConnectEachIs, JoinedInv
  <1>6. ASSUME Splittable, NEW l \in Srv, Partition(MakePartition(l)[1], MakePartition(l)[2]) PROVE GrpInv'
    BY <1>0, <1>6, HalvesAreSides, PartitionInv
  <1>7. ASSUME NEW P \in SUBSET Srv, NEW p \in Slices(P), NEW q \in Slices(Srv \ P), Partition(p, q)
        PROVE  GrpInv'
    BY <1>7, SlicesAreSides, PartitionInv
  <1>8. CASE UNCHANGED vars
    BY <1>8 DEF vars, GrpInv, Current, ConnectedCanTalk, PartitionHolds, DisconnectedIsSilent
  <1>9. QED
    BY <1>1, <1>2, <1>3, <1>4, <1>5, <1>6, <1>7, <1>8 DEF Next

\* Every reachable state satisfies the invariant.
LEMMA GrpAlways == Spec => []GrpInv
  <1>1. Init => GrpInv
    BY GrpInit, ServerGrpAssumption
  <1>2. QED
    BY <1>1, GrpStep, PTL DEF Spec

\* For a group of any size, servers that are connected and that no partition separates can
\* call each other, whatever was disconnected, shut down, started or cut before:
\* ConnectOne, ConnectAll, Partition, ShutdownServer and StartServer (group.go:75, 149-166).
THEOREM ConnectedTalk == Spec => []ConnectedCanTalk
  <1>1. GrpInv => ConnectedCanTalk
    BY DEF GrpInv
  <1>2. QED
    BY <1>1, GrpAlways, PTL

\* For a group of any size, servers on different sides of a partition cannot call each other
\* until one of them is connected to all again (Partition and MakePartition,
\* group.go:268, 288-298).
THEOREM PartitionsHold == Spec => []PartitionHolds
  <1>1. GrpInv => PartitionHolds
    BY DEF GrpInv
  <1>2. QED
    BY <1>1, GrpAlways, PTL

\* For a group of any size, a server that was disconnected or shut down sends nothing, even
\* when others join it meanwhile (DisconnectAll and connect, group.go:75, 168-176).
THEOREM DisconnectedAreSilent == Spec => []DisconnectedIsSilent
  <1>1. GrpInv => DisconnectedIsSilent
    BY DEF GrpInv
  <1>2. QED
    BY <1>1, GrpAlways, PTL

=============================================================================
