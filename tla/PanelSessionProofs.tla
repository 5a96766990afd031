------------------------- MODULE PanelSessionProofs -------------------------
(***************************************************************************)
(* Proofs about the panel's session, for any number of events outside the  *)
(* panel and an unlimited supply of identities: the types, that a locked   *)
(* screen shows nothing before somebody proves who he is, and that the     *)
(* server keeps no subscription the panel has forgotten.                   *)
(***************************************************************************)
EXTENDS PanelSession, FiniteSetTheorems, SequenceTheorems, TLAPS

(* The messages to the server, and those to the panel.                      *)
Request ==
  [kind : {"session", "overview", "lock"}]
    \cup [kind : {"subscribe", "unsubscribe"}, id : Sub]

Reply ==
  [kind : {"session"}, allowed : BOOLEAN, locked : BOOLEAN]
    \cup [kind : {"subscribed", "refused"}, id : Sub]
    \cup [kind : {"overview"}, what : {"refused", "locked", "data"},
          rev : 0..MaxOutside]
    \cup [kind : {"event"}, id : Sub,
          what : {"refresh", "screen_locked", "access_revoked"}]
    \cup [kind : {"proved"}]

(* Replies that show something, that lock the screen, that let the user in, *)
(* and that announce that he is no longer let in.                           *)
Revealing == {m \in Reply : m.kind = "overview" /\ m.what = "data"}
Locking == {m \in Reply : \/ m.kind = "overview" /\ m.what = "locked"
                          \/ m.kind = "session" /\ m.locked}
Admitting == {m \in Reply : m.kind = "session" /\ m.allowed}
Revoking == {m \in Reply : m.kind = "event" /\ m.what = "access_revoked"}

LEMMA RequestFields ==
  /\ \A m \in Request :
       /\ m.kind \in {"session", "overview", "lock", "subscribe",
                      "unsubscribe"}
       /\ m.kind \in Addressed => m.id \in Sub
  /\ \A kind \in {"session", "overview", "lock"} :
       Ask(kind) \in Request /\ Ask(kind).kind = kind
  /\ \A kind \in {"subscribe", "unsubscribe"}, id \in Sub :
       /\ About(kind, id) \in Request
       /\ About(kind, id).kind = kind
       /\ About(kind, id).id = id
<1>1. ASSUME NEW m \in Request
      PROVE  /\ m.kind \in {"session", "overview", "lock", "subscribe",
                            "unsubscribe"}
             /\ m.kind \in Addressed => m.id \in Sub
  BY DEF Request, Addressed
<1>2. ASSUME NEW kind \in {"session", "overview", "lock"}
      PROVE  Ask(kind) \in Request /\ Ask(kind).kind = kind
  BY DEF Request, Ask
<1>3. ASSUME NEW kind \in {"subscribe", "unsubscribe"}, NEW id \in Sub
      PROVE  /\ About(kind, id) \in Request
             /\ About(kind, id).kind = kind
             /\ About(kind, id).id = id
  BY DEF Request, About
<1> QED
  BY <1>1, <1>2, <1>3

LEMMA ReplyFields ==
  /\ \A m \in Reply :
       /\ m.kind \in {"session", "subscribed", "refused", "overview", "event",
                      "proved"}
       /\ m.kind \in Addressed => m.id \in Sub
       /\ m.kind = "session" => m.allowed \in BOOLEAN /\ m.locked \in BOOLEAN
       /\ m.kind = "overview" => /\ m.what \in {"refused", "locked", "data"}
                                 /\ m.rev \in 0..MaxOutside
       /\ m.kind = "event" => m.what \in {"refresh", "screen_locked",
                                          "access_revoked"}
  /\ Ask("proved") \in Reply /\ Ask("proved").kind = "proved"
<1>1. ASSUME NEW m \in Reply
      PROVE  /\ m.kind \in {"session", "subscribed", "refused", "overview",
                            "event", "proved"}
             /\ m.kind \in Addressed => m.id \in Sub
             /\ m.kind = "session" => /\ m.allowed \in BOOLEAN
                                      /\ m.locked \in BOOLEAN
             /\ m.kind = "overview" =>
                  /\ m.what \in {"refused", "locked", "data"}
                  /\ m.rev \in 0..MaxOutside
             /\ m.kind = "event" => m.what \in {"refresh", "screen_locked",
                                                "access_revoked"}
  BY DEF Reply, Addressed
<1>2. Ask("proved") \in Reply /\ Ask("proved").kind = "proved"
  BY DEF Reply, Ask
<1> QED
  BY <1>1, <1>2

(* What the server answers.                                                 *)
LEMMA Answers ==
  /\ \A allowed, lock \in BOOLEAN :
       /\ SessionIs(allowed, lock) \in Reply
       /\ SessionIs(allowed, lock).kind = "session"
       /\ SessionIs(allowed, lock).allowed = allowed
       /\ SessionIs(allowed, lock).locked = lock
  /\ \A kind \in {"subscribed", "refused"}, id \in Sub :
       /\ About(kind, id) \in Reply
       /\ About(kind, id).kind = kind
       /\ About(kind, id).id = id
  /\ \A id \in Sub, what \in {"refresh", "screen_locked", "access_revoked"} :
       /\ Event(id, what) \in Reply
       /\ Event(id, what).kind = "event"
       /\ Event(id, what).what = what
  /\ rev \in 0..MaxOutside =>
       \A what \in {"refused", "locked", "data"} :
         /\ Overview(what) \in Reply
         /\ Overview(what).kind = "overview"
         /\ Overview(what).what = what
<1>1. ASSUME NEW allowed \in BOOLEAN, NEW lock \in BOOLEAN
      PROVE  /\ SessionIs(allowed, lock) \in Reply
             /\ SessionIs(allowed, lock).kind = "session"
             /\ SessionIs(allowed, lock).allowed = allowed
             /\ SessionIs(allowed, lock).locked = lock
  BY DEF Reply, SessionIs
<1>2. ASSUME NEW kind \in {"subscribed", "refused"}, NEW id \in Sub
      PROVE  /\ About(kind, id) \in Reply
             /\ About(kind, id).kind = kind
             /\ About(kind, id).id = id
  BY DEF Reply, About
<1>3. ASSUME NEW id \in Sub,
             NEW what \in {"refresh", "screen_locked", "access_revoked"}
      PROVE  /\ Event(id, what) \in Reply
             /\ Event(id, what).kind = "event"
             /\ Event(id, what).what = what
  BY DEF Reply, Event
<1>4. ASSUME rev \in 0..MaxOutside, NEW what \in {"refused", "locked", "data"}
      PROVE  /\ Overview(what) \in Reply
             /\ Overview(what).kind = "overview"
             /\ Overview(what).what = what
  BY <1>4 DEF Reply, Overview
<1> QED
  BY <1>1, <1>2, <1>3, <1>4
-----------------------------------------------------------------------------
(* Queues.  Some(q, S): a message of S is in q; Has(q, kind, id): one of    *)
(* that kind and identity is; LockFirst(q): the lock goes before every read *)
(* of the overview; Excused(q, id, doomed): whenever the panel learns that  *)
(* access was revoked, it will still be told of the subscription id, or     *)
(* that one is doomed and the panel is not let in again meanwhile.          *)
Some(q, S) == \E i \in DOMAIN q : q[i] \in S

Has(q, kind, id) == \E i \in DOMAIN q : q[i].kind = kind /\ q[i].id = id

LockFirst(q) ==
  \A j \in DOMAIN q :
    q[j].kind = "overview" => \E i \in DOMAIN q : i < j /\ q[i].kind = "lock"

Excused(q, id, doomed) ==
  \A i \in DOMAIN q :
    q[i] \in Revoking =>
      \/ \E j \in DOMAIN q : i < j /\ q[j].kind = "subscribed" /\ q[j].id = id
      \/ doomed /\ \A j \in DOMAIN q : i < j => q[j] \notin Admitting

(* r is q without its n-th message.                                         *)
Lacks(r, q, n) ==
  /\ Len(r) = Len(q) - 1
  /\ \A i \in 1..Len(r) : r[i] = q[IF i < n THEN i ELSE i + 1]

LEMMA Shape ==
  ASSUME NEW M, NEW q \in Seq(M)
  PROVE  /\ Len(q) \in Nat
         /\ DOMAIN q = 1..Len(q)
         /\ \A i \in DOMAIN q : q[i] \in M
OBVIOUS

LEMMA Empty ==
  /\ \A M : <<>> \in Seq(M)
  /\ Kinds(<<>>) = {}
  /\ Ids(<<>>) = {}
  /\ \A S : ~Some(<<>>, S)
  /\ \A kind, id : ~Has(<<>>, kind, id)
  /\ \A kind : Single(kind, <<>>)
BY DEF Kinds, Ids, Some, Has, Single

LEMMA TailLacks ==
  ASSUME NEW M, NEW q \in Seq(M), q # <<>>
  PROVE  /\ Tail(q) \in Seq(M)
         /\ 1 \in DOMAIN q
         /\ Head(q) = q[1]
         /\ Head(q) \in M
         /\ Lacks(Tail(q), q, 1)
BY DEF Lacks

LEMMA RemoveLacks ==
  ASSUME NEW M, NEW q \in Seq(M), NEW n \in DOMAIN q
  PROVE  /\ RemoveAt(q, n) \in Seq(M)
         /\ Lacks(RemoveAt(q, n), q, n)
<1>1. n \in 1..Len(q) /\ Len(q) \in Nat
  OBVIOUS
<1> DEFINE a == SubSeq(q, 1, n - 1)
           b == SubSeq(q, n + 1, Len(q))
<1>2. /\ a \in Seq(M)
      /\ Len(a) = n - 1
      /\ \A i \in 1..(n - 1) : a[i] = q[i]
  BY <1>1
<1>3. /\ b \in Seq(M)
      /\ Len(b) = Len(q) - n
      /\ \A i \in 1..(Len(q) - n) : b[i] = q[n + i]
  BY <1>1
<1>4. RemoveAt(q, n) = a \o b
  BY DEF RemoveAt
<1> HIDE DEF a, b
<1>5. a \o b \in Seq(M) /\ Len(a \o b) = Len(q) - 1
  BY <1>1, <1>2, <1>3
<1>6. ASSUME NEW i \in 1..(Len(q) - 1)
      PROVE  (a \o b)[i] = q[IF i < n THEN i ELSE i + 1]
  <2>1. (a \o b)[i] = IF i <= Len(a) THEN a[i] ELSE b[i - Len(a)]
    <3>1. i \in 1..(Len(a) + Len(b))
      BY <1>1, <1>2, <1>3
    <3> QED
      BY <1>2, <1>3, <3>1, ConcatProperties
  <2>2. CASE i < n
    BY <1>1, <1>2, <2>1, <2>2
  <2>3. CASE ~(i < n)
    <3>1. i - (n - 1) \in 1..(Len(q) - n) /\ n + (i - (n - 1)) = i + 1
      BY <1>1, <2>3
    <3>2. (a \o b)[i] = b[i - (n - 1)]
      BY <1>1, <1>2, <2>1, <2>3
    <3> QED
      BY <1>3, <2>3, <3>1, <3>2
  <2> QED
    BY <2>2, <2>3
<1> QED
  BY <1>4, <1>5, <1>6 DEF Lacks

LEMMA Positions ==
  ASSUME NEW M, NEW q \in Seq(M), NEW r \in Seq(M), NEW n \in DOMAIN q,
         Lacks(r, q, n)
  PROVE  /\ \A i \in DOMAIN r :
              /\ i < n => i \in DOMAIN q /\ r[i] = q[i]
              /\ ~(i < n) => i + 1 \in DOMAIN q /\ r[i] = q[i + 1]
         /\ \A i \in DOMAIN q :
              /\ i < n => i \in DOMAIN r /\ r[i] = q[i]
              /\ n < i => i - 1 \in DOMAIN r /\ r[i - 1] = q[i]
<1>1. /\ Len(q) \in Nat /\ Len(r) \in Nat /\ Len(r) = Len(q) - 1
      /\ DOMAIN q = 1..Len(q) /\ DOMAIN r = 1..Len(r)
      /\ n \in 1..Len(q)
      /\ \A i \in DOMAIN r : r[i] = q[IF i < n THEN i ELSE i + 1]
  BY DEF Lacks
<1>2. \A i \in DOMAIN r :
        /\ i < n => i \in DOMAIN q /\ r[i] = q[i]
        /\ ~(i < n) => i + 1 \in DOMAIN q /\ r[i] = q[i + 1]
  BY <1>1
<1>3. \A i \in DOMAIN q :
        /\ i < n => i \in DOMAIN r
        /\ n < i => i - 1 \in DOMAIN r /\ ~(i - 1 < n) /\ (i - 1) + 1 = i
  BY <1>1
<1> QED
  BY <1>2, <1>3

LEMMA LacksViews ==
  ASSUME NEW M, NEW q \in Seq(M), NEW r \in Seq(M), NEW n \in DOMAIN q,
         Lacks(r, q, n)
  PROVE  /\ Kinds(q) = Kinds(r) \cup {q[n].kind}
         /\ \A S : Some(q, S) <=> Some(r, S) \/ q[n] \in S
         /\ \A kind, id : Has(q, kind, id) <=>
              Has(r, kind, id) \/ (q[n].kind = kind /\ q[n].id = id)
         /\ \A kind : Single(kind, q) => Single(kind, r)
         /\ Single(q[n].kind, q) => q[n].kind \notin Kinds(r)
         /\ LockFirst(q) /\ q[n].kind # "lock" => LockFirst(r)
         /\ \A id : \A doomed \in BOOLEAN :
              /\ Excused(q, id, doomed)
              /\ n = 1 \/ q[n].kind # "subscribed"
              => Excused(r, id, doomed)
<1> DEFINE Old(i) == IF i < n THEN i ELSE i + 1
           New(i) == IF i < n THEN i ELSE i - 1
<1>1. n \in Nat /\ \A i \in DOMAIN q : i \in Nat
  OBVIOUS
<1>2. \A i \in DOMAIN r : /\ i \in Nat
                          /\ Old(i) \in DOMAIN q
                          /\ Old(i) # n
                          /\ r[i] = q[Old(i)]
  BY <1>1, Positions
<1>3. \A i \in DOMAIN q : i # n => New(i) \in DOMAIN r /\ r[New(i)] = q[i]
  BY <1>1, Positions
<1>4. /\ \A i, j \in DOMAIN r : (i < j <=> Old(i) < Old(j))
                                /\ (Old(i) = Old(j) => i = j)
      /\ \A i, j \in DOMAIN q : i < j /\ i # n /\ j # n => New(i) < New(j)
      /\ \A i \in DOMAIN r : New(Old(i)) = i
  <2>1. ASSUME NEW i \in Nat, NEW j \in Nat
        PROVE  /\ i < j <=> Old(i) < Old(j)
               /\ Old(i) = Old(j) => i = j
               /\ i < j /\ i # n /\ j # n => New(i) < New(j)
               /\ New(Old(i)) = i
    BY <1>1, <2>1
  <2> QED
    BY <1>1, <1>2, <2>1
<1> HIDE DEF Old, New
<1>5. Kinds(q) = Kinds(r) \cup {q[n].kind}
  <2>1. \A i \in DOMAIN r : r[i].kind \in Kinds(q)
    BY <1>2 DEF Kinds
  <2>2. \A i \in DOMAIN q : q[i].kind \in Kinds(r) \cup {q[n].kind}
    BY <1>3 DEF Kinds
  <2>3. q[n].kind \in Kinds(q)
    BY DEF Kinds
  <2>4. Kinds(r) \subseteq Kinds(q)
    BY <2>1 DEF Kinds
  <2>5. Kinds(q) \subseteq Kinds(r) \cup {q[n].kind}
    BY <2>2 DEF Kinds
  <2> QED
    BY <2>3, <2>4, <2>5
<1>6. \A S : Some(q, S) <=> Some(r, S) \/ q[n] \in S
  BY <1>2, <1>3 DEF Some
<1>7. \A kind, id : Has(q, kind, id) <=>
        Has(r, kind, id) \/ (q[n].kind = kind /\ q[n].id = id)
  BY <1>2, <1>3 DEF Has
<1>8. \A kind : Single(kind, q) => Single(kind, r)
  BY <1>2, <1>4 DEF Single
<1>9. Single(q[n].kind, q) => q[n].kind \notin Kinds(r)
  BY <1>2 DEF Single, Kinds
<1>10. LockFirst(q) /\ q[n].kind # "lock" => LockFirst(r)
  <2> SUFFICES ASSUME LockFirst(q), q[n].kind # "lock",
                      NEW j \in DOMAIN r, r[j].kind = "overview"
               PROVE  \E i \in DOMAIN r : i < j /\ r[i].kind = "lock"
    BY DEF LockFirst
  <2>1. PICK i \in DOMAIN q : i < Old(j) /\ q[i].kind = "lock"
    BY <1>2 DEF LockFirst
  <2>2. New(i) \in DOMAIN r /\ r[New(i)] = q[i] /\ New(i) < New(Old(j))
    BY <1>2, <1>3, <1>4, <2>1
  <2> QED
    BY <1>4, <2>1, <2>2
<1>11. ASSUME NEW id, NEW doomed \in BOOLEAN, Excused(q, id, doomed),
              n = 1 \/ q[n].kind # "subscribed"
       PROVE  Excused(r, id, doomed)
  <2> SUFFICES ASSUME NEW i \in DOMAIN r, r[i] \in Revoking
               PROVE  \/ \E j \in DOMAIN r : i < j /\ r[j].kind = "subscribed"
                                             /\ r[j].id = id
                      \/ doomed /\ \A j \in DOMAIN r :
                                     i < j => r[j] \notin Admitting
    BY DEF Excused
  <2>1. Old(i) \in DOMAIN q /\ q[Old(i)] \in Revoking
    BY <1>2
  <2>2. CASE doomed /\ \A j \in DOMAIN q : Old(i) < j => q[j] \notin Admitting
    BY <1>2, <1>4, <2>2
  <2>3. CASE \E j \in DOMAIN q : Old(i) < j /\ q[j].kind = "subscribed"
                                 /\ q[j].id = id
    <3>1. PICK j \in DOMAIN q : Old(i) < j /\ q[j].kind = "subscribed"
                                /\ q[j].id = id
      BY <2>3
    <3>2. j # n
      BY <1>1, <1>2, <1>11, <2>1, <3>1
    <3>3. New(j) \in DOMAIN r /\ r[New(j)] = q[j] /\ New(Old(i)) < New(j)
      BY <1>2, <1>3, <1>4, <3>1, <3>2
    <3> QED
      BY <1>4, <3>1, <3>3
  <2> QED
    BY <1>11, <2>1, <2>2, <2>3 DEF Excused
<1> QED
  BY <1>5, <1>6, <1>7, <1>8, <1>9, <1>10, <1>11

(* What handling the first message does to a queue.                         *)
LEMMA TailViews ==
  ASSUME NEW M, NEW q \in Seq(M), q # <<>>
  PROVE  /\ Tail(q) \in Seq(M)
         /\ Head(q) \in M
         /\ Kinds(q) = Kinds(Tail(q)) \cup {Head(q).kind}
         /\ \A S : Some(q, S) <=> Some(Tail(q), S) \/ Head(q) \in S
         /\ \A kind, id : Has(q, kind, id) <=>
              Has(Tail(q), kind, id) \/ (Head(q).kind = kind /\ Head(q).id = id)
         /\ \A kind : Single(kind, q) => Single(kind, Tail(q))
         /\ Single(Head(q).kind, q) => Head(q).kind \notin Kinds(Tail(q))
         /\ LockFirst(q) /\ Head(q).kind # "lock" => LockFirst(Tail(q))
         /\ LockFirst(q) => Head(q).kind # "overview"
         /\ \A id : \A doomed \in BOOLEAN :
              /\ Excused(q, id, doomed) => Excused(Tail(q), id, doomed)
              /\ Excused(q, id, doomed) /\ Head(q) \in Revoking =>
                   \/ Has(Tail(q), "subscribed", id)
                   \/ doomed /\ ~Some(Tail(q), Admitting)
<1>1. /\ Tail(q) \in Seq(M)
      /\ 1 \in DOMAIN q
      /\ Head(q) = q[1]
      /\ Head(q) \in M
      /\ Lacks(Tail(q), q, 1)
  BY TailLacks
<1>2. \A i \in DOMAIN q : i \in Nat /\ ~(i < 1)
  OBVIOUS
<1>3. LockFirst(q) => Head(q).kind # "overview"
  BY <1>1, <1>2 DEF LockFirst
<1>4. \A i \in DOMAIN Tail(q) : i + 1 \in DOMAIN q /\ 1 < i + 1
                                /\ Tail(q)[i] = q[i + 1]
  BY <1>1, Positions
<1>5. \A i \in DOMAIN q : 1 < i => i - 1 \in DOMAIN Tail(q)
                                   /\ Tail(q)[i - 1] = q[i]
  BY <1>1, Positions
<1>6. ASSUME NEW id, NEW doomed \in BOOLEAN, Excused(q, id, doomed),
             Head(q) \in Revoking
      PROVE  \/ Has(Tail(q), "subscribed", id)
             \/ doomed /\ ~Some(Tail(q), Admitting)
  <2>1. \/ \E j \in DOMAIN q : 1 < j /\ q[j].kind = "subscribed" /\ q[j].id = id
        \/ doomed /\ \A j \in DOMAIN q : 1 < j => q[j] \notin Admitting
    BY <1>1, <1>6 DEF Excused
  <2> QED
    BY <1>4, <1>5, <2>1 DEF Has, Some
<1> DEFINE n == 1
           r == Tail(q)
<1>7. r = Tail(q) /\ n = 1
  OBVIOUS
<1> HIDE DEF n, r
<1>8. r \in Seq(M) /\ n \in DOMAIN q /\ Lacks(r, q, n)
  BY <1>1, <1>7
<1>9. /\ Kinds(q) = Kinds(r) \cup {q[n].kind}
      /\ \A S : Some(q, S) <=> Some(r, S) \/ q[n] \in S
      /\ \A kind, id : Has(q, kind, id) <=>
           Has(r, kind, id) \/ (q[n].kind = kind /\ q[n].id = id)
      /\ \A kind : Single(kind, q) => Single(kind, r)
      /\ Single(q[n].kind, q) => q[n].kind \notin Kinds(r)
      /\ LockFirst(q) /\ q[n].kind # "lock" => LockFirst(r)
      /\ \A id : \A doomed \in BOOLEAN :
           /\ Excused(q, id, doomed)
           /\ n = 1 \/ q[n].kind # "subscribed"
           => Excused(r, id, doomed)
  BY <1>8, LacksViews
<1> QED
  BY <1>1, <1>3, <1>6, <1>7, <1>9

(* What removing the messages of a kind does to a queue.                    *)
LEMMA WithoutViews ==
  ASSUME NEW M, NEW q \in Seq(M), NEW kind
  PROVE  /\ Without(kind, q) \in Seq(M)
         /\ Kinds(q) \subseteq Kinds(Without(kind, q)) \cup {kind}
         /\ Kinds(Without(kind, q)) \subseteq Kinds(q)
         /\ \A S : Some(Without(kind, q), S) => Some(q, S)
         /\ \A other, id : Has(q, other, id) /\ other # kind =>
              Has(Without(kind, q), other, id)
         /\ \A other : Single(other, q) => Single(other, Without(kind, q))
         /\ Single(kind, q) => kind \notin Kinds(Without(kind, q))
         /\ LockFirst(q) /\ kind # "lock" => LockFirst(Without(kind, q))
         /\ \A id : \A doomed \in BOOLEAN :
              Excused(q, id, doomed) /\ kind # "subscribed" =>
                Excused(Without(kind, q), id, doomed)
<1>1. CASE kind \notin Kinds(q)
  <2>1. Without(kind, q) = q
    BY <1>1 DEF Without
  <2> QED
    BY <1>1, <2>1
<1>2. CASE kind \in Kinds(q)
  <2> DEFINE n == CHOOSE i \in DOMAIN q : q[i].kind = kind
  <2>1. n \in DOMAIN q /\ q[n].kind = kind
    BY <1>2 DEF Kinds
  <2>2. Without(kind, q) = RemoveAt(q, n)
    BY <1>2 DEF Without
  <2> HIDE DEF n
  <2>3. /\ Without(kind, q) \in Seq(M)
        /\ Lacks(Without(kind, q), q, n)
    BY <2>1, <2>2, RemoveLacks
  <2> QED
    BY <2>1, <2>3, LacksViews
<1> QED
  BY <1>1, <1>2

(* What sending a message does to a queue.                                  *)
LEMMA AppendViews ==
  ASSUME NEW M, NEW q \in Seq(M), NEW m \in M
  PROVE  /\ Append(q, m) \in Seq(M)
         /\ Kinds(Append(q, m)) = Kinds(q) \cup {m.kind}
         /\ \A S : Some(Append(q, m), S) <=> Some(q, S) \/ m \in S
         /\ \A kind, id : Has(Append(q, m), kind, id) <=>
              Has(q, kind, id) \/ (m.kind = kind /\ m.id = id)
         /\ \A kind : Single(kind, q) /\ (m.kind # kind \/ kind \notin Kinds(q))
                        => Single(kind, Append(q, m))
         /\ LockFirst(q) /\ (m.kind # "overview" \/ "lock" \in Kinds(q))
              => LockFirst(Append(q, m))
         /\ \A id : \A doomed \in BOOLEAN :
              /\ Excused(q, id, doomed)
              /\ m \in Revoking => doomed
              /\ m \in Admitting => ~doomed
              => Excused(Append(q, m), id, doomed)
<1> DEFINE r == Append(q, m)
           new == Len(q) + 1
<1>1. /\ r \in Seq(M)
      /\ DOMAIN r = DOMAIN q \cup {new}
      /\ \A i \in DOMAIN q : r[i] = q[i] /\ i \in Nat /\ i < new
      /\ new \in Nat
      /\ r[new] = m
  <2>1. /\ r \in Seq(M)
        /\ Len(r) = new
        /\ \A i \in 1..Len(q) : r[i] = q[i]
        /\ r[new] = m
    BY AppendProperties
  <2>2. /\ Len(q) \in Nat
        /\ DOMAIN q = 1..Len(q)
        /\ DOMAIN r = 1..new
    BY <2>1
  <2>3. 1..new = 1..Len(q) \cup {new}
    BY <2>2
  <2>4. \A i \in 1..Len(q) : i \in Nat /\ i < new
    BY <2>2
  <2> QED
    BY <2>1, <2>2, <2>3, <2>4
<1> HIDE DEF r, new
<1>2. Kinds(r) = Kinds(q) \cup {m.kind}
  <2>1. \A i \in DOMAIN r : r[i].kind \in Kinds(q) \cup {m.kind}
    BY <1>1 DEF Kinds
  <2>2. \A i \in DOMAIN q : q[i].kind \in Kinds(r)
    BY <1>1 DEF Kinds
  <2>3. m.kind \in Kinds(r)
    BY <1>1 DEF Kinds
  <2>4. Kinds(r) \subseteq Kinds(q) \cup {m.kind}
    BY <2>1 DEF Kinds
  <2>5. Kinds(q) \subseteq Kinds(r)
    BY <2>2 DEF Kinds
  <2> QED
    BY <2>3, <2>4, <2>5
<1>3. \A S : Some(r, S) <=> Some(q, S) \/ m \in S
  BY <1>1 DEF Some
<1>4. \A kind, id : Has(r, kind, id) <=>
        Has(q, kind, id) \/ (m.kind = kind /\ m.id = id)
  BY <1>1 DEF Has
<1>5. \A kind : Single(kind, q) /\ (m.kind # kind \/ kind \notin Kinds(q))
                  => Single(kind, r)
  BY <1>1 DEF Single, Kinds
<1>6. LockFirst(q) /\ (m.kind # "overview" \/ "lock" \in Kinds(q))
        => LockFirst(r)
  <2> SUFFICES ASSUME LockFirst(q),
                      m.kind # "overview" \/ "lock" \in Kinds(q),
                      NEW j \in DOMAIN r, r[j].kind = "overview"
               PROVE  \E i \in DOMAIN r : i < j /\ r[i].kind = "lock"
    BY DEF LockFirst
  <2>1. CASE j \in DOMAIN q
    BY <1>1, <2>1 DEF LockFirst
  <2>2. CASE j = new
    <3>1. "lock" \in Kinds(q)
      BY <1>1, <2>2
    <3>2. PICK i \in DOMAIN q : q[i].kind = "lock"
      BY <3>1 DEF Kinds
    <3> QED
      BY <1>1, <2>2, <3>2
  <2> QED
    BY <1>1, <2>1, <2>2
<1>7. ASSUME NEW id, NEW doomed \in BOOLEAN, Excused(q, id, doomed),
             m \in Revoking => doomed, m \in Admitting => ~doomed
      PROVE  Excused(r, id, doomed)
  <2> SUFFICES ASSUME NEW i \in DOMAIN r, r[i] \in Revoking
               PROVE  \/ \E j \in DOMAIN r : i < j /\ r[j].kind = "subscribed"
                                             /\ r[j].id = id
                      \/ doomed /\ \A j \in DOMAIN r :
                                     i < j => r[j] \notin Admitting
    BY DEF Excused
  <2>1. CASE i = new
    <3>1. \A j \in DOMAIN r : ~(i < j)
      BY <1>1, <2>1
    <3> QED
      BY <1>1, <1>7, <2>1, <3>1
  <2>2. CASE i \in DOMAIN q
    <3>1. \/ \E j \in DOMAIN q : i < j /\ q[j].kind = "subscribed"
                                 /\ q[j].id = id
          \/ doomed /\ \A j \in DOMAIN q : i < j => q[j] \notin Admitting
      BY <1>1, <1>7, <2>2 DEF Excused
    <3> QED
      BY <1>1, <1>7, <3>1
  <2> QED
    BY <1>1, <2>1, <2>2
<1> QED
  BY <1>1, <1>2, <1>3, <1>4, <1>5, <1>6, <1>7 DEF r

LEMMA Joined ==
  ASSUME NEW M, NEW q \in Seq(M), NEW m \in M
  PROVE  q \o <<>> = q /\ q \o <<m>> = Append(q, m)
BY AppendIsConcat
-----------------------------------------------------------------------------
(* Identities are the message numbers of the websocket library: there is    *)
(* always another one.                                                      *)
Unlimited == ~IsFiniteSet(Sub)

Types ==
  /\ attached \in BOOLEAN
  /\ up \in BOOLEAN
  /\ session \in {"none", "allowed", "denied"}
  /\ locked \in BOOLEAN
  /\ data \in 0..MaxOutside \cup {None}
  /\ reading \in BOOLEAN
  /\ again \in BOOLEAN
  /\ pending \in Sub \cup {None}
  /\ held \in Sub \cup {None}
  /\ toServer \in Seq(Request)
  /\ toPanel \in Seq(Reply)
  /\ idle \in BOOLEAN
  /\ granted \in BOOLEAN
  /\ serverLocked \in BOOLEAN
  /\ served \subseteq Sub
  /\ IsFiniteSet(served)
  /\ dirty \subseteq served
  /\ rev \in 0..MaxOutside
  /\ sealed \in BOOLEAN
  /\ outside \in 0..MaxOutside
  /\ rev <= outside

(* One read of the overview at most is under way, and the panel knows.      *)
Reads(r, s, p) ==
  /\ r <=> "overview" \in Kinds(s) \cup Kinds(p)
  /\ ~("overview" \in Kinds(s) /\ "overview" \in Kinds(p))
  /\ Single("overview", s)
  /\ Single("overview", p)
  /\ Single("proved", p)

Basic ==
  /\ Types
  /\ Reads(reading, toServer, toPanel)
  /\ pending = None \/ held = None
  /\ ~up => toServer = <<>> /\ toPanel = <<>> /\ served = {}
-----------------------------------------------------------------------------
LEMMA IdsFinite == ASSUME NEW M, NEW q \in Seq(M) PROVE IsFiniteSet(Ids(q))
<1> DEFINE J == {j \in DOMAIN q : q[j].kind \in Addressed}
           f == [i \in J |-> q[i].id]
<1>1. IsFiniteSet(J)
  <2>1. Len(q) \in Nat /\ DOMAIN q = 1..Len(q)
    OBVIOUS
  <2>2. IsFiniteSet(1..Len(q))
    BY <2>1, FS_Interval
  <2> QED
    BY <2>1, <2>2, FS_Subset
<1>2. f \in Surjection(J, Ids(q))
  BY DEF Ids, Surjection
<1> QED
  BY <1>1, <1>2, FS_Surjection

LEMMA HasIds ==
  ASSUME NEW q, NEW kind \in Addressed, NEW id, Has(q, kind, id)
  PROVE  id \in Ids(q)
BY DEF Has, Ids

LEMMA FreshUnused ==
  ASSUME Types, Unlimited
  PROVE  /\ Fresh \in Sub
         /\ Fresh \notin served \cup {pending, held}
         /\ ~Has(toPanel, "subscribed", Fresh)
<1> DEFINE Used == served \cup {pending, held} \cup Ids(toServer)
                     \cup Ids(toPanel)
<1>1. IsFiniteSet(Used)
  <2>1. IsFiniteSet(served) /\ IsFiniteSet(Ids(toServer))
        /\ IsFiniteSet(Ids(toPanel))
    BY IdsFinite DEF Types
  <2>2. IsFiniteSet({pending, held})
    <3>1. IsFiniteSet({} \cup {pending})
      BY FS_EmptySet, FS_AddElement
    <3>2. IsFiniteSet(({} \cup {pending}) \cup {held})
      BY <3>1, FS_AddElement
    <3>3. ({} \cup {pending}) \cup {held} = {pending, held}
      OBVIOUS
    <3> QED
      BY <3>2, <3>3
  <2>3. IsFiniteSet(served \cup {pending, held})
    BY <2>1, <2>2, FS_Union
  <2>4. IsFiniteSet(served \cup {pending, held} \cup Ids(toServer))
    BY <2>1, <2>3, FS_Union
  <2> QED
    BY <2>1, <2>4, FS_Union
<1>2. \E id \in Sub : id \notin Used
  <2>1. SUFFICES ASSUME Sub \subseteq Used PROVE FALSE
    OBVIOUS
  <2>2. IsFiniteSet(Sub)
    BY <1>1, <2>1, FS_Subset
  <2> QED
    BY <2>2 DEF Unlimited
<1>3. Fresh \in Sub /\ Fresh \notin Used
  BY <1>2 DEF Fresh
<1>4. "subscribed" \in Addressed
  BY DEF Addressed
<1> QED
  BY <1>3, <1>4, HasIds
-----------------------------------------------------------------------------
LEMMA ReadsEmpty == Reads(FALSE, <<>>, <<>>)
BY Empty DEF Reads

LEMMA ReadsSend ==
  ASSUME NEW r, NEW s \in Seq(Request), NEW p, Reads(r, s, p),
         NEW m \in Request, m.kind # "overview"
  PROVE  Append(s, m) \in Seq(Request) /\ Reads(r, Append(s, m), p)
BY AppendViews DEF Reads

LEMMA ReadsAnswer ==
  ASSUME NEW r, NEW s, NEW p \in Seq(Reply), Reads(r, s, p),
         NEW m \in Reply, m.kind # "overview",
         m.kind # "proved" \/ "proved" \notin Kinds(p)
  PROVE  Append(p, m) \in Seq(Reply) /\ Reads(r, s, Append(p, m))
BY AppendViews DEF Reads

LEMMA ReadsDropped ==
  ASSUME NEW r, NEW s \in Seq(Request), NEW p \in Seq(Reply), Reads(r, s, p)
  PROVE  /\ Without("overview", s) \in Seq(Request)
         /\ Without("overview", p) \in Seq(Reply)
         /\ Reads(FALSE, Without("overview", s), Without("overview", p))
<1>1. /\ Without("overview", s) \in Seq(Request)
      /\ Without("overview", p) \in Seq(Reply)
      /\ "overview" \notin Kinds(Without("overview", s))
      /\ "overview" \notin Kinds(Without("overview", p))
      /\ Single("overview", Without("overview", s))
      /\ Single("overview", Without("overview", p))
      /\ Single("proved", Without("overview", p))
  BY WithoutViews DEF Reads
<1> QED
  BY <1>1 DEF Reads

LEMMA ReadsUnproved ==
  ASSUME NEW r, NEW s, NEW p \in Seq(Reply), Reads(r, s, p)
  PROVE  /\ Without("proved", p) \in Seq(Reply)
         /\ Reads(r, s, Without("proved", p))
<1>1. /\ Without("proved", p) \in Seq(Reply)
      /\ "overview" \in Kinds(Without("proved", p)) <=> "overview" \in Kinds(p)
      /\ Single("overview", Without("proved", p))
      /\ Single("proved", Without("proved", p))
  BY WithoutViews DEF Reads
<1> QED
  BY <1>1 DEF Reads

LEMMA ReadsArrived ==
  ASSUME NEW r, NEW s, NEW p \in Seq(Reply), Reads(r, s, p), p # <<>>
  PROVE  /\ Tail(p) \in Seq(Reply)
         /\ Head(p) \in Reply
         /\ Head(p).kind # "overview" => Reads(r, s, Tail(p))
         /\ Head(p).kind = "overview" => Reads(FALSE, s, Tail(p))
<1>1. /\ Tail(p) \in Seq(Reply)
      /\ Head(p) \in Reply
      /\ Kinds(p) = Kinds(Tail(p)) \cup {Head(p).kind}
      /\ Single("overview", Tail(p))
      /\ Single("proved", Tail(p))
      /\ Single(Head(p).kind, p) => Head(p).kind \notin Kinds(Tail(p))
  BY TailViews DEF Reads
<1> QED
  BY <1>1 DEF Reads

LEMMA ReadsServed ==
  ASSUME NEW r, NEW s \in Seq(Request), NEW p \in Seq(Reply), Reads(r, s, p),
         s # <<>>
  PROVE  /\ Tail(s) \in Seq(Request)
         /\ Head(s) \in Request
         /\ Head(s).kind # "overview" => Reads(r, Tail(s), p)
         /\ Head(s).kind = "overview" =>
              \A m \in Reply : m.kind = "overview" =>
                /\ Append(p, m) \in Seq(Reply)
                /\ Reads(r, Tail(s), Append(p, m))
<1>1. /\ Tail(s) \in Seq(Request)
      /\ Head(s) \in Request
      /\ Kinds(s) = Kinds(Tail(s)) \cup {Head(s).kind}
      /\ Single("overview", Tail(s))
      /\ Single(Head(s).kind, s) => Head(s).kind \notin Kinds(Tail(s))
  BY TailViews DEF Reads
<1>2. ASSUME Head(s).kind = "overview", NEW m \in Reply, m.kind = "overview"
      PROVE  Append(p, m) \in Seq(Reply) /\ Reads(r, Tail(s), Append(p, m))
  <2>1. "overview" \notin Kinds(p) /\ "overview" \notin Kinds(Tail(s))
        /\ (r <=> TRUE)
    BY <1>1, <1>2 DEF Reads
  <2>2. /\ Append(p, m) \in Seq(Reply)
        /\ Kinds(Append(p, m)) = Kinds(p) \cup {"overview"}
        /\ Single("overview", Append(p, m))
        /\ Single("proved", Append(p, m))
    BY <1>2, <2>1, AppendViews DEF Reads
  <2> QED
    BY <1>1, <2>1, <2>2 DEF Reads
<1> QED
  BY <1>1, <1>2 DEF Reads

(* A read that starts, or ends and starts anew.                             *)
LEMMA RefreshReads ==
  ASSUME NEW s \in Seq(Request), NEW p, Reads(reading, s, p),
         reading \in BOOLEAN, Refresh(s)
  PROVE  /\ toServer' \in Seq(Request)
         /\ reading' \in BOOLEAN /\ again' \in BOOLEAN
         /\ Reads(reading', toServer', p)
         /\ \/ toServer' = s
            \/ toServer' = Append(s, Ask("overview")) /\ up'
<1>1. reading' \in BOOLEAN /\ again' \in BOOLEAN
  BY DEF Refresh
<1>2. CASE reading' /\ ~reading
  <2>1. toServer' = Append(s, Ask("overview")) /\ up'
    BY <1>2 DEF Refresh
  <2>2. Ask("overview") \in Request /\ Ask("overview").kind = "overview"
    BY RequestFields
  <2>3. "overview" \notin Kinds(s) /\ "overview" \notin Kinds(p)
    BY <1>2 DEF Reads
  <2>4. /\ toServer' \in Seq(Request)
        /\ Kinds(toServer') = Kinds(s) \cup {"overview"}
        /\ Single("overview", toServer')
    BY <2>1, <2>2, <2>3, AppendViews DEF Reads
  <2> QED
    BY <1>1, <1>2, <2>1, <2>3, <2>4 DEF Reads
<1>3. CASE ~(reading' /\ ~reading)
  <2>1. toServer' = s /\ (reading' <=> reading)
    BY <1>3 DEF Refresh
  <2> QED
    BY <1>1, <2>1 DEF Reads
<1> QED
  BY <1>2, <1>3

LEMMA EndReads ==
  ASSUME NEW s \in Seq(Request), NEW p, Reads(FALSE, s, p), EndRead(s)
  PROVE  /\ toServer' \in Seq(Request)
         /\ reading' \in BOOLEAN /\ again' \in BOOLEAN
         /\ Reads(reading', toServer', p)
         /\ \/ toServer' = s
            \/ toServer' = Append(s, Ask("overview")) /\ up'
<1>1. reading' \in BOOLEAN /\ again' \in BOOLEAN /\ (reading' => up')
  BY DEF EndRead
<1>2. CASE reading'
  <2>1. toServer' = Append(s, Ask("overview"))
    BY <1>2 DEF EndRead
  <2>2. Ask("overview") \in Request /\ Ask("overview").kind = "overview"
    BY RequestFields
  <2>3. "overview" \notin Kinds(s) /\ "overview" \notin Kinds(p)
    BY DEF Reads
  <2>4. /\ toServer' \in Seq(Request)
        /\ Kinds(toServer') = Kinds(s) \cup {"overview"}
        /\ Single("overview", toServer')
    BY <2>1, <2>2, <2>3, AppendViews DEF Reads
  <2> QED
    BY <1>1, <1>2, <2>1, <2>3, <2>4 DEF Reads
<1>3. CASE ~reading'
  <2>1. toServer' = s
    BY <1>3 DEF EndRead
  <2> QED
    BY <1>1, <1>3, <2>1 DEF Reads
<1> QED
  BY <1>2, <1>3

LEMMA ConnectReads ==
  ASSUME Types, Unlimited, NEW s \in Seq(Request), NEW r, NEW p,
         Reads(r, s, p), Connect(s), pending = None \/ held' = None
  PROVE  /\ toServer' \in Seq(Request)
         /\ Reads(r, toServer', p)
         /\ pending' \in Sub \cup {None}
         /\ pending' = None \/ held' = None
         /\ pending' \in {pending, Fresh}
         /\ \/ toServer' = s
            \/ toServer' = Append(s, About("subscribe", Fresh)) /\ up'
<1>1. CASE CanConnect
  <2>1. /\ toServer' = Append(s, About("subscribe", Fresh))
        /\ pending' = Fresh
        /\ held' = None
        /\ up'
    BY <1>1 DEF Connect, CanConnect
  <2>2. Fresh \in Sub
    BY FreshUnused
  <2>3. /\ About("subscribe", Fresh) \in Request
        /\ About("subscribe", Fresh).kind = "subscribe"
    BY <2>2, RequestFields
  <2> QED
    BY <2>1, <2>2, <2>3, ReadsSend
<1>2. CASE ~CanConnect
  BY <1>2 DEF Connect, Types
<1> QED
  BY <1>1, <1>2
-----------------------------------------------------------------------------
(* The panel never takes back a message that ends a subscription or locks   *)
(* the screen, and asks for the overview only after the lock.               *)
Follows(new, old) ==
  /\ \A id : Has(old, "unsubscribe", id) => Has(new, "unsubscribe", id)
  /\ "lock" \in Kinds(old) => "lock" \in Kinds(new)
  /\ "lock" \in Kinds(old) /\ LockFirst(old) => LockFirst(new)

LEMMA FollowsAppend ==
  ASSUME NEW s \in Seq(Request), NEW m \in Request
  PROVE  Follows(Append(s, m), s)
BY AppendViews DEF Follows

LEMMA FollowsWithout ==
  ASSUME NEW s \in Seq(Request)
  PROVE  Follows(Without("overview", s), s)
BY WithoutViews DEF Follows

LEMMA FollowsThen ==
  ASSUME NEW a, NEW b, NEW c, Follows(a, b), Follows(b, c)
  PROVE  Follows(a, c)
BY DEF Follows

(* The subscription held is given back.                                     *)
LEMMA GiveBack ==
  ASSUME Types, NEW s \in Seq(Request), NEW r, NEW p, Reads(r, s, p)
  PROVE  LET t == s \o IfHeld(<<About("unsubscribe", held)>>)
         IN /\ t \in Seq(Request)
            /\ Reads(r, t, p)
            /\ Follows(t, s)
            /\ held # None => Has(t, "unsubscribe", held)
            /\ "lock" \in Kinds(t) => "lock" \in Kinds(s)
<1> DEFINE m == About("unsubscribe", held)
<1>1. CASE held = None
  <2>1. s \o IfHeld(<<m>>) = s
    BY <1>1, Joined DEF IfHeld
  <2>2. Follows(s, s)
    BY DEF Follows
  <2> QED
    BY <1>1, <2>1, <2>2
<1>2. CASE held # None
  <2>1. held \in Sub
    BY <1>2 DEF Types
  <2>2. m \in Request /\ m.kind = "unsubscribe" /\ m.id = held
    BY <2>1, RequestFields
  <2> HIDE DEF m
  <2>3. s \o IfHeld(<<m>>) = Append(s, m)
    BY <1>2, <2>2, Joined DEF IfHeld
  <2>4. /\ Append(s, m) \in Seq(Request)
        /\ Reads(r, Append(s, m), p)
        /\ Follows(Append(s, m), s)
    BY <2>2, ReadsSend, FollowsAppend
  <2>5. /\ Has(Append(s, m), "unsubscribe", held)
        /\ "lock" \in Kinds(Append(s, m)) => "lock" \in Kinds(s)
    BY <2>2, AppendViews
  <2> QED
    BY <2>3, <2>4, <2>5 DEF m
<1> QED
  BY <1>1, <1>2

Returned == Without("overview", toServer)
              \o IfHeld(<<About("unsubscribe", held)>>)

LEMMA ReturnedFacts ==
  ASSUME Types, NEW p \in Seq(Reply), NEW r, Reads(r, toServer, p)
  PROVE  /\ Returned \in Seq(Request)
         /\ Without("overview", p) \in Seq(Reply)
         /\ Reads(FALSE, Returned, Without("overview", p))
         /\ Follows(Returned, toServer)
         /\ held # None => Has(Returned, "unsubscribe", held)
         /\ "lock" \in Kinds(Returned) => "lock" \in Kinds(toServer)
<1> DEFINE s == Without("overview", toServer)
<1>1. toServer \in Seq(Request)
  BY DEF Types
<1>2. /\ s \in Seq(Request)
      /\ Without("overview", p) \in Seq(Reply)
      /\ Reads(FALSE, s, Without("overview", p))
  BY <1>1, ReadsDropped
<1>3. Follows(s, toServer) /\ Kinds(s) \subseteq Kinds(toServer)
  BY <1>1, FollowsWithout, WithoutViews
<1>4. Returned = s \o IfHeld(<<About("unsubscribe", held)>>)
  BY DEF Returned
<1> HIDE DEF s
<1>5. /\ Returned \in Seq(Request)
      /\ Reads(FALSE, Returned, Without("overview", p))
      /\ Follows(Returned, s)
      /\ held # None => Has(Returned, "unsubscribe", held)
      /\ "lock" \in Kinds(Returned) => "lock" \in Kinds(s)
  BY <1>2, <1>4, GiveBack
<1> QED
  BY <1>2, <1>3, <1>5, FollowsThen

(* Everything under way is given up, and one message is sent.               *)
LEMMA AbandonFacts ==
  ASSUME Basic, NEW p \in Seq(Reply), NEW r, Reads(r, toServer, p),
         NEW kind \in {"lock", "session"}, Abandon(p, <<Ask(kind)>>),
         ~up => p = <<>>, up' = up
  PROVE  /\ held' = None
         /\ pending' = None
         /\ toPanel' = Without("overview", p)
         /\ toServer' \in Seq(Request)
         /\ toPanel' \in Seq(Reply)
         /\ reading' \in BOOLEAN /\ again' \in BOOLEAN
         /\ Reads(reading', toServer', toPanel')
         /\ ~up => toServer' = <<>> /\ toPanel' = <<>>
         /\ up => /\ Follows(toServer', toServer)
                  /\ held # None => Has(toServer', "unsubscribe", held)
                  /\ kind = "lock" => "lock" \in Kinds(toServer')
                  /\ "lock" \in Kinds(toServer') => LockFirst(toServer')
         /\ "lock" \in Kinds(toServer') =>
              "lock" \in Kinds(toServer) \/ kind = "lock"
<1> DEFINE q == Append(Returned, Ask(kind))
           m == Ask(kind)
           s == IF up THEN q ELSE <<>>
<1>1. /\ Types
      /\ held' = None /\ pending' = None
      /\ toPanel' = Without("overview", p)
      /\ EndRead(IF up THEN Returned \o <<Ask(kind)>> ELSE <<>>)
  BY DEF Abandon, Basic, Returned
<1>2. /\ Returned \in Seq(Request)
      /\ toPanel' \in Seq(Reply)
      /\ Reads(FALSE, Returned, toPanel')
      /\ Follows(Returned, toServer)
      /\ held # None => Has(Returned, "unsubscribe", held)
      /\ "lock" \in Kinds(Returned) => "lock" \in Kinds(toServer)
  BY <1>1, ReturnedFacts
<1>3. m \in Request /\ m.kind = kind
  BY RequestFields
<1>4. Returned \o <<Ask(kind)>> = q
  BY <1>2, <1>3, Joined
<1>5. /\ q \in Seq(Request)
      /\ Reads(FALSE, q, toPanel')
      /\ Follows(q, toServer)
      /\ held # None => Has(q, "unsubscribe", held)
      /\ Kinds(q) = Kinds(Returned) \cup {kind}
  <2>1. q \in Seq(Request) /\ Reads(FALSE, q, toPanel')
    BY <1>2, <1>3, ReadsSend
  <2>2. Follows(q, Returned)
    BY <1>2, <1>3, FollowsAppend
  <2>3. Follows(q, toServer)
    BY <1>2, <2>2, FollowsThen
  <2>4. /\ held # None => Has(q, "unsubscribe", held)
        /\ Kinds(q) = Kinds(Returned) \cup {kind}
    BY <1>2, <1>3, AppendViews
  <2> QED
    BY <2>1, <2>3, <2>4
<1>6. LockFirst(q)
  BY <1>5 DEF Reads, LockFirst, Kinds
<1> HIDE DEF q, m
<1>7. CASE up
  <2>1. EndRead(q)
    BY <1>1, <1>4, <1>7
  <2>2. /\ toServer' \in Seq(Request)
        /\ reading' \in BOOLEAN /\ again' \in BOOLEAN
        /\ Reads(reading', toServer', toPanel')
        /\ toServer' = q \/ toServer' = Append(q, Ask("overview"))
    BY <1>5, <2>1, EndReads
  <2>3. Ask("overview") \in Request /\ Ask("overview").kind = "overview"
    BY RequestFields
  <2>4. CASE toServer' = q
    BY <1>1, <1>2, <1>5, <1>6, <1>7, <2>2, <2>4
  <2>5. CASE toServer' = Append(q, Ask("overview"))
    <3>1. /\ Follows(toServer', q)
          /\ Kinds(toServer') = Kinds(q) \cup {"overview"}
          /\ Has(q, "unsubscribe", held) => Has(toServer', "unsubscribe", held)
          /\ "lock" \in Kinds(q) => LockFirst(toServer')
      BY <1>5, <1>6, <2>3, <2>5, FollowsAppend, AppendViews
    <3>2. Follows(toServer', toServer)
      BY <1>5, <3>1, FollowsThen
    <3> QED
      BY <1>1, <1>2, <1>5, <1>7, <2>2, <3>1, <3>2
  <2> QED
    BY <2>2, <2>4, <2>5
<1>8. CASE ~up
  <2>1. p = <<>> /\ Without("overview", p) = <<>>
    BY <1>8, Empty DEF Without
  <2>2. EndRead(<<>>)
    BY <1>1, <1>8
  <2>3. toPanel' = <<>>
    BY <1>1, <2>1
  <2>4. Reads(FALSE, <<>>, toPanel')
    BY <2>3, ReadsEmpty
  <2>5. <<>> \in Seq(Request)
    BY Empty
  <2>6. /\ toServer' \in Seq(Request)
        /\ reading' \in BOOLEAN /\ again' \in BOOLEAN
        /\ Reads(reading', toServer', toPanel')
        /\ toServer' = <<>>
    BY <1>8, <2>2, <2>4, <2>5, EndReads
  <2>7. "lock" \notin Kinds(toServer')
    BY <2>6, Empty
  <2> QED
    BY <1>1, <1>2, <1>8, <2>3, <2>6, <2>7
<1> QED
  BY <1>7, <1>8
-----------------------------------------------------------------------------
(* Types, one read at a time, and nothing on a closed connection.           *)
LEMMA HassUpdateBasic == ASSUME Basic, Unlimited, HassUpdate PROVE Basic'
<1>1. /\ UNCHANGED <<attached, up, session, held, locked, data, reading, again,
                     toPanel, idle, granted, serverLocked, served, dirty, rev,
                     sealed, outside>>
      /\ held = None
      /\ up
      /\ Connect(toServer)
  BY DEF HassUpdate, server
<1>2. /\ toServer' \in Seq(Request)
      /\ Reads(reading, toServer', toPanel)
      /\ pending' \in Sub \cup {None}
  BY <1>1, ConnectReads DEF Basic, Types
<1> QED
  BY <1>1, <1>2 DEF Basic, Types

LEMMA TimerBasic == ASSUME Basic, Timer PROVE Basic'
<1>1. /\ UNCHANGED <<attached, up, session, held, pending, locked, data,
                     toPanel, idle, granted, serverLocked, served, dirty, rev,
                     sealed, outside>>
      /\ up
      /\ Refresh(toServer)
  BY DEF Timer, server
<1>2. /\ toServer' \in Seq(Request)
      /\ reading' \in BOOLEAN /\ again' \in BOOLEAN
      /\ Reads(reading', toServer', toPanel)
  BY <1>1, RefreshReads DEF Basic, Types
<1> QED
  BY <1>1, <1>2 DEF Basic, Types

LEMMA OutsideFacts ==
  ASSUME Types, Outside
  PROVE  /\ outside' \in 0..MaxOutside
         /\ outside <= outside'
         /\ \A r \in 0..MaxOutside :
              r <= outside => /\ r <= outside'
                              /\ r + 1 <= outside'
                              /\ r + 1 \in 0..MaxOutside
BY SessionAssumption DEF Types, Outside

(* The first messages on a new connection.                                  *)
LEMMA FirstMessages ==
  ASSUME NEW id \in Sub, NEW r \in BOOLEAN,
         NEW w \in {<<>>, <<About("subscribe", id)>>}
  PROVE  LET t == (IF r THEN <<Ask("overview")>> ELSE <<>>) \o w
         IN /\ t \in Seq(Request)
            /\ Reads(r, t, <<>>)
            /\ "lock" \notin Kinds(t)
<1> DEFINE a == Ask("overview")
           b == About("subscribe", id)
           s == IF r THEN <<a>> ELSE <<>>
<1>1. a \in Request /\ a.kind = "overview" /\ b \in Request
      /\ b.kind = "subscribe"
  BY RequestFields
<1> HIDE DEF a, b
<1>2. <<>> \in Seq(Request) /\ Append(<<>>, a) = <<a>>
  BY <1>1, Empty
<1>3. s \in Seq(Request) /\ Reads(r, s, <<>>) /\ "lock" \notin Kinds(s)
  <2>1. CASE r
    <3>1. /\ Append(<<>>, a) \in Seq(Request)
          /\ Kinds(Append(<<>>, a)) = {"overview"}
          /\ Single("overview", Append(<<>>, a))
      BY <1>1, <1>2, Empty, AppendViews
    <3> QED
      BY <1>2, <2>1, <3>1, Empty DEF Reads
  <2>2. CASE ~r
    BY <1>2, <2>2, Empty, ReadsEmpty
  <2> QED
    BY <2>1, <2>2
<1> HIDE DEF s
<1>4. CASE w = <<>>
  <2>1. s \o w = s
    BY <1>1, <1>3, <1>4, Joined
  <2> QED
    BY <1>3, <2>1 DEF s, a
<1>5. CASE w = <<b>>
  <2>1. s \o w = Append(s, b)
    BY <1>1, <1>3, <1>5, Joined
  <2>2. /\ Append(s, b) \in Seq(Request)
        /\ Reads(r, Append(s, b), <<>>)
        /\ "lock" \notin Kinds(Append(s, b))
    BY <1>1, <1>3, ReadsSend, AppendViews
  <2> QED
    BY <2>1, <2>2 DEF s, a
<1> QED
  BY <1>4, <1>5 DEF b

LEMMA FirstAsk ==
  /\ <<Ask("session")>> \in Seq(Request)
  /\ Reads(FALSE, <<Ask("session")>>, <<>>)
  /\ "lock" \notin Kinds(<<Ask("session")>>)
<1> DEFINE m == Ask("session")
<1>1. m \in Request /\ m.kind = "session"
  BY RequestFields
<1> HIDE DEF m
<1>2. <<>> \in Seq(Request) /\ Append(<<>>, m) = <<m>>
  BY <1>1, Empty
<1>3. /\ Append(<<>>, m) \in Seq(Request)
      /\ Reads(FALSE, Append(<<>>, m), <<>>)
  BY <1>1, <1>2, ReadsEmpty, ReadsSend
<1>4. "lock" \notin Kinds(Append(<<>>, m))
  <2>1. Kinds(Append(<<>>, m)) = {"session"}
    BY <1>1, <1>2, Empty, AppendViews
  <2> QED
    BY <2>1
<1>5. /\ <<m>> \in Seq(Request)
      /\ Reads(FALSE, <<m>>, <<>>)
      /\ "lock" \notin Kinds(<<m>>)
  BY <1>2, <1>3, <1>4, Zenon
<1> QED
  BY <1>5 DEF m

LEMMA NewConnectionFacts ==
  ASSUME Types, NewConnection
  PROVE  /\ up' = TRUE /\ toPanel' = <<>> /\ toPanel' \in Seq(Reply)
         /\ served' = {} /\ IsFiniteSet(served') /\ dirty' = {}
         /\ serverLocked' = idle /\ serverLocked' \in BOOLEAN
         /\ rev' = rev
BY FS_EmptySet, Empty DEF NewConnection, Types

LEMMA SwitchUserBasic == ASSUME Basic, SwitchUser PROVE Basic'
<1>1. /\ UNCHANGED <<attached, locked, idle, sealed>>
      /\ session' = "none" /\ data' = None
      /\ held' = None /\ pending' = None /\ reading' = FALSE /\ again' = FALSE
      /\ granted' \in BOOLEAN
      /\ toServer' = <<Ask("session")>>
      /\ Outside
      /\ NewConnection
  BY DEF SwitchUser
<1>2. rev \in 0..MaxOutside /\ rev <= outside' /\ outside' \in 0..MaxOutside
  BY <1>1, OutsideFacts DEF Basic, Types
<1> QED
  BY <1>1, <1>2, FirstAsk, NewConnectionFacts DEF Basic, Types

LEMMA ReplaceConnectionBasic ==
  ASSUME Basic, Unlimited, ReplaceConnection
  PROVE  Basic' /\ "lock" \notin Kinds(toServer')
<1> DEFINE id == CHOOSE i \in Sub : TRUE
           wanted == IF session = "allowed" THEN <<About("subscribe", id)>>
                     ELSE <<>>
<1>1. /\ UNCHANGED <<attached, session, locked, data, idle, granted, sealed>>
      /\ held' = None
      /\ reading' = (again /\ session = "allowed")
      /\ again' = FALSE
      /\ Outside
      /\ NewConnection
      /\ pending' = IF session = "allowed" THEN id ELSE None
      /\ toServer' = (IF reading' THEN <<Ask("overview")>> ELSE <<>>) \o wanted
  BY DEF ReplaceConnection
<1>2. id \in Sub
  BY FS_EmptySet DEF Unlimited
<1>3. rev \in 0..MaxOutside /\ rev <= outside' /\ outside' \in 0..MaxOutside
  BY <1>1, OutsideFacts DEF Basic, Types
<1>4. wanted \in {<<>>, <<About("subscribe", id)>>} /\ reading' \in BOOLEAN
  BY <1>1
<1> HIDE DEF id, wanted
<1>5. /\ toServer' \in Seq(Request)
      /\ Reads(reading', toServer', <<>>)
      /\ "lock" \notin Kinds(toServer')
  BY <1>1, <1>2, <1>4, FirstMessages
<1>6. pending' \in Sub \cup {None}
  BY <1>1, <1>2
<1> QED
  BY <1>1, <1>3, <1>4, <1>5, <1>6, NewConnectionFacts DEF Basic, Types

LEMMA ReadyBasic ==
  ASSUME Basic, Unlimited, Ready
  PROVE  Basic' /\ "lock" \notin Kinds(toServer')
<1> DEFINE kept == {held, pending} \ {None}
           id == CHOOSE i \in kept : TRUE
           use == IF kept = {} THEN Fresh ELSE id
           wanted == IF Authorized THEN <<About("subscribe", use)>> ELSE <<>>
<1>1. /\ UNCHANGED <<attached, session, locked, data, held, idle, granted,
                     sealed, outside>>
      /\ again' = FALSE
      /\ reading' = (Authorized /\ ~locked)
      /\ NewConnection
      /\ pending' = IF Authorized /\ kept = {} THEN Fresh ELSE pending
      /\ toServer' = (IF reading' THEN <<Ask("overview")>> ELSE <<>>) \o wanted
  BY DEF Ready
<1>2. use \in Sub
  BY FreshUnused DEF Basic, Types
<1>3. /\ pending' \in Sub \cup {None}
      /\ pending' = None \/ held' = None
  BY <1>1, <1>2, FreshUnused DEF Basic, Types
<1>4. wanted \in {<<>>, <<About("subscribe", use)>>} /\ reading' \in BOOLEAN
  BY <1>1
<1> HIDE DEF kept, id, use, wanted
<1>5. /\ toServer' \in Seq(Request)
      /\ Reads(reading', toServer', <<>>)
      /\ "lock" \notin Kinds(toServer')
  BY <1>1, <1>2, <1>4, FirstMessages
<1> QED
  BY <1>1, <1>3, <1>4, <1>5, NewConnectionFacts DEF Basic, Types

LEMMA RoleDroppedBasic == ASSUME Basic, RoleDropped PROVE Basic'
<1>1. /\ UNCHANGED <<attached, up, locked, idle, sealed, serverLocked, served,
                     dirty, rev>>
      /\ up
      /\ session' = "none" /\ data' = None /\ granted' \in BOOLEAN
      /\ Outside
      /\ Abandon(toPanel, <<Ask("session")>>)
  BY DEF RoleDropped
<1>2. rev <= outside' /\ outside' \in 0..MaxOutside
  BY <1>1, OutsideFacts DEF Basic, Types
<1>3. /\ held' = None
      /\ pending' = None
      /\ toServer' \in Seq(Request)
      /\ toPanel' \in Seq(Reply)
      /\ reading' \in BOOLEAN /\ again' \in BOOLEAN
      /\ Reads(reading', toServer', toPanel')
  BY <1>1, AbandonFacts DEF Basic, Types
<1> QED
  BY <1>1, <1>2, <1>3 DEF Basic, Types

LEMMA LoseBasic == ASSUME Basic, Lose PROVE Basic'
<1>1. /\ UNCHANGED <<attached, locked, data, pending, held, idle, granted,
                     serverLocked, rev, sealed>>
      /\ up' = FALSE /\ toServer' = <<>> /\ toPanel' = <<>>
      /\ served' = {} /\ dirty' = {} /\ reading' = FALSE /\ again' = FALSE
      /\ session' \in {"none", session}
      /\ Outside
  BY DEF Lose
<1>2. rev <= outside' /\ outside' \in 0..MaxOutside
  BY <1>1, OutsideFacts DEF Basic, Types
<1>3. toServer' \in Seq(Request) /\ toPanel' \in Seq(Reply)
  BY <1>1, Empty
<1>4. IsFiniteSet(served')
  BY <1>1, FS_EmptySet
<1>5. Reads(reading', toServer', toPanel')
  BY <1>1, ReadsEmpty
<1> QED
  BY <1>1, <1>2, <1>3, <1>4, <1>5 DEF Basic, Types

LEMMA DetachFacts ==
  ASSUME Basic, Detach
  PROVE  /\ toServer' \in Seq(Request)
         /\ toPanel' \in Seq(Reply)
         /\ Reads(FALSE, toServer', toPanel')
         /\ ~up => toServer' = <<>> /\ toPanel' = <<>>
<1>1. /\ toPanel' = Without("proved", Without("overview", toPanel))
      /\ toServer' = IF up THEN Returned ELSE <<>>
  BY DEF Detach, Returned
<1>2. /\ Returned \in Seq(Request)
      /\ Without("overview", toPanel) \in Seq(Reply)
      /\ Reads(FALSE, Returned, Without("overview", toPanel))
  BY ReturnedFacts DEF Basic, Types
<1>3. /\ toPanel' \in Seq(Reply)
      /\ Reads(FALSE, Returned, toPanel')
  BY <1>1, <1>2, ReadsUnproved
<1>4. CASE up
  BY <1>1, <1>2, <1>3, <1>4
<1>5. CASE ~up
  <2>1. toPanel = <<>> /\ toServer' = <<>>
    BY <1>1, <1>5 DEF Basic
  <2>2. toPanel' = <<>>
    BY <1>1, <2>1, Empty DEF Without
  <2> QED
    BY <1>3, <2>1, <2>2, Empty, ReadsEmpty
<1> QED
  BY <1>4, <1>5

LEMMA DetachBasic == ASSUME Basic, Detach PROVE Basic'
<1>1. /\ UNCHANGED <<up, session, locked, idle, granted, serverLocked, served,
                     dirty, rev, sealed>>
      /\ attached' = FALSE /\ data' = None /\ held' = None /\ pending' = None
      /\ reading' = FALSE /\ again' = FALSE
      /\ Outside
  BY DEF Detach, server
<1>2. rev <= outside' /\ outside' \in 0..MaxOutside
  BY <1>1, OutsideFacts DEF Basic, Types
<1> QED
  BY <1>1, <1>2, DetachFacts DEF Basic, Types

LEMMA AttachBasic == ASSUME Basic, Attach PROVE Basic'
<1>1. /\ UNCHANGED <<up, locked, data, reading, again, pending, held, toPanel,
                     idle, granted, serverLocked, served, dirty, rev, sealed>>
      /\ attached' = TRUE
      /\ Outside
      /\ \/ up' /\ session' = session
            /\ toServer' = Append(toServer, Ask("session"))
         \/ ~up' /\ session' = "none" /\ toServer' = toServer
  BY DEF Attach, Bootstrap, server
<1>2. rev <= outside' /\ outside' \in 0..MaxOutside
  BY <1>1, OutsideFacts DEF Basic, Types
<1>3. Ask("session") \in Request /\ Ask("session").kind = "session"
  BY RequestFields
<1>4. toServer' \in Seq(Request) /\ Reads(reading, toServer', toPanel)
  BY <1>1, <1>3, ReadsSend DEF Basic, Types
<1> QED
  BY <1>1, <1>2, <1>4 DEF Basic, Types
-----------------------------------------------------------------------------
LEMMA ArrivedFacts ==
  ASSUME Basic, toPanel # <<>>
  PROVE  /\ up
         /\ Rest \in Seq(Reply)
         /\ Message \in Reply
         /\ Message.kind # "overview" => Reads(reading, toServer, Rest)
         /\ Message.kind = "overview" => Reads(FALSE, toServer, Rest)
BY ReadsArrived DEF Basic, Types, Message, Rest

(* A screen that is locked on a message, or by the idle timer.              *)
LEMMA LockScreenBasic ==
  ASSUME Basic, NEW p \in Seq(Reply), LockScreen(p), ~up => p = <<>>,
         NEW r, Reads(r, toServer, p),
         session' \in {"none", "allowed", "denied"},
         UNCHANGED <<attached, up, idle, granted, serverLocked, served, dirty,
                     rev>>,
         outside' \in 0..MaxOutside, outside <= outside'
  PROVE  Basic'
<1>1. /\ locked' = TRUE /\ data' = None /\ sealed' = TRUE
      /\ Abandon(p, <<Ask("lock")>>)
  BY DEF LockScreen
<1>2. /\ held' = None /\ pending' = None
      /\ toServer' \in Seq(Request) /\ toPanel' \in Seq(Reply)
      /\ reading' \in BOOLEAN /\ again' \in BOOLEAN
      /\ Reads(reading', toServer', toPanel')
      /\ ~up => toServer' = <<>> /\ toPanel' = <<>>
  BY <1>1, AbandonFacts
<1>3. rev <= outside'
  BY DEF Basic, Types
<1> QED
  BY <1>1, <1>2, <1>3 DEF Basic, Types

LEMMA SessionArrivesBasic ==
  ASSUME Basic, Unlimited, SessionArrives
  PROVE  Basic'
<1>1. /\ UNCHANGED <<attached, up, idle, granted, serverLocked, served, dirty,
                     rev, outside>>
      /\ toPanel # <<>>
      /\ Message.kind = "session"
      /\ session' = IF ~attached THEN session
                    ELSE IF Message.allowed THEN "allowed" ELSE "denied"
  BY DEF SessionArrives, First, Message, server
<1>2. /\ up /\ Rest \in Seq(Reply) /\ Message \in Reply
      /\ Reads(reading, toServer, Rest)
      /\ Message.allowed \in BOOLEAN
      /\ session' \in {"none", "allowed", "denied"}
  BY <1>1, ArrivedFacts, ReplyFields DEF Basic, Types
<1>3. CASE LockScreen(Rest)
  <2>1. /\ session' \in {"none", "allowed", "denied"}
        /\ outside' \in 0..MaxOutside /\ outside <= outside'
    BY <1>1, <1>2 DEF Basic, Types
  <2> QED
    BY <1>1, <1>2, <1>3, <2>1, LockScreenBasic
<1>4. CASE /\ toPanel' = Rest
           /\ UNCHANGED <<locked, data, reading, again, pending, held, toServer,
                          sealed>>
  BY <1>1, <1>2, <1>4 DEF Basic, Types
<1>5. CASE /\ locked' = FALSE
           /\ toPanel' = IF locked THEN Without("proved", Rest) ELSE Rest
           /\ held' = IF Message.allowed THEN held ELSE None
           /\ data' = IF Message.allowed THEN data ELSE None
           /\ Connect(IF Message.allowed THEN toServer ELSE
                      toServer \o IfHeld(<<About("unsubscribe", held)>>))
           /\ UNCHANGED <<reading, again, sealed>>
  <2> DEFINE s == IF Message.allowed THEN toServer ELSE
                  toServer \o IfHeld(<<About("unsubscribe", held)>>)
  <2>1. toPanel' \in Seq(Reply) /\ Reads(reading, toServer, toPanel')
    BY <1>2, <1>5, ReadsUnproved
  <2>2. s \in Seq(Request) /\ Reads(reading, s, toPanel')
    <3>1. toServer \in Seq(Request) /\ Types
      BY DEF Basic, Types
    <3>2. toServer \o IfHeld(<<About("unsubscribe", held)>>) \in Seq(Request)
          /\ Reads(reading, toServer \o IfHeld(<<About("unsubscribe", held)>>),
                   toPanel')
      BY <2>1, <3>1, GiveBack
    <3> QED
      BY <2>1, <3>1, <3>2
  <2>3. held' \in Sub \cup {None} /\ (pending = None \/ held' = None)
        /\ data' \in 0..MaxOutside \cup {None}
    BY <1>5 DEF Basic, Types
  <2> HIDE DEF s
  <2>4. Connect(s)
    BY <1>5 DEF s
  <2>5. /\ toServer' \in Seq(Request)
        /\ Reads(reading, toServer', toPanel')
        /\ pending' \in Sub \cup {None}
        /\ pending' = None \/ held' = None
    BY <2>2, <2>3, <2>4, ConnectReads DEF Basic
  <2> QED
    BY <1>1, <1>2, <1>5, <2>1, <2>3, <2>5 DEF Basic, Types
<1> QED
  BY <1>3, <1>4, <1>5 DEF SessionArrives

LEMMA SubscribedArrivesBasic ==
  ASSUME Basic, SubscribedArrives
  PROVE  Basic'
<1>1. /\ UNCHANGED <<attached, up, session, locked, data, idle, granted,
                     serverLocked, served, dirty, rev, sealed, outside>>
      /\ toPanel # <<>>
      /\ toPanel' = Rest
      /\ Message.kind = "subscribed"
  BY DEF SubscribedArrives, First, Message, server
<1>2. /\ up /\ Rest \in Seq(Reply) /\ Message \in Reply
      /\ Reads(reading, toServer, Rest)
      /\ Message.id \in Sub
  BY <1>1, ArrivedFacts, ReplyFields DEF Addressed
<1>3. CASE held' = pending /\ pending' = None /\ Refresh(toServer)
  <2>1. /\ toServer' \in Seq(Request)
        /\ reading' \in BOOLEAN /\ again' \in BOOLEAN
        /\ Reads(reading', toServer', Rest)
    BY <1>2, <1>3, RefreshReads DEF Basic, Types
  <2> QED
    BY <1>1, <1>2, <1>3, <2>1 DEF Basic, Types
<1>4. CASE /\ toServer' = IF Message.id = held THEN toServer
                          ELSE Append(toServer,
                                      About("unsubscribe", Message.id))
           /\ UNCHANGED <<reading, again, pending, held>>
  <2> DEFINE m == About("unsubscribe", Message.id)
  <2>1. m \in Request /\ m.kind = "unsubscribe"
    BY <1>2, RequestFields
  <2> HIDE DEF m
  <2>2. Append(toServer, m) \in Seq(Request)
        /\ Reads(reading, Append(toServer, m), Rest)
    BY <1>2, <2>1, ReadsSend DEF Basic, Types
  <2>3. toServer' = toServer \/ toServer' = Append(toServer, m)
    BY <1>4 DEF m
  <2>4. toServer' \in Seq(Request) /\ Reads(reading, toServer', Rest)
    BY <1>2, <2>2, <2>3 DEF Basic, Types
  <2> QED
    BY <1>1, <1>2, <1>4, <2>4 DEF Basic, Types
<1> QED
  BY <1>3, <1>4 DEF SubscribedArrives

LEMMA RefusedArrivesBasic == ASSUME Basic, RefusedArrives PROVE Basic'
<1>1. /\ UNCHANGED <<attached, up, session, locked, data, reading, again, held,
                     toServer, idle, granted, serverLocked, served, dirty, rev,
                     sealed, outside>>
      /\ toPanel # <<>>
      /\ toPanel' = Rest
      /\ Message.kind = "refused"
      /\ pending' \in {pending, None}
  BY DEF RefusedArrives, First, Message, server
<1>2. up /\ Rest \in Seq(Reply) /\ Reads(reading, toServer, Rest)
  BY <1>1, ArrivedFacts
<1> QED
  BY <1>1, <1>2 DEF Basic, Types

LEMMA OverviewArrivesBasic == ASSUME Basic, OverviewArrives PROVE Basic'
<1>1. /\ UNCHANGED <<attached, up, session, idle, granted, serverLocked, served,
                     dirty, rev, outside>>
      /\ toPanel # <<>>
      /\ Message.kind = "overview"
  BY DEF OverviewArrives, First, Message, server
<1>2. /\ up /\ Rest \in Seq(Reply) /\ Message \in Reply
      /\ Reads(FALSE, toServer, Rest)
      /\ Message.rev \in 0..MaxOutside
  BY <1>1, ArrivedFacts, ReplyFields
<1>3. CASE LockScreen(Rest)
  <2>1. /\ session' \in {"none", "allowed", "denied"}
        /\ outside' \in 0..MaxOutside /\ outside <= outside'
    BY <1>1, <1>2 DEF Basic, Types
  <2> QED
    BY <1>1, <1>2, <1>3, <2>1, LockScreenBasic
<1>4. CASE /\ data' \in {Message.rev, data}
           /\ toPanel' = Rest
           /\ EndRead(toServer)
           /\ UNCHANGED <<locked, pending, held, sealed>>
  <2>1. /\ toServer' \in Seq(Request)
        /\ reading' \in BOOLEAN /\ again' \in BOOLEAN
        /\ Reads(reading', toServer', Rest)
    BY <1>2, <1>4, EndReads DEF Basic, Types
  <2> QED
    BY <1>1, <1>2, <1>4, <2>1 DEF Basic, Types
<1> QED
  BY <1>3, <1>4 DEF OverviewArrives

LEMMA EventArrivesBasic == ASSUME Basic, EventArrives PROVE Basic'
<1>1. /\ UNCHANGED <<attached, up, locked, pending, idle, granted, serverLocked,
                     served, dirty, rev, sealed, outside>>
      /\ toPanel # <<>>
      /\ Message.kind = "event"
  BY DEF EventArrives, First, Message, server
<1>2. up /\ Rest \in Seq(Reply) /\ Reads(reading, toServer, Rest)
  BY <1>1, ArrivedFacts
<1>3. CASE /\ session' = "none"
           /\ data' = None
           /\ held' = None
           /\ toPanel' = Without("overview", Rest)
           /\ EndRead(Without("overview", toServer))
  <2>1. /\ Without("overview", toServer) \in Seq(Request)
        /\ toPanel' \in Seq(Reply)
        /\ Reads(FALSE, Without("overview", toServer), toPanel')
    BY <1>2, <1>3, ReadsDropped DEF Basic, Types
  <2>2. /\ toServer' \in Seq(Request)
        /\ reading' \in BOOLEAN /\ again' \in BOOLEAN
        /\ Reads(reading', toServer', toPanel')
    BY <1>3, <2>1, EndReads
  <2> QED
    BY <1>1, <1>2, <1>3, <2>1, <2>2 DEF Basic, Types
<1>4. CASE /\ toPanel' = Rest
           /\ UNCHANGED <<session, data, held>>
           /\ Refresh(toServer)
  <2>1. /\ toServer' \in Seq(Request)
        /\ reading' \in BOOLEAN /\ again' \in BOOLEAN
        /\ Reads(reading', toServer', Rest)
    BY <1>2, <1>4, RefreshReads DEF Basic, Types
  <2> QED
    BY <1>1, <1>2, <1>4, <2>1 DEF Basic, Types
<1> QED
  BY <1>3, <1>4 DEF EventArrives

LEMMA ProvedArrivesBasic == ASSUME Basic, ProvedArrives PROVE Basic'
<1>1. /\ UNCHANGED <<attached, up, session, data, reading, again, pending, held,
                     idle, granted, serverLocked, served, dirty, rev, sealed,
                     outside>>
      /\ toPanel # <<>>
      /\ toPanel' = Rest
      /\ locked' = FALSE
      /\ toServer' = Append(toServer, Ask("session"))
      /\ Message.kind = "proved"
  BY DEF ProvedArrives, First, Message, server
<1>2. up /\ Rest \in Seq(Reply) /\ Reads(reading, toServer, Rest)
  BY <1>1, ArrivedFacts
<1>3. Ask("session") \in Request /\ Ask("session").kind = "session"
  BY RequestFields
<1>4. toServer' \in Seq(Request) /\ Reads(reading, toServer', Rest)
  BY <1>1, <1>2, <1>3, ReadsSend DEF Basic, Types
<1> QED
  BY <1>1, <1>2, <1>4 DEF Basic, Types
-----------------------------------------------------------------------------
LEMMA ClientIdleBasic == ASSUME Basic, ClientIdle PROVE Basic'
<1>1. /\ UNCHANGED <<attached, up, session, idle, granted, serverLocked, served,
                     dirty, rev>>
      /\ Outside
      /\ LockScreen(toPanel)
  BY DEF ClientIdle, server
<1>2. outside' \in 0..MaxOutside /\ outside <= outside'
  BY <1>1, OutsideFacts DEF Basic
<1> QED
  BY <1>1, <1>2, LockScreenBasic DEF Basic, Types

LEMMA ServerIdleBasic == ASSUME Basic, ServerIdle PROVE Basic'
<1>1. /\ UNCHANGED <<attached, session, locked, data, reading, again, pending,
                     held, up, toServer, toPanel, idle, granted, served, dirty,
                     rev, sealed>>
      /\ serverLocked' = TRUE
      /\ Outside
  BY DEF ServerIdle, panel
<1>2. rev <= outside' /\ outside' \in 0..MaxOutside
  BY <1>1, OutsideFacts DEF Basic, Types
<1> QED
  BY <1>1, <1>2 DEF Basic, Types

LEMMA ProveBasic == ASSUME Basic, Prove PROVE Basic'
<1>1. /\ UNCHANGED <<attached, session, locked, data, reading, again, pending,
                     held, up, toServer, idle, granted, served, dirty, rev>>
      /\ up
      /\ serverLocked' = FALSE /\ sealed' = FALSE
      /\ "proved" \notin Kinds(toPanel)
      /\ toPanel' = Append(toPanel, Ask("proved"))
      /\ Outside
  BY DEF Prove, panel
<1>2. rev <= outside' /\ outside' \in 0..MaxOutside
  BY <1>1, OutsideFacts DEF Basic, Types
<1>3. Ask("proved") \in Reply /\ Ask("proved").kind = "proved"
  BY ReplyFields
<1>4. toPanel' \in Seq(Reply) /\ Reads(reading, toServer, toPanel')
  BY <1>1, <1>3, ReadsAnswer DEF Basic, Types
<1> QED
  BY <1>1, <1>2, <1>4 DEF Basic, Types

LEMMA ChangesBasic == ASSUME Basic, Change \/ Permit PROVE Basic'
<1>1. /\ UNCHANGED <<attached, session, locked, data, reading, again, pending,
                     held, up, toServer, toPanel, idle, serverLocked, served,
                     sealed>>
      /\ rev' = rev \/ rev' = rev + 1
      /\ granted' = granted \/ granted' = ~granted
      /\ dirty' = served
      /\ Outside
  BY DEF Change, Permit, panel
<1>2. /\ rev' \in 0..MaxOutside /\ rev' <= outside'
      /\ outside' \in 0..MaxOutside
  BY <1>1, OutsideFacts DEF Basic, Types
<1>3. granted' \in BOOLEAN
  BY <1>1 DEF Basic, Types
<1>4. dirty' \subseteq served'
  BY <1>1
<1> QED
  BY <1>1, <1>2, <1>3, <1>4 DEF Basic, Types

LEMMA NotifyBasic == ASSUME Basic, NEW id \in Sub, Notify(id) PROVE Basic'
<1> DEFINE what == IF serverLocked THEN "screen_locked"
                   ELSE IF granted THEN "refresh" ELSE "access_revoked"
           m == Event(id, what)
<1>1. /\ UNCHANGED <<attached, session, locked, data, reading, again, pending,
                     held, up, toServer, idle, granted, serverLocked, rev,
                     sealed, outside>>
      /\ id \in dirty
      /\ dirty' = dirty \ {id}
      /\ toPanel' = Append(toPanel, m)
      /\ served' = IF what = "refresh" THEN served ELSE served \ {id}
      /\ what = "refresh" \/ served' = served \ {id}
  BY DEF Notify, panel
<1>2. m \in Reply /\ m.kind = "event"
  BY Answers
<1> HIDE DEF m, what
<1>3. toPanel' \in Seq(Reply) /\ Reads(reading, toServer, toPanel')
  BY <1>1, <1>2, ReadsAnswer DEF Basic, Types
<1>4. IsFiniteSet(served') /\ served' \subseteq Sub /\ dirty' \subseteq served'
  BY <1>1, FS_RemoveElement DEF Basic, Types
<1>5. up
  BY <1>1 DEF Basic, Types
<1> QED
  BY <1>1, <1>3, <1>4, <1>5 DEF Basic, Types
(* What the server does with the first message.                             *)
ServeSession ==
  /\ Head(toServer).kind = "session"
  /\ toPanel' = Append(toPanel, SessionIs(granted, serverLocked))
  /\ UNCHANGED <<serverLocked, served, dirty>>

ServeSubscribe ==
  /\ Head(toServer).kind = "subscribe"
  /\ toPanel' = Append(toPanel,
                       About(IF granted THEN "subscribed" ELSE "refused",
                             Head(toServer).id))
  /\ served' = IF granted THEN served \cup {Head(toServer).id} ELSE served
  /\ UNCHANGED <<serverLocked, dirty>>

ServeUnsubscribe ==
  /\ Head(toServer).kind = "unsubscribe"
  /\ served' = served \ {Head(toServer).id}
  /\ dirty' = dirty \ {Head(toServer).id}
  /\ UNCHANGED <<toPanel, serverLocked>>

ServeOverview ==
  /\ Head(toServer).kind = "overview"
  /\ toPanel' = Append(toPanel,
                       Overview(IF ~granted THEN "refused"
                                ELSE IF serverLocked THEN "locked"
                                ELSE "data"))
  /\ UNCHANGED <<serverLocked, served, dirty>>

ServeLock ==
  /\ Head(toServer).kind = "lock"
  /\ serverLocked' = TRUE
  /\ UNCHANGED <<toPanel, served, dirty>>

LEMMA ServeFacts ==
  ASSUME Basic, Serve
  PROVE  /\ UNCHANGED <<attached, session, locked, data, reading, again,
                        pending, held, up, idle, granted, rev, sealed, outside>>
         /\ toServer # <<>>
         /\ toServer' = Tail(toServer)
         /\ up
         /\ Head(toServer) \in Request
         /\ \/ ServeSession
            \/ ServeSubscribe
            \/ ServeUnsubscribe
            \/ ServeOverview
            \/ ServeLock
<1>1. /\ UNCHANGED <<attached, session, locked, data, reading, again,
                     pending, held, up, idle, granted, rev, sealed, outside>>
      /\ toServer # <<>>
      /\ toServer' = Tail(toServer)
  BY DEF Serve, panel
<1>2. up /\ Head(toServer) \in Request
  BY <1>1, TailViews DEF Basic, Types
<1>3. \/ ServeSession
      \/ ServeSubscribe
      \/ ServeUnsubscribe
      \/ ServeOverview
      \/ ServeLock
  BY Zenon DEF Serve, ServeSession, ServeSubscribe, ServeUnsubscribe,
               ServeOverview, ServeLock
<1> QED
  BY <1>1, <1>2, <1>3

LEMMA ServeBasic == ASSUME Basic, Serve PROVE Basic'
<1>1. /\ UNCHANGED <<attached, session, locked, data, reading, again,
                     pending, held, up, idle, granted, rev, sealed, outside>>
      /\ toServer # <<>>
      /\ toServer' = Tail(toServer)
      /\ up
      /\ Head(toServer) \in Request
  BY ServeFacts
<1>2. /\ toServer \in Seq(Request) /\ toPanel \in Seq(Reply)
      /\ Reads(reading, toServer, toPanel)
      /\ granted \in BOOLEAN /\ serverLocked \in BOOLEAN
      /\ rev \in 0..MaxOutside
  BY DEF Basic, Types
<1>3. /\ toServer' \in Seq(Request)
      /\ Head(toServer).kind # "overview" => Reads(reading, toServer', toPanel)
      /\ Head(toServer).kind = "overview" =>
           \A m \in Reply : m.kind = "overview" =>
             /\ Append(toPanel, m) \in Seq(Reply)
             /\ Reads(reading, toServer', Append(toPanel, m))
  BY <1>1, <1>2, ReadsServed
<1>4. CASE ServeSession
  <2> DEFINE m == SessionIs(granted, serverLocked)
  <2>1. m \in Reply /\ m.kind = "session"
    BY <1>2, Answers
  <2>2. toPanel' = Append(toPanel, m) /\ Head(toServer).kind = "session"
        /\ UNCHANGED <<serverLocked, served, dirty>>
    BY <1>4 DEF ServeSession
  <2> HIDE DEF m
  <2>3. toPanel' \in Seq(Reply) /\ Reads(reading, toServer', toPanel')
    BY <1>2, <1>3, <2>1, <2>2, ReadsAnswer
  <2> QED
    BY <1>1, <1>3, <2>2, <2>3 DEF Basic, Types
<1>5. CASE ServeSubscribe
  <2> DEFINE id == Head(toServer).id
             m == About(IF granted THEN "subscribed" ELSE "refused", id)
  <2>1. id \in Sub
    BY <1>1, <1>5, RequestFields DEF ServeSubscribe, Addressed
  <2>2. m \in Reply /\ m.kind \in {"subscribed", "refused"}
    BY <1>2, <2>1, Answers
  <2>3. /\ toPanel' = Append(toPanel, m)
        /\ served' = IF granted THEN served \cup {id} ELSE served
        /\ Head(toServer).kind = "subscribe"
        /\ UNCHANGED <<serverLocked, dirty>>
    BY <1>5 DEF ServeSubscribe
  <2> HIDE DEF m, id
  <2>4. toPanel' \in Seq(Reply) /\ Reads(reading, toServer', toPanel')
    BY <1>2, <1>3, <2>2, <2>3, ReadsAnswer
  <2>5. IsFiniteSet(served') /\ served' \subseteq Sub /\ dirty' \subseteq served'
    BY <2>1, <2>3, FS_AddElement DEF Basic, Types
  <2> QED
    BY <1>1, <1>3, <2>3, <2>4, <2>5 DEF Basic, Types
<1>6. CASE ServeUnsubscribe
  <2> DEFINE id == Head(toServer).id
  <2>1. /\ served' = served \ {id}
        /\ dirty' = dirty \ {id}
        /\ Head(toServer).kind = "unsubscribe"
        /\ UNCHANGED <<toPanel, serverLocked>>
    BY <1>6 DEF ServeUnsubscribe
  <2> HIDE DEF id
  <2>2. IsFiniteSet(served') /\ served' \subseteq Sub /\ dirty' \subseteq served'
    BY <2>1, FS_RemoveElement DEF Basic, Types
  <2> QED
    BY <1>1, <1>3, <2>1, <2>2 DEF Basic, Types
<1>7. CASE ServeOverview
  <2> DEFINE m == Overview(IF ~granted THEN "refused"
                           ELSE IF serverLocked THEN "locked" ELSE "data")
  <2>1. m \in Reply /\ m.kind = "overview"
    BY <1>2, Answers
  <2>2. toPanel' = Append(toPanel, m) /\ Head(toServer).kind = "overview"
        /\ UNCHANGED <<serverLocked, served, dirty>>
    BY <1>7 DEF ServeOverview
  <2> HIDE DEF m
  <2>3. toPanel' \in Seq(Reply) /\ Reads(reading, toServer', toPanel')
    BY <1>3, <2>1, <2>2
  <2> QED
    BY <1>1, <1>3, <2>2, <2>3 DEF Basic, Types
<1>8. CASE ServeLock
  <2>1. /\ Head(toServer).kind = "lock"
        /\ serverLocked' = TRUE
        /\ UNCHANGED <<toPanel, served, dirty>>
    BY <1>8 DEF ServeLock
  <2> QED
    BY <1>1, <1>3, <2>1 DEF Basic, Types
<1> QED
  BY <1>4, <1>5, <1>6, <1>7, <1>8, ServeFacts

LEMMA NextBasic == ASSUME Basic, Unlimited, [Next]_vars PROVE Basic'
<1>1. CASE UNCHANGED vars
  <2>1. UNCHANGED <<attached, up, session, locked, data, reading, again,
                    pending, held, toServer, toPanel, idle, granted,
                    serverLocked, served, dirty, rev, sealed, outside>>
    BY <1>1 DEF vars, panel, server
  <2> QED
    BY <2>1 DEF Basic, Types
<1>2. CASE Arrives
  BY <1>2, SessionArrivesBasic, SubscribedArrivesBasic, RefusedArrivesBasic,
     OverviewArrivesBasic, EventArrivesBasic, ProvedArrivesBasic DEF Arrives
<1>3. CASE Next
  BY <1>2, <1>3, HassUpdateBasic, TimerBasic, SwitchUserBasic,
     RoleDroppedBasic, ReplaceConnectionBasic, LoseBasic, ReadyBasic,
     DetachBasic, AttachBasic, ClientIdleBasic, ServerIdleBasic, ProveBasic,
     ChangesBasic, NotifyBasic, ServeBasic DEF Next
<1> QED
  BY <1>1, <1>3

LEMMA InitBasic == Init => Basic
<1> SUFFICES ASSUME Init PROVE Basic
  OBVIOUS
<1>1. /\ toServer \in Seq(Request)
      /\ toPanel \in Seq(Reply)
      /\ Reads(FALSE, toServer, toPanel)
  BY FirstAsk, Empty DEF Init
<1>2. IsFiniteSet(served) /\ rev \in 0..MaxOutside /\ outside \in 0..MaxOutside
      /\ rev <= outside
  BY FS_EmptySet, SessionAssumption DEF Init
<1> QED
  BY <1>1, <1>2 DEF Init, Basic, Types

LEMMA BasicInvariance == Unlimited => (Spec => []Basic)
<1> SUFFICES ASSUME Unlimited PROVE Spec => []Basic
  OBVIOUS
<1>1. Basic /\ [Next]_vars => Basic'
  BY NextBasic
<1> QED
  BY <1>1, InitBasic, PTL DEF Spec

(* Every variable of the session keeps its type; one read of the overview   *)
(* at most is under way, on either side, and refresh() knows whether it is  *)
(* (_refreshing); connect() waits for nothing while a subscription is held. *)
THEOREM SessionTyped == Unlimited => (Spec => []TypeOK)
<1> SUFFICES ASSUME Unlimited PROVE Spec => []TypeOK
  OBVIOUS
<1>1. ASSUME Basic PROVE TypeOK
  <2>1. \A i \in DOMAIN toServer : toServer[i] \in Request
    BY <1>1, Shape DEF Basic, Types
  <2>2. \A i \in DOMAIN toPanel : toPanel[i] \in Reply
    BY <1>1, Shape DEF Basic, Types
  <2>3. /\ Kinds(toServer) \subseteq
             {"session", "subscribe", "unsubscribe", "overview", "lock"}
        /\ Kinds(toPanel) \subseteq
             {"session", "subscribed", "refused", "overview", "event",
              "proved"}
    BY <2>1, <2>2, RequestFields, ReplyFields DEF Kinds
  <2> QED
    BY <1>1, <2>3 DEF Basic, Types, Reads, TypeOK
<1> QED
  BY <1>1, BasicInvariance, PTL
-----------------------------------------------------------------------------
(* What a handler of the panel leaves to the server and of its inbox.       *)
Inherits(new, old) ==
  /\ \A id : Has(old, "subscribed", id) => Has(new, "subscribed", id)
  /\ \A id : \A doomed \in BOOLEAN :
       Excused(old, id, doomed) => Excused(new, id, doomed)

Hears(new, old) == \A S : Some(new, S) => Some(old, S)

(* A step that locks and unlocks nothing, and shows nothing it has not      *)
(* received.                                                                *)
Covered ==
  /\ UNCHANGED <<up, idle, serverLocked, sealed>>
  /\ data' \in {data, None} \/ Some(toPanel, Revealing)
  /\ Follows(toServer', toServer)
  /\ "lock" \in Kinds(toServer') => "lock" \in Kinds(toServer)
  /\ Hears(toPanel', toPanel)

(* A step that leaves every subscription with somebody who will end it.     *)
Tended ==
  /\ UNCHANGED <<served, dirty, granted>>
  /\ up => Follows(toServer', toServer)
  /\ Inherits(toPanel', toPanel)
  /\ Hears(toPanel', toPanel)
  /\ up /\ held # None /\ held' # held => Has(toServer', "unsubscribe", held)
  /\ \A id \in Sub : Has(toPanel, "subscribed", id) /\ id \notin {held, pending}
                       => id \notin {held', pending'}
  /\ session' = "allowed" => session = "allowed" \/ Some(toPanel, Admitting)

LEMMA Unheard ==
  /\ \A q : Follows(q, q) /\ Inherits(q, q) /\ Hears(q, q)
  /\ \A a, b, c : Inherits(a, b) /\ Inherits(b, c) => Inherits(a, c)
  /\ \A a, b, c : Hears(a, b) /\ Hears(b, c) => Hears(a, c)
BY DEF Follows, Inherits, Hears

LEMMA RestHeard ==
  ASSUME NEW q \in Seq(Reply), q # <<>>
  PROVE  /\ Hears(Tail(q), q)
         /\ Head(q).kind # "subscribed" => Inherits(Tail(q), q)
         /\ \A S : Head(q) \in S => Some(q, S)
BY TailViews DEF Hears, Inherits

LEMMA WithoutHeard ==
  ASSUME NEW q \in Seq(Reply), NEW kind \in {"overview", "proved"}
  PROVE  /\ Hears(Without(kind, q), q)
         /\ Inherits(Without(kind, q), q)
BY WithoutViews DEF Hears, Inherits

(* A message is sent, or none; it is not the lock.                          *)
LEMMA Sent ==
  ASSUME NEW s \in Seq(Request), NEW m \in Request, m.kind # "lock",
         NEW t, t = s \/ t = Append(s, m)
  PROVE  /\ Follows(t, s)
         /\ "lock" \in Kinds(t) => "lock" \in Kinds(s)
<1>1. CASE t = s
  BY <1>1, Unheard
<1>2. CASE t = Append(s, m)
  <2>1. Follows(Append(s, m), s)
    BY FollowsAppend
  <2>2. Kinds(Append(s, m)) = Kinds(s) \cup {m.kind}
    BY AppendViews
  <2> QED
    BY <1>2, <2>1, <2>2
<1> QED
  BY <1>1, <1>2
-----------------------------------------------------------------------------
LEMMA HassUpdateCalm ==
  ASSUME Basic, Unlimited, HassUpdate
  PROVE  Covered /\ Tended
<1>1. /\ UNCHANGED <<attached, up, session, held, locked, data, reading, again,
                     toPanel, idle, granted, serverLocked, served, dirty, rev,
                     sealed, outside>>
      /\ held = None
      /\ Connect(toServer)
  BY DEF HassUpdate, server
<1>2. /\ pending' \in {pending, Fresh}
      /\ \/ toServer' = toServer
         \/ toServer' = Append(toServer, About("subscribe", Fresh))
  BY <1>1, ConnectReads DEF Basic, Types
<1>3. Fresh \in Sub /\ ~Has(toPanel, "subscribed", Fresh)
  BY FreshUnused DEF Basic
<1>4. /\ About("subscribe", Fresh) \in Request
      /\ About("subscribe", Fresh).kind = "subscribe"
  BY <1>3, RequestFields
<1>5. /\ Follows(toServer', toServer)
      /\ "lock" \in Kinds(toServer') => "lock" \in Kinds(toServer)
  BY <1>2, <1>4, Sent DEF Basic, Types
<1> QED
  BY <1>1, <1>2, <1>3, <1>5, Unheard DEF Covered, Tended

LEMMA RefreshSent ==
  ASSUME Basic, NEW p, Reads(reading, toServer, p), Refresh(toServer)
  PROVE  /\ Follows(toServer', toServer)
         /\ "lock" \in Kinds(toServer') => "lock" \in Kinds(toServer)
<1>1. Ask("overview") \in Request /\ Ask("overview").kind = "overview"
  BY RequestFields
<1>2. toServer' = toServer \/ toServer' = Append(toServer, Ask("overview"))
  BY RefreshReads DEF Basic, Types
<1> QED
  BY <1>1, <1>2, Sent DEF Basic, Types

LEMMA EndReadSent ==
  ASSUME NEW s \in Seq(Request), NEW p, Reads(FALSE, s, p), EndRead(s)
  PROVE  /\ Follows(toServer', s)
         /\ "lock" \in Kinds(toServer') => "lock" \in Kinds(s)
<1>1. Ask("overview") \in Request /\ Ask("overview").kind = "overview"
  BY RequestFields
<1>2. toServer' = s \/ toServer' = Append(s, Ask("overview"))
  BY EndReads
<1> QED
  BY <1>1, <1>2, Sent

LEMMA TimerCalm == ASSUME Basic, Timer PROVE Covered /\ Tended
<1>1. /\ UNCHANGED <<attached, up, session, held, pending, locked, data,
                     toPanel, idle, granted, serverLocked, served, dirty, rev,
                     sealed, outside>>
      /\ Refresh(toServer)
  BY DEF Timer, server
<1>2. /\ Follows(toServer', toServer)
      /\ "lock" \in Kinds(toServer') => "lock" \in Kinds(toServer)
  BY <1>1, RefreshSent DEF Basic
<1> QED
  BY <1>1, <1>2, Unheard DEF Covered, Tended

LEMMA RoleDroppedCalm ==
  ASSUME Basic, RoleDropped
  PROVE  /\ Covered
         /\ UNCHANGED <<served, dirty>>
         /\ session = "allowed" /\ session' = "none"
         /\ held' = None /\ pending' = None
         /\ Follows(toServer', toServer)
         /\ Inherits(toPanel', toPanel)
         /\ held # None => Has(toServer', "unsubscribe", held)
<1>1. /\ UNCHANGED <<attached, up, locked, idle, sealed, serverLocked, served,
                     dirty, rev>>
      /\ up
      /\ session = "allowed"
      /\ session' = "none" /\ data' = None
      /\ Abandon(toPanel, <<Ask("session")>>)
  BY DEF RoleDropped
<1>2. /\ toPanel \in Seq(Reply)
      /\ Reads(reading, toServer, toPanel)
      /\ ~up => toPanel = <<>>
  BY DEF Basic, Types
<1>3. /\ held' = None /\ pending' = None
      /\ toPanel' = Without("overview", toPanel)
      /\ Follows(toServer', toServer)
      /\ held # None => Has(toServer', "unsubscribe", held)
      /\ "lock" \in Kinds(toServer') => "lock" \in Kinds(toServer)
  BY <1>1, <1>2, AbandonFacts
<1> QED
  BY <1>1, <1>2, <1>3, WithoutHeard DEF Covered

LEMMA DetachCalm == ASSUME Basic, Detach PROVE Covered /\ Tended
<1>1. /\ UNCHANGED <<up, session, locked, idle, granted, serverLocked, served,
                     dirty, rev, sealed>>
      /\ attached' = FALSE /\ data' = None /\ held' = None /\ pending' = None
      /\ toPanel' = Without("proved", Without("overview", toPanel))
      /\ toServer' = IF up THEN Returned ELSE <<>>
  BY DEF Detach, server, Returned
<1>2. toPanel \in Seq(Reply) /\ Reads(reading, toServer, toPanel)
  BY DEF Basic, Types
<1>3. /\ Without("overview", toPanel) \in Seq(Reply)
      /\ Follows(Returned, toServer)
      /\ held # None => Has(Returned, "unsubscribe", held)
      /\ "lock" \in Kinds(Returned) => "lock" \in Kinds(toServer)
  BY <1>2, ReturnedFacts DEF Basic
<1>4. Hears(toPanel', toPanel) /\ Inherits(toPanel', toPanel)
  BY <1>1, <1>2, <1>3, WithoutHeard, Unheard
<1>5. /\ Follows(toServer', toServer)
      /\ "lock" \in Kinds(toServer') => "lock" \in Kinds(toServer)
      /\ up /\ held # None => Has(toServer', "unsubscribe", held)
  BY <1>1, <1>3, Unheard DEF Basic
<1>6. None \notin Sub
  BY SessionAssumption
<1> QED
  BY <1>1, <1>4, <1>5, <1>6 DEF Covered, Tended

LEMMA AttachCalm == ASSUME Basic, Attach PROVE Covered /\ Tended
<1>1. /\ UNCHANGED <<up, locked, data, reading, again, pending, held, toPanel,
                     idle, granted, serverLocked, served, dirty, rev, sealed>>
      /\ session' = session \/ session' = "none"
      /\ toServer' = toServer \/ toServer' = Append(toServer, Ask("session"))
  BY DEF Attach, Bootstrap, server
<1>2. Ask("session") \in Request /\ Ask("session").kind = "session"
  BY RequestFields
<1>3. /\ Follows(toServer', toServer)
      /\ "lock" \in Kinds(toServer') => "lock" \in Kinds(toServer)
  BY <1>1, <1>2, Sent DEF Basic, Types
<1> QED
  BY <1>1, <1>3, Unheard DEF Covered, Tended
-----------------------------------------------------------------------------
(* A screen that is locked tends its subscriptions.                         *)
LEMMA LockScreenTends ==
  ASSUME Basic, NEW p \in Seq(Reply), LockScreen(p), ~up => p = <<>>,
         NEW r, Reads(r, toServer, p), UNCHANGED <<up, served, dirty, granted>>,
         Inherits(p, toPanel), Hears(p, toPanel),
         session' = "allowed" => session = "allowed" \/ Some(toPanel, Admitting)
  PROVE  Tended
<1>1. Abandon(p, <<Ask("lock")>>)
  BY DEF LockScreen
<1>2. /\ held' = None /\ pending' = None
      /\ toPanel' = Without("overview", p)
      /\ up => Follows(toServer', toServer)
      /\ up /\ held # None => Has(toServer', "unsubscribe", held)
  BY <1>1, AbandonFacts
<1>3. Inherits(toPanel', toPanel) /\ Hears(toPanel', toPanel)
  BY <1>2, WithoutHeard, Unheard
<1>4. None \notin Sub
  BY SessionAssumption
<1> QED
  BY <1>2, <1>3, <1>4 DEF Tended

LEMMA SessionArrivesCalm ==
  ASSUME Basic, Unlimited, SessionArrives
  PROVE  Tended /\ (Covered \/ (LockScreen(Rest) /\ Some(toPanel, Locking)))
<1>1. /\ UNCHANGED <<attached, up, idle, granted, serverLocked, served, dirty,
                     rev, outside>>
      /\ toPanel # <<>>
      /\ Message.kind = "session"
      /\ session' = IF ~attached THEN session
                    ELSE IF Message.allowed THEN "allowed" ELSE "denied"
  BY DEF SessionArrives, First, Message, server
<1>2. /\ up /\ Rest \in Seq(Reply) /\ Message \in Reply
      /\ Reads(reading, toServer, Rest)
      /\ toServer \in Seq(Request) /\ toPanel \in Seq(Reply)
      /\ Types
  BY <1>1, ArrivedFacts DEF Basic, Types
<1>3. Inherits(Rest, toPanel) /\ Hears(Rest, toPanel)
      /\ \A S : Message \in S => Some(toPanel, S)
  BY <1>1, <1>2, RestHeard DEF Rest, Message
<1>4. session' = "allowed" => session = "allowed" \/ Some(toPanel, Admitting)
  BY <1>1, <1>2, <1>3 DEF Admitting
<1>5. CASE LockScreen(Rest) /\ Message.locked
  <2>1. Some(toPanel, Locking)
    BY <1>1, <1>2, <1>3, <1>5 DEF Locking
  <2> QED
    BY <1>1, <1>2, <1>3, <1>4, <1>5, <2>1, LockScreenTends
<1>6. CASE /\ toPanel' = Rest
           /\ UNCHANGED <<locked, data, reading, again, pending, held, toServer,
                          sealed>>
  BY <1>1, <1>3, <1>4, <1>6, Unheard DEF Covered, Tended
<1>7. CASE /\ locked' = FALSE
           /\ toPanel' = IF locked THEN Without("proved", Rest) ELSE Rest
           /\ held' = IF Message.allowed THEN held ELSE None
           /\ data' = IF Message.allowed THEN data ELSE None
           /\ Connect(IF Message.allowed THEN toServer ELSE
                      toServer \o IfHeld(<<About("unsubscribe", held)>>))
           /\ UNCHANGED <<reading, again, sealed>>
  <2> DEFINE s == IF Message.allowed THEN toServer ELSE
                  toServer \o IfHeld(<<About("unsubscribe", held)>>)
  <2>1. Inherits(toPanel', toPanel) /\ Hears(toPanel', toPanel)
    BY <1>2, <1>3, <1>7, WithoutHeard, Unheard
  <2>2. /\ s \in Seq(Request) /\ Reads(reading, s, Rest)
        /\ Follows(s, toServer)
        /\ "lock" \in Kinds(s) => "lock" \in Kinds(toServer)
        /\ held # None /\ held' # held => Has(s, "unsubscribe", held)
    <3>1. CASE Message.allowed
      BY <1>2, <1>7, <3>1, Unheard
    <3>2. CASE ~Message.allowed
      BY <1>2, <3>2, GiveBack
    <3> QED
      BY <3>1, <3>2
  <2>3. held' \in {held, None} /\ (pending = None \/ held' = None)
        /\ data' \in {data, None}
    BY <1>7 DEF Basic
  <2> HIDE DEF s
  <2>4. Connect(s)
    BY <1>7 DEF s
  <2>5. /\ pending' \in {pending, Fresh}
        /\ toServer' = s \/ toServer' = Append(s, About("subscribe", Fresh))
    BY <1>2, <2>2, <2>3, <2>4, ConnectReads
  <2>6. Fresh \in Sub /\ ~Has(toPanel, "subscribed", Fresh)
    BY <1>2, FreshUnused
  <2>7. /\ About("subscribe", Fresh) \in Request
        /\ About("subscribe", Fresh).kind = "subscribe"
    BY <2>6, RequestFields
  <2>8. /\ Follows(toServer', s)
        /\ "lock" \in Kinds(toServer') => "lock" \in Kinds(s)
    BY <2>2, <2>5, <2>7, Sent
  <2>9. /\ Follows(toServer', toServer)
        /\ "lock" \in Kinds(toServer') => "lock" \in Kinds(toServer)
        /\ held # None /\ held' # held => Has(toServer', "unsubscribe", held)
    <3>1. Follows(toServer', toServer)
      BY <2>2, <2>8, FollowsThen
    <3> QED
      BY <2>2, <2>8, <3>1 DEF Follows
  <2>10. None \notin Sub
    BY SessionAssumption
  <2>11. Covered
    BY <1>1, <1>7, <2>1, <2>3, <2>9 DEF Covered
  <2>12. Tended
    BY <1>1, <1>4, <2>1, <2>3, <2>5, <2>6, <2>9, <2>10 DEF Tended
  <2> QED
    BY <2>11, <2>12
<1>8. \/ LockScreen(Rest) /\ Message.locked
      \/ /\ toPanel' = Rest
         /\ UNCHANGED <<locked, data, reading, again, pending, held, toServer,
                        sealed>>
      \/ /\ locked' = FALSE
         /\ toPanel' = IF locked THEN Without("proved", Rest) ELSE Rest
         /\ held' = IF Message.allowed THEN held ELSE None
         /\ data' = IF Message.allowed THEN data ELSE None
         /\ Connect(IF Message.allowed THEN toServer ELSE
                    toServer \o IfHeld(<<About("unsubscribe", held)>>))
         /\ UNCHANGED <<reading, again, sealed>>
  BY DEF SessionArrives
<1> QED
  BY <1>5, <1>6, <1>7, <1>8

(* Besides being covered, what was obtained is kept or given back.          *)
LEMMA SubscribedArrivesCalm ==
  ASSUME Basic, SubscribedArrives
  PROVE  /\ Covered
         /\ UNCHANGED <<session, granted, served, dirty>>
         /\ toPanel # <<>> /\ toPanel' = Rest
         /\ toPanel \in Seq(Reply)
         /\ Message.kind = "subscribed"
         /\ \/ /\ Message.id = pending
               /\ held' = pending /\ pending' = None
            \/ /\ Message.id # pending
               /\ UNCHANGED <<held, pending>>
               /\ Message.id # held => Has(toServer', "unsubscribe", Message.id)
<1>1. /\ UNCHANGED <<attached, up, session, locked, data, idle, granted,
                     serverLocked, served, dirty, rev, sealed, outside>>
      /\ toPanel # <<>>
      /\ toPanel' = Rest
      /\ Message.kind = "subscribed"
  BY DEF SubscribedArrives, First, Message, server
<1>2. /\ Rest \in Seq(Reply) /\ Message \in Reply
      /\ Reads(reading, toServer, Rest)
      /\ Message.id \in Sub
      /\ toServer \in Seq(Request) /\ toPanel \in Seq(Reply)
  BY <1>1, ArrivedFacts, ReplyFields DEF Addressed, Basic, Types
<1>3. Hears(toPanel', toPanel)
  BY <1>1, <1>2, RestHeard DEF Rest
<1>4. CASE Message.id = pending /\ held' = pending /\ pending' = None
           /\ Refresh(toServer)
  <2>1. /\ Follows(toServer', toServer)
        /\ "lock" \in Kinds(toServer') => "lock" \in Kinds(toServer)
    BY <1>2, <1>4, RefreshSent
  <2> QED
    BY <1>1, <1>2, <1>3, <1>4, <2>1 DEF Covered
<1>5. CASE /\ Message.id # pending
           /\ toServer' = IF Message.id = held THEN toServer
                          ELSE Append(toServer,
                                      About("unsubscribe", Message.id))
           /\ UNCHANGED <<reading, again, pending, held>>
  <2> DEFINE m == About("unsubscribe", Message.id)
  <2>1. m \in Request /\ m.kind = "unsubscribe" /\ m.id = Message.id
    BY <1>2, RequestFields
  <2> HIDE DEF m
  <2>2. /\ toServer' = toServer \/ toServer' = Append(toServer, m)
        /\ Message.id # held => toServer' = Append(toServer, m)
    BY <1>5 DEF m
  <2>3. /\ Follows(toServer', toServer)
        /\ "lock" \in Kinds(toServer') => "lock" \in Kinds(toServer)
    BY <1>2, <2>1, <2>2, Sent
  <2>4. Has(Append(toServer, m), "unsubscribe", Message.id)
    BY <1>2, <2>1, AppendViews
  <2>5. Message.id # held => Has(toServer', "unsubscribe", Message.id)
    BY <2>2, <2>4
  <2> QED
    BY <1>1, <1>2, <1>3, <1>5, <2>3, <2>5 DEF Covered
<1> QED
  BY <1>4, <1>5 DEF SubscribedArrives

LEMMA RefusedArrivesCalm ==
  ASSUME Basic, RefusedArrives
  PROVE  Covered /\ Tended
<1>1. /\ UNCHANGED <<attached, up, session, locked, data, reading, again, held,
                     toServer, idle, granted, serverLocked, served, dirty, rev,
                     sealed, outside>>
      /\ toPanel # <<>>
      /\ toPanel' = Tail(toPanel)
      /\ Head(toPanel).kind = "refused"
      /\ pending' \in {pending, None}
  BY DEF RefusedArrives, First, Message, Rest, server
<1>2. Inherits(toPanel', toPanel) /\ Hears(toPanel', toPanel)
  BY <1>1, RestHeard DEF Basic, Types
<1>3. None \notin Sub
  BY SessionAssumption
<1> QED
  BY <1>1, <1>2, <1>3, Unheard DEF Covered, Tended

LEMMA ProvedArrivesCalm ==
  ASSUME Basic, ProvedArrives
  PROVE  Covered /\ Tended
<1>1. /\ UNCHANGED <<attached, up, session, data, reading, again, pending, held,
                     idle, granted, serverLocked, served, dirty, rev, sealed,
                     outside>>
      /\ toPanel # <<>>
      /\ toPanel' = Tail(toPanel)
      /\ Head(toPanel).kind = "proved"
      /\ toServer' = Append(toServer, Ask("session"))
  BY DEF ProvedArrives, First, Message, Rest, server
<1>2. Inherits(toPanel', toPanel) /\ Hears(toPanel', toPanel)
  BY <1>1, RestHeard DEF Basic, Types
<1>3. Ask("session") \in Request /\ Ask("session").kind = "session"
  BY RequestFields
<1>4. /\ Follows(toServer', toServer)
      /\ "lock" \in Kinds(toServer') => "lock" \in Kinds(toServer)
  BY <1>1, <1>3, Sent DEF Basic, Types
<1> QED
  BY <1>1, <1>2, <1>4 DEF Covered, Tended

LEMMA OverviewArrivesCalm ==
  ASSUME Basic, OverviewArrives
  PROVE  Tended /\ (Covered \/ (LockScreen(Rest) /\ Some(toPanel, Locking)))
<1>1. /\ UNCHANGED <<attached, up, session, idle, granted, serverLocked, served,
                     dirty, rev, outside>>
      /\ toPanel # <<>>
      /\ Message.kind = "overview"
  BY DEF OverviewArrives, First, Message, server
<1>2. /\ up /\ Rest \in Seq(Reply) /\ Message \in Reply
      /\ Reads(FALSE, toServer, Rest)
      /\ toServer \in Seq(Request) /\ toPanel \in Seq(Reply)
  BY <1>1, ArrivedFacts DEF Basic, Types
<1>3. Inherits(Rest, toPanel) /\ Hears(Rest, toPanel)
      /\ \A S : Message \in S => Some(toPanel, S)
  BY <1>1, <1>2, RestHeard DEF Rest, Message
<1>4. CASE Message.what = "locked" /\ LockScreen(Rest)
  <2>1. Some(toPanel, Locking)
    BY <1>1, <1>2, <1>3, <1>4 DEF Locking
  <2> QED
    BY <1>1, <1>2, <1>3, <1>4, <2>1, LockScreenTends
<1>5. CASE /\ data' = IF Message.what = "data" /\ session = "allowed"
                      THEN Message.rev ELSE data
           /\ toPanel' = Rest
           /\ EndRead(toServer)
           /\ UNCHANGED <<locked, pending, held, sealed>>
  <2>1. /\ Follows(toServer', toServer)
        /\ "lock" \in Kinds(toServer') => "lock" \in Kinds(toServer)
    BY <1>2, <1>5, EndReadSent
  <2>2. data' \in {data, None} \/ Some(toPanel, Revealing)
    BY <1>1, <1>2, <1>3, <1>5 DEF Revealing
  <2> QED
    BY <1>1, <1>3, <1>5, <2>1, <2>2 DEF Covered, Tended
<1> QED
  BY <1>4, <1>5 DEF OverviewArrives

(* The news that access was revoked is the one message on which the panel   *)
(* drops its subscription without giving it back.                           *)
LEMMA EventArrivesCalm ==
  ASSUME Basic, EventArrives
  PROVE  /\ Covered
         /\ \/ Tended
            \/ /\ UNCHANGED <<up, served, dirty, granted, pending>>
               /\ session' = "none" /\ held' = None
               /\ Follows(toServer', toServer)
               /\ toPanel # <<>> /\ toPanel \in Seq(Reply)
               /\ Message \in Revoking
               /\ Inherits(toPanel', Rest) /\ Inherits(Rest, toPanel)
               /\ Hears(toPanel', Rest)
<1>1. /\ UNCHANGED <<attached, up, locked, pending, idle, granted, serverLocked,
                     served, dirty, rev, sealed, outside>>
      /\ toPanel # <<>>
      /\ Message.kind = "event"
  BY DEF EventArrives, First, Message, server
<1>2. /\ Rest \in Seq(Reply) /\ Message \in Reply
      /\ Reads(reading, toServer, Rest)
      /\ toServer \in Seq(Request) /\ toPanel \in Seq(Reply)
  BY <1>1, ArrivedFacts DEF Basic, Types
<1>3. Inherits(Rest, toPanel) /\ Hears(Rest, toPanel)
  BY <1>1, <1>2, RestHeard DEF Rest, Message
<1>4. CASE /\ Message.what = "access_revoked"
           /\ session' = "none"
           /\ data' = None
           /\ held' = None
           /\ toPanel' = Without("overview", Rest)
           /\ EndRead(Without("overview", toServer))
  <2> DEFINE s == Without("overview", toServer)
  <2>1. s \in Seq(Request) /\ Reads(FALSE, s, Without("overview", Rest))
    BY <1>2, ReadsDropped
  <2>2. Follows(s, toServer) /\ Kinds(s) \subseteq Kinds(toServer)
    BY <1>2, FollowsWithout, WithoutViews
  <2>3. EndRead(s)
    BY <1>4
  <2> HIDE DEF s
  <2>4. /\ Follows(toServer', s)
        /\ "lock" \in Kinds(toServer') => "lock" \in Kinds(s)
    BY <2>1, <2>3, EndReadSent
  <2>5. /\ Follows(toServer', toServer)
        /\ "lock" \in Kinds(toServer') => "lock" \in Kinds(toServer)
    BY <2>2, <2>4, FollowsThen
  <2>6. Hears(toPanel', Rest) /\ Inherits(toPanel', Rest)
    BY <1>2, <1>4, WithoutHeard
  <2>7. Hears(toPanel', toPanel)
    BY <1>3, <2>6, Unheard
  <2>8. Message \in Revoking
    BY <1>1, <1>2, <1>4 DEF Revoking
  <2> QED
    BY <1>1, <1>2, <1>3, <1>4, <2>5, <2>6, <2>7, <2>8 DEF Covered
<1>5. CASE /\ toPanel' = Rest
           /\ UNCHANGED <<session, data, held>>
           /\ Refresh(toServer)
  <2>1. /\ Follows(toServer', toServer)
        /\ "lock" \in Kinds(toServer') => "lock" \in Kinds(toServer)
    BY <1>2, <1>5, RefreshSent
  <2> QED
    BY <1>1, <1>3, <1>5, <2>1 DEF Covered, Tended
<1> QED
  BY <1>4, <1>5 DEF EventArrives

LEMMA ClientIdleCalm ==
  ASSUME Basic, ClientIdle
  PROVE  Tended /\ LockScreen(toPanel) /\ idle
<1>1. /\ UNCHANGED <<up, session, served, dirty, granted>>
      /\ LockScreen(toPanel) /\ idle
  BY DEF ClientIdle, server
<1>2. /\ toPanel \in Seq(Reply) /\ Reads(reading, toServer, toPanel)
      /\ ~up => toPanel = <<>>
  BY DEF Basic, Types
<1>3. Inherits(toPanel, toPanel) /\ Hears(toPanel, toPanel)
  BY Unheard
<1> QED
  BY <1>1, <1>2, <1>3, LockScreenTends
-----------------------------------------------------------------------------
(* Why a locked screen stays sealed.  Without an idle policy nothing ever   *)
(* locks.  With one, nothing is shown nor on its way to be shown, and on an *)
(* open connection the server is locked, or the lock goes before any read.  *)
Lockable ==
  \/ idle
  \/ /\ ~serverLocked
     /\ ~sealed
     /\ "lock" \notin Kinds(toServer)
     /\ ~Some(toPanel, Locking)

Hidden ==
  sealed =>
    /\ data = None
    /\ ~Some(toPanel, Revealing)
    /\ up => serverLocked \/ ("lock" \in Kinds(toServer) /\ LockFirst(toServer))

Sealing == Lockable /\ Hidden

LEMMA CoveredSeals == ASSUME Sealing, Covered PROVE Sealing'
<1>1. Lockable'
  BY DEF Sealing, Lockable, Covered, Hears
<1>2. Hidden'
  BY DEF Sealing, Hidden, Covered, Hears, Follows
<1> QED
  BY <1>1, <1>2 DEF Sealing

LEMMA LockScreenSeals ==
  ASSUME Basic, Basic', Sealing, idle, NEW p \in Seq(Reply), LockScreen(p),
         ~up => p = <<>>, NEW r, Reads(r, toServer, p),
         UNCHANGED <<up, idle, serverLocked>>
  PROVE  Sealing'
<1>1. /\ data' = None
      /\ Abandon(p, <<Ask("lock")>>)
  BY DEF LockScreen
<1>2. /\ toPanel' = Without("overview", p)
      /\ up => "lock" \in Kinds(toServer') /\ LockFirst(toServer')
  BY <1>1, AbandonFacts
<1>3. "overview" \notin Kinds(toPanel')
  BY <1>2, WithoutViews DEF Reads
<1>4. ~Some(toPanel', Revealing)
  BY <1>3 DEF Some, Revealing, Kinds
<1> QED
  BY <1>1, <1>2, <1>4 DEF Sealing, Lockable, Hidden

LEMMA NewConnectionSeals ==
  ASSUME Basic, Sealing, NewConnection, UNCHANGED <<idle, sealed>>,
         data' \in {data, None}, "lock" \notin Kinds(toServer')
  PROVE  Sealing'
<1>1. toPanel' = <<>> /\ serverLocked' = idle
  BY DEF NewConnection
<1>2. \A S : ~Some(toPanel', S)
  BY <1>1, Empty
<1> QED
  BY <1>1, <1>2 DEF Sealing, Lockable, Hidden

LEMMA LoseSeals == ASSUME Sealing, Lose PROVE Sealing'
<1>1. /\ UNCHANGED <<idle, serverLocked, sealed, data>>
      /\ up' = FALSE /\ toServer' = <<>> /\ toPanel' = <<>>
  BY DEF Lose
<1>2. "lock" \notin Kinds(toServer') /\ \A S : ~Some(toPanel', S)
  BY <1>1, Empty
<1> QED
  BY <1>1, <1>2 DEF Sealing, Lockable, Hidden

LEMMA ProveSeals == ASSUME Basic, Sealing, Prove PROVE Sealing'
<1>1. /\ UNCHANGED <<up, idle, toServer>>
      /\ toServer = <<>>
      /\ serverLocked' = FALSE /\ sealed' = FALSE
      /\ toPanel' = Append(toPanel, Ask("proved"))
      /\ toPanel \in Seq(Reply)
  BY DEF Prove, panel, Basic, Types
<1>2. Ask("proved") \in Reply /\ Ask("proved").kind = "proved"
  BY ReplyFields
<1>3. Ask("proved") \notin Locking
  BY <1>2 DEF Locking
<1> DEFINE m == Ask("proved")
<1>4. m \in Reply /\ m \notin Locking
  BY <1>2, <1>3
<1> HIDE DEF m
<1>5. Some(Append(toPanel, m), Locking) => Some(toPanel, Locking)
  BY <1>1, <1>4, AppendViews
<1>6. Some(toPanel', Locking) => Some(toPanel, Locking)
  BY <1>1, <1>5 DEF m
<1> QED
  BY <1>1, <1>6 DEF Sealing, Lockable, Hidden

LEMMA NotifySeals ==
  ASSUME Basic, Sealing, NEW id \in Sub, Notify(id)
  PROVE  Sealing'
<1> DEFINE what == IF serverLocked THEN "screen_locked"
                   ELSE IF granted THEN "refresh" ELSE "access_revoked"
           m == Event(id, what)
<1>1. /\ UNCHANGED <<up, idle, toServer, serverLocked, sealed, data>>
      /\ toPanel' = Append(toPanel, m)
      /\ toPanel \in Seq(Reply)
  BY DEF Notify, panel, Basic, Types
<1>2. m \in Reply /\ m.kind = "event"
  BY Answers
<1>3. m \notin Locking /\ m \notin Revealing
  BY <1>2 DEF Locking, Revealing
<1> HIDE DEF m
<1>4. \A S : Some(toPanel', S) <=> Some(toPanel, S) \/ m \in S
  BY <1>1, <1>2, AppendViews
<1> QED
  BY <1>1, <1>3, <1>4 DEF Sealing, Lockable, Hidden

(* What the server adds to the inbox of the panel, when it adds anything.   *)
LEMMA ServeAnswers ==
  ASSUME Basic, Serve
  PROVE  \/ toPanel' = toPanel /\ Head(toServer).kind \in {"unsubscribe", "lock"}
         \/ \E m \in Reply :
              /\ toPanel' = Append(toPanel, m)
              /\ Head(toServer).kind \in {"session", "subscribe", "overview"}
              /\ m \notin Revoking
              /\ m \in Locking => serverLocked
              /\ m \in Revealing => Head(toServer).kind = "overview"
                                    /\ ~serverLocked
              /\ m \in Admitting => granted
              /\ Head(toServer).kind = "subscribe" /\ granted =>
                   m.kind = "subscribed" /\ m.id = Head(toServer).id
<1>1. granted \in BOOLEAN /\ serverLocked \in BOOLEAN /\ rev \in 0..MaxOutside
      /\ Head(toServer) \in Request
  BY ServeFacts DEF Basic, Types
<1>2. CASE ServeSession
  <2> DEFINE m == SessionIs(granted, serverLocked)
  <2>1. m \in Reply /\ m.kind = "session" /\ m.allowed = granted
        /\ m.locked = serverLocked
    BY <1>1, Answers
  <2>2. toPanel' = Append(toPanel, m) /\ Head(toServer).kind = "session"
    BY <1>2 DEF ServeSession
  <2> HIDE DEF m
  <2>3. /\ m \notin Revoking
        /\ m \in Locking => serverLocked
        /\ m \notin Revealing
        /\ m \in Admitting => granted
    BY <2>1 DEF Revoking, Locking, Revealing, Admitting
  <2> QED
    BY <2>1, <2>2, <2>3
<1>3. CASE ServeSubscribe
  <2> DEFINE id == Head(toServer).id
             kind == IF granted THEN "subscribed" ELSE "refused"
             m == About(kind, id)
  <2>1. id \in Sub
    BY <1>1, <1>3, RequestFields DEF ServeSubscribe, Addressed
  <2>2. m \in Reply /\ m.kind = kind /\ m.id = id
    BY <1>1, <2>1, Answers
  <2>3. toPanel' = Append(toPanel, m) /\ Head(toServer).kind = "subscribe"
    BY <1>3 DEF ServeSubscribe
  <2> HIDE DEF m
  <2>4. m \notin Revoking /\ m \notin Locking /\ m \notin Revealing
        /\ m \notin Admitting
    BY <2>2 DEF Revoking, Locking, Revealing, Admitting
  <2> QED
    BY <2>2, <2>3, <2>4
<1>4. CASE ServeOverview
  <2> DEFINE what == IF ~granted THEN "refused"
                     ELSE IF serverLocked THEN "locked" ELSE "data"
             m == Overview(what)
  <2>1. m \in Reply /\ m.kind = "overview" /\ m.what = what
    BY <1>1, Answers
  <2>2. toPanel' = Append(toPanel, m) /\ Head(toServer).kind = "overview"
    BY <1>4 DEF ServeOverview
  <2> HIDE DEF m
  <2>3. /\ m \notin Revoking
        /\ m \in Locking => serverLocked
        /\ m \in Revealing => ~serverLocked
        /\ m \notin Admitting
    BY <2>1 DEF Revoking, Locking, Revealing, Admitting
  <2> QED
    BY <2>1, <2>2, <2>3
<1>5. CASE ServeUnsubscribe \/ ServeLock
  BY <1>5 DEF ServeUnsubscribe, ServeLock
<1> QED
  BY <1>2, <1>3, <1>4, <1>5, ServeFacts

LEMMA ServeSeals == ASSUME Basic, Sealing, Serve PROVE Sealing'
<1>1. /\ UNCHANGED <<up, idle, sealed, data>>
      /\ toServer # <<>>
      /\ toServer' = Tail(toServer)
      /\ toServer \in Seq(Request) /\ toPanel \in Seq(Reply)
      /\ serverLocked \in BOOLEAN
  BY ServeFacts DEF Basic, Types
<1>2. /\ Kinds(toServer) = Kinds(toServer') \cup {Head(toServer).kind}
      /\ LockFirst(toServer) /\ Head(toServer).kind # "lock"
           => LockFirst(toServer')
      /\ LockFirst(toServer) => Head(toServer).kind # "overview"
  BY <1>1, TailViews
<1>3. /\ Head(toServer).kind = "lock" => serverLocked' = TRUE
      /\ Head(toServer).kind # "lock" => serverLocked' = serverLocked
  BY ServeFacts DEF ServeSession, ServeSubscribe, ServeUnsubscribe,
                    ServeOverview, ServeLock
<1>4. /\ Some(toPanel', Locking) => Some(toPanel, Locking) \/ serverLocked
      /\ Some(toPanel', Revealing) =>
           \/ Some(toPanel, Revealing)
           \/ Head(toServer).kind = "overview" /\ ~serverLocked
  <2>1. CASE toPanel' = toPanel
    BY <2>1
  <2>2. ASSUME NEW m \in Reply, toPanel' = Append(toPanel, m),
               m \in Locking => serverLocked,
               m \in Revealing => Head(toServer).kind = "overview"
                                 /\ ~serverLocked
        PROVE  /\ Some(toPanel', Locking) => Some(toPanel, Locking) \/ serverLocked
               /\ Some(toPanel', Revealing) =>
                    \/ Some(toPanel, Revealing)
                    \/ Head(toServer).kind = "overview" /\ ~serverLocked
    <3>1. \A S : Some(toPanel', S) <=> Some(toPanel, S) \/ m \in S
      BY <1>1, <2>2, AppendViews
    <3> QED
      BY <2>2, <3>1
  <2> QED
    BY <2>1, <2>2, ServeAnswers
<1>5. Lockable'
  BY <1>1, <1>2, <1>3, <1>4 DEF Sealing, Lockable
<1>6. Hidden'
  <2> SUFFICES ASSUME sealed PROVE Hidden'
    BY <1>1 DEF Hidden
  <2>1. /\ data = None
        /\ ~Some(toPanel, Revealing)
        /\ up
        /\ serverLocked \/ ("lock" \in Kinds(toServer) /\ LockFirst(toServer))
    BY ServeFacts DEF Sealing, Hidden
  <2>2. ~Some(toPanel', Revealing)
    BY <1>2, <1>4, <2>1
  <2>3. \/ serverLocked'
        \/ "lock" \in Kinds(toServer') /\ LockFirst(toServer')
    BY <1>2, <1>3, <2>1
  <2> QED
    BY <1>1, <2>1, <2>2, <2>3 DEF Hidden
<1> QED
  BY <1>5, <1>6 DEF Sealing

LEMMA NextSeals ==
  ASSUME Basic, Basic', Unlimited, Sealing, [Next]_vars
  PROVE  Sealing'
<1>1. CASE UNCHANGED vars \/ Change \/ Permit
  <2>1. UNCHANGED <<data, toServer, toPanel, up, idle, serverLocked, sealed>>
    BY <1>1 DEF vars, panel, server, Change, Permit
  <2> QED
    BY <2>1 DEF Sealing, Lockable, Hidden
<1>2. CASE HassUpdate \/ Timer \/ RoleDropped \/ Detach \/ Attach
  BY <1>2, HassUpdateCalm, TimerCalm, RoleDroppedCalm, DetachCalm, AttachCalm,
     CoveredSeals
<1>3. CASE Arrives
  <2>1. CASE LockScreen(Rest) /\ Some(toPanel, Locking)
             /\ (SessionArrives \/ OverviewArrives)
    <3>1. UNCHANGED <<up, idle, serverLocked>> /\ toPanel # <<>>
      BY <2>1 DEF SessionArrives, OverviewArrives, First, server
    <3>2. /\ up /\ Rest \in Seq(Reply)
          /\ \E r : Reads(r, toServer, Rest)
      BY <3>1, ArrivedFacts
    <3>3. idle
      BY <2>1 DEF Sealing, Lockable
    <3> QED
      BY <2>1, <3>1, <3>2, <3>3, LockScreenSeals
  <2> QED
    BY <1>3, <2>1, SessionArrivesCalm, SubscribedArrivesCalm,
       RefusedArrivesCalm, OverviewArrivesCalm, EventArrivesCalm,
       ProvedArrivesCalm, CoveredSeals DEF Arrives
<1>4. CASE ClientIdle
  <2>1. UNCHANGED <<up, idle, serverLocked>>
    BY <1>4 DEF ClientIdle, server
  <2>2. /\ toPanel \in Seq(Reply) /\ Reads(reading, toServer, toPanel)
        /\ ~up => toPanel = <<>>
    BY DEF Basic, Types
  <2> QED
    BY <1>4, <2>1, <2>2, ClientIdleCalm, LockScreenSeals
<1>5. CASE SwitchUser
  <2>1. /\ NewConnection /\ UNCHANGED <<idle, sealed>> /\ data' = None
        /\ toServer' = <<Ask("session")>>
    BY <1>5 DEF SwitchUser
  <2> QED
    BY <2>1, FirstAsk, NewConnectionSeals
<1>6. CASE ReplaceConnection \/ Ready
  <2>1. NewConnection /\ UNCHANGED <<idle, sealed, data>>
    BY <1>6 DEF ReplaceConnection, Ready
  <2> QED
    BY <1>6, <2>1, ReplaceConnectionBasic, ReadyBasic, NewConnectionSeals
<1>7. CASE ServerIdle
  <2>1. /\ UNCHANGED <<data, toServer, toPanel, up, idle, sealed>>
        /\ idle /\ serverLocked' = TRUE
    BY <1>7 DEF ServerIdle, panel
  <2> QED
    BY <2>1 DEF Sealing, Lockable, Hidden
<1> QED
  BY <1>1, <1>2, <1>3, <1>4, <1>5, <1>6, <1>7, LoseSeals, ProveSeals,
     NotifySeals, ServeSeals DEF Next

(* After the screen was locked, by the idle timer, by an answer or by the   *)
(* news that the session is locked, nothing is shown until somebody has     *)
(* proved who he is, whatever answers were on their way and over every      *)
(* reconnection (lockScreen, refresh, PanelSecurity.session).               *)
THEOREM ScreenStaysSealed == Unlimited => (Spec => []SealedUntilProof)
<1> SUFFICES ASSUME Unlimited PROVE Spec => []SealedUntilProof
  OBVIOUS
<1>1. Init => Sealing
  BY Empty, FirstAsk DEF Init, Sealing, Lockable, Hidden
<1>2. Basic /\ Basic' /\ Sealing /\ [Next]_vars => Sealing'
  BY NextSeals
<1>3. Sealing => SealedUntilProof
  BY DEF Sealing, Hidden, SealedUntilProof
<1> QED
  BY <1>1, <1>2, <1>3, BasicInvariance, PTL DEF Spec
-----------------------------------------------------------------------------
(* Why no subscription is forgotten.  One that is leaving will be ended by  *)
(* the server, or offered to a panel that does not wait for it and gives it *)
(* back.  One that is forgotten has its announcement under way, which ends  *)
(* it as the user has lost access, and the panel is not let in meanwhile.   *)
Leaving(id) ==
  \/ Has(toServer, "unsubscribe", id)
  \/ Has(toPanel, "subscribed", id) /\ id \notin {held, pending}

Doomed(id) == id \in dirty /\ ~granted

Forgotten(id) ==
  Doomed(id) /\ session # "allowed" /\ ~Some(toPanel, Admitting)

Known == \A id \in served : \/ id = held
                            \/ Leaving(id)
                            \/ Has(toPanel, "subscribed", id)
                            \/ Forgotten(id)

Ending == ~granted => \A id \in served : id \in dirty \/ Leaving(id)

Announced ==
  \A id \in served : Leaving(id) \/ Excused(toPanel, id, Doomed(id))

Kept == Known /\ Ending /\ Announced

LEMMA NothingServed == ASSUME served' = {} PROVE Kept'
BY DEF Kept, Known, Ending, Announced

LEMMA TendedKept == ASSUME Basic, Kept, Tended PROVE Kept'
<1>1. CASE ~up
  BY <1>1, NothingServed DEF Basic, Tended
<1>2. CASE up
  <2>1. /\ UNCHANGED <<served, dirty, granted>>
        /\ Follows(toServer', toServer)
        /\ Inherits(toPanel', toPanel)
        /\ Hears(toPanel', toPanel)
        /\ held # None /\ held' # held => Has(toServer', "unsubscribe", held)
        /\ \A id \in Sub : Has(toPanel, "subscribed", id)
                           /\ id \notin {held, pending}
                             => id \notin {held', pending'}
        /\ session' = "allowed" => session = "allowed"
                                   \/ Some(toPanel, Admitting)
        /\ served \subseteq Sub
    BY <1>2 DEF Tended, Basic, Types
  <2>2. None \notin Sub
    BY SessionAssumption
  <2>3. ASSUME NEW id \in served
        PROVE  /\ Leaving(id) => Leaving(id)'
               /\ Forgotten(id) => Forgotten(id)'
               /\ Doomed(id)' <=> Doomed(id)
               /\ id = held => id = held' \/ Leaving(id)'
               /\ Has(toPanel, "subscribed", id) =>
                    Has(toPanel', "subscribed", id)
    <3>1. Leaving(id) => Leaving(id)'
      BY <2>1, <2>3 DEF Leaving, Follows, Inherits
    <3>2. Doomed(id)' <=> Doomed(id)
      BY <2>1 DEF Doomed
    <3>3. Forgotten(id) => Forgotten(id)'
      BY <2>1, <3>2 DEF Forgotten, Hears
    <3>4. id = held => id = held' \/ Leaving(id)'
      BY <2>1, <2>2, <2>3 DEF Leaving
    <3> QED
      BY <2>1, <3>1, <3>2, <3>3, <3>4 DEF Inherits
  <2>4. Known'
    BY <2>1, <2>3 DEF Kept, Known
  <2>5. Ending'
    BY <2>1, <2>3 DEF Kept, Ending
  <2>6. ASSUME NEW id \in served'
        PROVE  Leaving(id)' \/ Excused(toPanel', id, Doomed(id)')
    <3>1. id \in served
      BY <2>1
    <3>2. Leaving(id) \/ Excused(toPanel, id, Doomed(id))
      BY <3>1 DEF Kept, Announced
    <3>3. Doomed(id) \in BOOLEAN
      BY DEF Doomed
    <3>4. Excused(toPanel, id, Doomed(id)) => Excused(toPanel', id, Doomed(id))
      BY <2>1, <3>3 DEF Inherits
    <3>5. Doomed(id)' = Doomed(id)
      BY <2>1 DEF Doomed
    <3> QED
      BY <2>3, <3>1, <3>2, <3>4, <3>5
  <2>7. Announced'
    BY <2>6 DEF Announced
  <2> QED
    BY <2>4, <2>5, <2>7 DEF Kept
<1> QED
  BY <1>1, <1>2

(* What connect() waited for is held, anything else is given back.          *)
LEMMA SubscribedArrivesKept ==
  ASSUME Basic, Kept, SubscribedArrives
  PROVE  Kept'
<1>1. /\ Covered
      /\ UNCHANGED <<session, granted, served, dirty>>
      /\ toPanel # <<>> /\ toPanel' = Tail(toPanel)
      /\ toPanel \in Seq(Reply)
      /\ Head(toPanel).kind = "subscribed"
      /\ \/ /\ Head(toPanel).id = pending
            /\ held' = pending /\ pending' = None
         \/ /\ Head(toPanel).id # pending
            /\ UNCHANGED <<held, pending>>
            /\ Head(toPanel).id # held =>
                 Has(toServer', "unsubscribe", Head(toPanel).id)
  BY SubscribedArrivesCalm DEF Message, Rest
<1>2. /\ Head(toPanel) \in Reply
      /\ \A id : Has(toPanel, "subscribed", id) <=>
           \/ Has(toPanel', "subscribed", id)
           \/ Head(toPanel).kind = "subscribed" /\ Head(toPanel).id = id
      /\ \A id : \A doomed \in BOOLEAN :
           Excused(toPanel, id, doomed) => Excused(toPanel', id, doomed)
  BY <1>1, TailViews
<1>3. /\ Head(toPanel).id \in Sub /\ None \notin Sub
      /\ served \subseteq Sub
      /\ pending = None \/ held = None
  BY <1>1, <1>2, ReplyFields, SessionAssumption DEF Addressed, Basic, Types
<1> DEFINE first == Head(toPanel).id
<1>4. /\ first \in Sub
      /\ \A id : Has(toPanel, "subscribed", id) <=>
           Has(toPanel', "subscribed", id) \/ first = id
      /\ \/ first = pending /\ held' = pending /\ pending' = None
         \/ /\ first # pending /\ held' = held /\ pending' = pending
            /\ first # held => Has(toServer', "unsubscribe", first)
  BY <1>1, <1>2, <1>3
<1> HIDE DEF first
<1>5. /\ \A id : Has(toServer, "unsubscribe", id) =>
                   Has(toServer', "unsubscribe", id)
      /\ Some(toPanel', Admitting) => Some(toPanel, Admitting)
  BY <1>1 DEF Covered, Follows, Hears
<1>6. ASSUME NEW id \in served
      PROVE  /\ Leaving(id) => Leaving(id)'
             /\ Forgotten(id) => Forgotten(id)'
             /\ Doomed(id)' = Doomed(id)
             /\ id = held => id = held'
             /\ Has(toPanel, "subscribed", id) =>
                  Has(toPanel', "subscribed", id) \/ id = held' \/ Leaving(id)'
  <2>1. id \in Sub /\ id # None
    BY <1>3, <1>6
  <2>2. Leaving(id) => Leaving(id)'
    BY <1>4, <1>5, <2>1 DEF Leaving
  <2>3. Doomed(id)' = Doomed(id)
    BY <1>1 DEF Doomed
  <2>4. Forgotten(id) => Forgotten(id)'
    BY <1>1, <1>5, <2>3 DEF Forgotten
  <2>5. id = held => id = held'
    BY <1>3, <1>4, <2>1
  <2>6. Has(toPanel, "subscribed", id) =>
          Has(toPanel', "subscribed", id) \/ id = held' \/ Leaving(id)'
    BY <1>4, <2>1 DEF Leaving
  <2> QED
    BY <2>2, <2>3, <2>4, <2>5, <2>6
<1>7. Known'
  BY <1>1, <1>6 DEF Kept, Known
<1>8. Ending'
  BY <1>1, <1>6 DEF Kept, Ending
<1>9. ASSUME NEW id \in served'
      PROVE  Leaving(id)' \/ Excused(toPanel', id, Doomed(id)')
  <2>1. id \in served
    BY <1>1
  <2>2. Leaving(id) \/ Excused(toPanel, id, Doomed(id))
    BY <2>1 DEF Kept, Announced
  <2>3. Doomed(id) \in BOOLEAN
    BY DEF Doomed
  <2>4. Excused(toPanel, id, Doomed(id)) => Excused(toPanel', id, Doomed(id))
    BY <1>2, <2>3
  <2> QED
    BY <1>6, <2>1, <2>2, <2>4
<1>10. Announced'
  BY <1>9 DEF Announced
<1> QED
  BY <1>7, <1>8, <1>10 DEF Kept

(* Dropped on the news that access was revoked, a subscription that is not  *)
(* offered anew is doomed.                                                  *)
LEMMA EventArrivesKept ==
  ASSUME Basic, Kept, EventArrives
  PROVE  Kept'
<1>1. CASE Tended
  BY <1>1, TendedKept
<1>2. CASE /\ UNCHANGED <<up, served, dirty, granted, pending>>
           /\ session' = "none" /\ held' = None
           /\ Follows(toServer', toServer)
           /\ toPanel # <<>> /\ toPanel \in Seq(Reply)
           /\ Message \in Revoking
           /\ Inherits(toPanel', Rest) /\ Inherits(Rest, toPanel)
           /\ Hears(toPanel', Rest)
  <2>1. Message = Head(toPanel) /\ Rest = Tail(toPanel)
    BY DEF Message, Rest
  <2>2. \A id : \A doomed \in BOOLEAN :
          /\ Excused(toPanel, id, doomed) => Excused(Rest, id, doomed)
          /\ Excused(toPanel, id, doomed) =>
               \/ Has(Rest, "subscribed", id)
               \/ doomed /\ ~Some(Rest, Admitting)
    BY <1>2, <2>1, TailViews
  <2>3. /\ served \subseteq Sub /\ None \notin Sub
    BY SessionAssumption DEF Basic, Types
  <2>4. ASSUME NEW id \in served
        PROVE  /\ Leaving(id) => Leaving(id)'
               /\ Doomed(id)' = Doomed(id)
               /\ \/ Leaving(id)'
                  \/ /\ Excused(toPanel', id, Doomed(id))
                     /\ \/ Has(toPanel', "subscribed", id)
                        \/ Forgotten(id)'
    <3>1. Leaving(id) => Leaving(id)'
      BY <1>2, <2>3, <2>4 DEF Leaving, Follows, Inherits
    <3>2. Doomed(id)' = Doomed(id)
      BY <1>2 DEF Doomed
    <3>3. CASE Leaving(id)
      BY <3>1, <3>2, <3>3
    <3>4. CASE Excused(toPanel, id, Doomed(id))
      <4>1. Doomed(id) \in BOOLEAN
        BY DEF Doomed
      <4>2. Excused(toPanel', id, Doomed(id))
        BY <1>2, <2>2, <3>4, <4>1 DEF Inherits
      <4>3. Has(Rest, "subscribed", id) => Has(toPanel', "subscribed", id)
        BY <1>2 DEF Inherits
      <4>4. ~Some(Rest, Admitting) => ~Some(toPanel', Admitting)
        BY <1>2 DEF Hears
      <4>5. \/ Has(Rest, "subscribed", id)
            \/ Doomed(id) /\ ~Some(Rest, Admitting)
        BY <2>2, <3>4, <4>1
      <4>6. Has(toPanel', "subscribed", id) \/ Forgotten(id)'
        BY <1>2, <3>2, <4>3, <4>4, <4>5 DEF Forgotten
      <4> QED
        BY <3>1, <3>2, <4>2, <4>6
    <3> QED
      BY <2>4, <3>3, <3>4 DEF Kept, Announced
  <2>5. Known'
    BY <1>2, <2>4 DEF Known
  <2>6. Ending'
    BY <1>2, <2>4 DEF Kept, Ending
  <2>7. Announced'
    <3> SUFFICES ASSUME NEW id \in served'
                 PROVE  Leaving(id)' \/ Excused(toPanel', id, Doomed(id)')
      BY DEF Announced
    <3>1. id \in served
      BY <1>2
    <3> QED
      BY <2>4, <3>1
  <2> QED
    BY <2>5, <2>6, <2>7 DEF Kept
<1> QED
  BY <1>1, <1>2, EventArrivesCalm

(* The session starts over, and everything is given back.                   *)
LEMMA RoleDroppedKept ==
  ASSUME Basic, Kept, RoleDropped
  PROVE  Kept'
<1>1. /\ UNCHANGED <<served, dirty>>
      /\ session = "allowed"
      /\ held' = None /\ pending' = None
      /\ Follows(toServer', toServer)
      /\ Inherits(toPanel', toPanel)
      /\ held # None => Has(toServer', "unsubscribe", held)
  BY RoleDroppedCalm
<1>2. ASSUME NEW id \in served' PROVE Leaving(id)'
  <2>1. id \in served /\ id \in Sub /\ None \notin Sub
    BY <1>1, SessionAssumption DEF Basic, Types
  <2>2. CASE id = held
    BY <1>1, <2>1, <2>2 DEF Leaving
  <2>3. CASE Has(toServer, "unsubscribe", id)
    BY <1>1, <2>3 DEF Leaving, Follows
  <2>4. CASE Has(toPanel, "subscribed", id)
    BY <1>1, <2>1, <2>4 DEF Leaving, Inherits
  <2> QED
    BY <1>1, <2>1, <2>2, <2>3, <2>4 DEF Kept, Known, Leaving, Forgotten
<1> QED
  BY <1>2 DEF Kept, Known, Ending, Announced

LEMMA ExcusedMore ==
  ASSUME NEW q, NEW id, NEW a \in BOOLEAN, NEW b \in BOOLEAN, a => b,
         Excused(q, id, a)
  PROVE  Excused(q, id, b)
BY DEF Excused

(* A change or a revocation is announced to every subscription; access is   *)
(* granted again only when nothing is still to be announced.                *)
LEMMA ChangesKept ==
  ASSUME Basic, Kept, Change \/ Permit
  PROVE  Kept'
<1>1. /\ UNCHANGED <<session, pending, held, toServer, toPanel, served>>
      /\ dirty' = served
      /\ granted' => granted \/ dirty = {}
      /\ dirty \subseteq served
  <2>1. granted \in BOOLEAN /\ dirty \subseteq served
    BY DEF Basic, Types
  <2>2. CASE Change
    BY <2>1, <2>2 DEF Change, panel
  <2>3. CASE Permit
    <3>1. /\ UNCHANGED <<session, pending, held, toServer, toPanel, served>>
          /\ dirty' = served
          /\ granted \/ dirty = {}
      BY <2>3 DEF Permit, panel
    <3> QED
      BY <2>1, <3>1
  <2> QED
    BY <2>2, <2>3
<1>2. ASSUME NEW id \in served
      PROVE  /\ Leaving(id)' <=> Leaving(id)
             /\ Doomed(id) => Doomed(id)'
             /\ Forgotten(id) => Forgotten(id)'
  <2>1. Leaving(id)' <=> Leaving(id)
    BY <1>1 DEF Leaving
  <2>2. Doomed(id) => Doomed(id)'
    BY <1>1, <1>2 DEF Doomed
  <2>3. Forgotten(id) => Forgotten(id)'
    BY <1>1, <2>2 DEF Forgotten
  <2> QED
    BY <2>1, <2>2, <2>3
<1>3. Known'
  BY <1>1, <1>2 DEF Kept, Known
<1>4. Ending'
  BY <1>1 DEF Ending
<1>5. ASSUME NEW id \in served'
      PROVE  Leaving(id)' \/ Excused(toPanel', id, Doomed(id)')
  <2>1. id \in served /\ Doomed(id) \in BOOLEAN /\ Doomed(id)' \in BOOLEAN
    BY <1>1, Zenon DEF Doomed
  <2>2. Leaving(id) \/ Excused(toPanel, id, Doomed(id))
    BY <2>1 DEF Kept, Announced
  <2>3. Excused(toPanel, id, Doomed(id)) => Excused(toPanel, id, Doomed(id)')
    BY <1>2, <2>1, ExcusedMore
  <2> QED
    BY <1>1, <1>2, <2>1, <2>2, <2>3
<1>6. Announced'
  BY <1>5 DEF Announced
<1> QED
  BY <1>3, <1>4, <1>6 DEF Kept

(* What the server sends disturbs nobody's subscription: it announces a     *)
(* revocation only while the user has no access.                            *)
LEMMA AnswerKeeps ==
  ASSUME Basic, NEW m \in Reply, toPanel' = Append(toPanel, m),
         UNCHANGED <<session, pending, held, granted>>,
         m \in Admitting => granted, NEW id,
         m \in Revoking => Doomed(id),
         id \in dirty => id \in dirty',
         id \in dirty' => id \in dirty
  PROVE  /\ Forgotten(id) => Forgotten(id)'
         /\ Has(toPanel, "subscribed", id) => Has(toPanel', "subscribed", id)
         /\ Doomed(id)' = Doomed(id)
         /\ Excused(toPanel, id, Doomed(id)) =>
              Excused(toPanel', id, Doomed(id)')
<1>1. Doomed(id) \in BOOLEAN /\ Doomed(id)' = Doomed(id) /\ granted \in BOOLEAN
  BY DEF Doomed, Basic, Types
<1>2. /\ \A S : Some(toPanel', S) <=> Some(toPanel, S) \/ m \in S
      /\ \A kind, y : Has(toPanel', kind, y) <=>
           Has(toPanel, kind, y) \/ (m.kind = kind /\ m.id = y)
      /\ \A y : \A doomed \in BOOLEAN :
           /\ Excused(toPanel, y, doomed)
           /\ m \in Revoking => doomed
           /\ m \in Admitting => ~doomed
           => Excused(toPanel', y, doomed)
  BY AppendViews DEF Basic, Types
<1>3. Forgotten(id) => Forgotten(id)'
  BY <1>1, <1>2 DEF Forgotten, Doomed
<1>4. m \in Admitting => ~Doomed(id)
  BY DEF Doomed
<1>5. Excused(toPanel, id, Doomed(id)) => Excused(toPanel', id, Doomed(id))
  BY <1>1, <1>2, <1>4
<1> QED
  BY <1>1, <1>2, <1>3, <1>5

LEMMA NotifyKept ==
  ASSUME Basic, Kept, NEW id \in Sub, Notify(id)
  PROVE  Kept'
<1> DEFINE what == IF serverLocked THEN "screen_locked"
                   ELSE IF granted THEN "refresh" ELSE "access_revoked"
           m == Event(id, what)
<1>1. /\ UNCHANGED <<session, pending, held, toServer, granted>>
      /\ id \in dirty
      /\ dirty' = dirty \ {id}
      /\ toPanel' = Append(toPanel, m)
      /\ served' = IF what = "refresh" THEN served ELSE served \ {id}
  BY DEF Notify, panel
<1>2. m \in Reply /\ m.kind = "event" /\ m.what = what
  BY Answers
<1>3. /\ m \in Revoking => ~granted
      /\ m \notin Admitting
      /\ ~granted => what # "refresh"
  BY <1>2 DEF Revoking, Admitting
<1>4. granted \/ served' = served \ {id}
  BY <1>1, <1>3
<1>5. served' \subseteq served /\ granted \in BOOLEAN
  BY <1>1 DEF Basic, Types
<1> HIDE DEF m, what
<1>6. ASSUME NEW y \in served'
      PROVE  /\ y \in served
             /\ Leaving(y) => Leaving(y)'
             /\ Forgotten(y) => Forgotten(y)'
             /\ Has(toPanel, "subscribed", y) => Has(toPanel', "subscribed", y)
             /\ ~granted => (y \in dirty' <=> y \in dirty)
             /\ Excused(toPanel, y, Doomed(y)) =>
                  Leaving(y) \/ Excused(toPanel', y, Doomed(y)')
  <2>1. y \in served /\ (~granted => y # id)
    BY <1>4, <1>5, <1>6
  <2>2. \A kind, z : Has(toPanel, kind, z) => Has(toPanel', kind, z)
    BY <1>1, <1>2, AppendViews DEF Basic, Types
  <2>3. Leaving(y) => Leaving(y)'
    BY <1>1, <2>2 DEF Leaving
  <2>4. /\ \A S : Some(toPanel', S) => Some(toPanel, S) \/ m \in S
        /\ \A doomed \in BOOLEAN :
             Excused(toPanel, y, doomed) /\ (m \in Revoking => doomed)
             /\ (m \in Admitting => ~doomed)
               => Excused(toPanel', y, doomed)
    BY <1>1, <1>2, AppendViews DEF Basic, Types
  <2>5. Doomed(y)' = Doomed(y) /\ Doomed(y) \in BOOLEAN
    BY <1>1, <2>1 DEF Doomed
  <2>6. Forgotten(y) => Forgotten(y)'
    BY <1>1, <1>3, <2>4, <2>5 DEF Forgotten
  <2>7. m \in Revoking => Leaving(y) \/ Doomed(y)
    BY <1>3, <2>1 DEF Kept, Ending, Doomed
  <2>8. Excused(toPanel, y, Doomed(y)) =>
          Leaving(y) \/ Excused(toPanel', y, Doomed(y))
    BY <1>3, <2>4, <2>5, <2>7
  <2>9. ~granted => (y \in dirty' <=> y \in dirty)
    BY <1>1, <2>1
  <2> QED
    BY <2>1, <2>2, <2>3, <2>5, <2>6, <2>8, <2>9
<1>7. Known'
  BY <1>1, <1>6 DEF Kept, Known
<1>8. Ending'
  BY <1>1, <1>6 DEF Kept, Ending
<1>9. Announced'
  BY <1>6 DEF Kept, Announced
<1> QED
  BY <1>7, <1>8, <1>9 DEF Kept

(* A subscription offered is known, whatever is announced before.           *)
LEMMA OfferExcuses ==
  ASSUME NEW q \in Seq(Reply), NEW m \in Reply, m.kind = "subscribed", NEW id,
         m.id = id, NEW doomed
  PROVE  Excused(Append(q, m), id, doomed)
<1> DEFINE r == Append(q, m)
           new == Len(q) + 1
<1>1. /\ DOMAIN r = 1..new
      /\ new \in Nat /\ new \in DOMAIN r
      /\ r[new] = m
  BY AppendProperties
<1>2. m \notin Revoking
  BY DEF Revoking
<1> HIDE DEF r, new
<1>3. \A i \in DOMAIN r : i = new \/ i < new
  BY <1>1
<1> QED
  BY <1>1, <1>2, <1>3 DEF Excused, r

(* The server ends the subscription it is told to end, and no other.        *)
LEMMA ServeSilentKept ==
  ASSUME Basic, Kept, Serve, toPanel' = toPanel,
         Head(toServer).kind \in {"unsubscribe", "lock"}
  PROVE  Kept'
<1>1. /\ UNCHANGED <<session, pending, held, granted>>
      /\ toServer # <<>>
      /\ toServer' = Tail(toServer)
      /\ toServer \in Seq(Request)
  BY ServeFacts DEF Basic, Types
<1>2. /\ Head(toServer).kind = "unsubscribe" =>
           /\ served' = served \ {Head(toServer).id}
           /\ dirty' = dirty \ {Head(toServer).id}
      /\ Head(toServer).kind = "lock" => served' = served /\ dirty' = dirty
  BY ServeFacts DEF ServeSession, ServeSubscribe, ServeUnsubscribe,
                    ServeOverview, ServeLock
<1>3. \A id : Has(toServer, "unsubscribe", id) =>
        \/ Has(toServer', "unsubscribe", id)
        \/ Head(toServer).kind = "unsubscribe" /\ Head(toServer).id = id
  BY <1>1, TailViews
<1>4. ASSUME NEW id \in served'
      PROVE  /\ id \in served
             /\ Leaving(id) => Leaving(id)'
             /\ Forgotten(id) => Forgotten(id)'
             /\ id \in dirty => id \in dirty'
             /\ Doomed(id)' = Doomed(id)
  <2>1. id \in served /\ (id \in dirty' <=> id \in dirty)
        /\ ~(Head(toServer).kind = "unsubscribe" /\ Head(toServer).id = id)
    BY <1>2, <1>4
  <2>2. Leaving(id) => Leaving(id)'
    BY <1>1, <1>3, <2>1 DEF Leaving
  <2>3. Doomed(id)' = Doomed(id)
    BY <1>1, <2>1 DEF Doomed
  <2>4. Forgotten(id) => Forgotten(id)'
    BY <1>1, <2>3 DEF Forgotten
  <2> QED
    BY <2>1, <2>2, <2>3, <2>4
<1>5. Known'
  BY <1>1, <1>4 DEF Kept, Known
<1>6. Ending'
  BY <1>1, <1>4 DEF Kept, Ending
<1>7. Announced'
  BY <1>4 DEF Kept, Announced
<1> QED
  BY <1>5, <1>6, <1>7 DEF Kept

LEMMA ServeAnswerKept ==
  ASSUME Basic, Kept, Serve, NEW m \in Reply, toPanel' = Append(toPanel, m),
         Head(toServer).kind \in {"session", "subscribe", "overview"},
         m \notin Revoking, m \in Admitting => granted,
         Head(toServer).kind = "subscribe" /\ granted =>
           m.kind = "subscribed" /\ m.id = Head(toServer).id
  PROVE  Kept'
<1> DEFINE new == Head(toServer).id
<1>1. /\ UNCHANGED <<session, pending, held, granted>>
      /\ toServer # <<>>
      /\ toServer' = Tail(toServer)
      /\ toServer \in Seq(Request) /\ toPanel \in Seq(Reply)
  BY ServeFacts DEF Basic, Types
<1>2. /\ dirty' = dirty
      /\ \/ served' = served
         \/ /\ served' = served \cup {new} /\ granted
            /\ m.kind = "subscribed" /\ m.id = new
  <2>1. CASE ServeSubscribe
    BY <2>1 DEF ServeSubscribe
  <2>2. CASE ServeSession \/ ServeOverview
    BY <2>2 DEF ServeSession, ServeOverview
  <2> QED
    BY <2>1, <2>2, ServeFacts DEF ServeUnsubscribe, ServeLock
<1>3. \A id : Has(toServer, "unsubscribe", id) =>
                Has(toServer', "unsubscribe", id)
  BY <1>1, TailViews
<1> HIDE DEF new
<1>4. ASSUME NEW id \in served
      PROVE  /\ Leaving(id) => Leaving(id)'
             /\ Forgotten(id) => Forgotten(id)'
             /\ Has(toPanel, "subscribed", id) =>
                  Has(toPanel', "subscribed", id)
             /\ Excused(toPanel, id, Doomed(id)) =>
                  Excused(toPanel', id, Doomed(id)')
  <2>1. /\ Forgotten(id) => Forgotten(id)'
        /\ Has(toPanel, "subscribed", id) => Has(toPanel', "subscribed", id)
        /\ Excused(toPanel, id, Doomed(id)) =>
             Excused(toPanel', id, Doomed(id)')
    BY <1>1, <1>2, AnswerKeeps
  <2>2. Leaving(id) => Leaving(id)'
    BY <1>1, <1>3, <2>1 DEF Leaving
  <2> QED
    BY <2>1, <2>2
<1>5. ASSUME NEW id \in served', id \notin served
      PROVE  /\ Has(toPanel', "subscribed", id)
             /\ Excused(toPanel', id, Doomed(id)')
             /\ granted
  <2>1. id = new /\ granted /\ m.kind = "subscribed" /\ m.id = id
    BY <1>2, <1>5
  <2>2. Has(toPanel', "subscribed", id)
    BY <1>1, <2>1, AppendViews
  <2>3. Excused(toPanel', id, Doomed(id)')
    BY <1>1, <2>1, OfferExcuses
  <2> QED
    BY <2>1, <2>2, <2>3
<1>6. Known'
  BY <1>1, <1>4, <1>5 DEF Kept, Known
<1>7. Ending'
  BY <1>1, <1>2, <1>4 DEF Kept, Ending
<1>8. Announced'
  BY <1>4, <1>5 DEF Kept, Announced
<1> QED
  BY <1>6, <1>7, <1>8 DEF Kept

LEMMA NextKept ==
  ASSUME Basic, Unlimited, Kept, [Next]_vars
  PROVE  Kept'
<1>1. CASE UNCHANGED vars \/ ServerIdle \/ Prove
  <2>1. CASE UNCHANGED vars \/ ServerIdle
    <3>1. UNCHANGED <<session, pending, held, toServer, toPanel, granted,
                      served, dirty>>
      BY <2>1 DEF vars, panel, server, ServerIdle
    <3> QED
      BY <3>1 DEF Kept, Known, Ending, Announced, Leaving, Doomed, Forgotten
  <2>2. CASE Prove
    <3> DEFINE m == Ask("proved")
    <3>1. /\ UNCHANGED <<session, pending, held, toServer, granted, served,
                         dirty>>
          /\ toPanel' = Append(toPanel, m)
      BY <2>2 DEF Prove, panel
    <3>2. m \in Reply /\ m.kind = "proved"
      BY ReplyFields
    <3>3. m \notin Admitting /\ m \notin Revoking
      BY <3>2 DEF Admitting, Revoking
    <3> HIDE DEF m
    <3>4. ASSUME NEW id \in served
          PROVE  /\ Leaving(id) => Leaving(id)'
                 /\ Forgotten(id) => Forgotten(id)'
                 /\ Has(toPanel, "subscribed", id) =>
                      Has(toPanel', "subscribed", id)
                 /\ Excused(toPanel, id, Doomed(id)) =>
                      Excused(toPanel', id, Doomed(id)')
      <4>1. /\ Forgotten(id) => Forgotten(id)'
            /\ Has(toPanel, "subscribed", id) =>
                 Has(toPanel', "subscribed", id)
            /\ Excused(toPanel, id, Doomed(id)) =>
                 Excused(toPanel', id, Doomed(id)')
        BY <3>1, <3>2, <3>3, AnswerKeeps
      <4> QED
        BY <3>1, <4>1 DEF Leaving
    <3>5. Known'
      BY <3>1, <3>4 DEF Kept, Known
    <3>6. Ending'
      BY <3>1, <3>4 DEF Kept, Ending
    <3>7. Announced'
      BY <3>1, <3>4 DEF Kept, Announced
    <3> QED
      BY <3>5, <3>6, <3>7 DEF Kept
  <2> QED
    BY <1>1, <2>1, <2>2
<1>2. CASE HassUpdate \/ Timer \/ Detach \/ Attach \/ ClientIdle
  BY <1>2, HassUpdateCalm, TimerCalm, DetachCalm, AttachCalm, ClientIdleCalm,
     TendedKept
<1>3. CASE Arrives
  BY <1>3, SessionArrivesCalm, RefusedArrivesCalm, OverviewArrivesCalm,
     ProvedArrivesCalm, TendedKept, SubscribedArrivesKept, EventArrivesKept
     DEF Arrives
<1>4. CASE SwitchUser \/ ReplaceConnection \/ Ready \/ Lose
  <2>1. served' = {}
    BY <1>4 DEF SwitchUser, ReplaceConnection, Ready, Lose, NewConnection
  <2> QED
    BY <2>1, NothingServed
<1>5. CASE Serve
  BY <1>5, ServeAnswers, ServeSilentKept, ServeAnswerKept
<1> QED
  BY <1>1, <1>2, <1>3, <1>4, <1>5, RoleDroppedKept, ChangesKept, NotifyKept
     DEF Next

(* The server keeps no subscription the panel has forgotten: one it serves  *)
(* is held or awaited, is about to be ended, offered or announced, whatever *)
(* connect() was waiting for when the panel gave up, and although it drops  *)
(* its subscription without a word when its user loses access.              *)
THEOREM NoneForgotten == Unlimited => (Spec => []SubscriptionsKnown)
<1> SUFFICES ASSUME Unlimited PROVE Spec => []SubscriptionsKnown
  OBVIOUS
<1>1. Init => Kept
  BY DEF Init, Kept, Known, Ending, Announced
<1>2. Basic /\ Kept /\ [Next]_vars => Kept'
  BY NextKept
<1>3. ASSUME Kept PROVE SubscriptionsKnown
  <2>1. "unsubscribe" \in Addressed /\ "subscribed" \in Addressed
    BY DEF Addressed
  <2>2. \A id : /\ Has(toServer, "unsubscribe", id) => id \in Ids(toServer)
                /\ Has(toPanel, "subscribed", id) => id \in Ids(toPanel)
    BY <2>1, HasIds
  <2> QED
    BY <1>3, <2>2 DEF Kept, Known, Leaving, Forgotten, Doomed,
                      SubscriptionsKnown
<1> QED
  BY <1>1, <1>2, <1>3, BasicInvariance, PTL DEF Spec
=============================================================================
