-------------------------- MODULE CertChainProofs --------------------------
(***************************************************************************)
(* Proofs about the chain verifier for every pool of certificates, every   *)
(* number of certificates and anchors, and every clock.                    *)
(***************************************************************************)
EXTENDS CertChain, SequenceFacts, FiniteSetTheorems

-----------------------------------------------------------------------------
(* find() returns the first certificate of a name.                         *)

LEMMA FirstFound ==
  ASSUME NEW S, NEW certs \in Seq(S), NEW name, HasSubject(certs, name)
  PROVE  /\ FirstWithSubject(certs, name) \in Range(certs)
         /\ FirstWithSubject(certs, name).subject = name
<1> DEFINE hits == {i \in DOMAIN certs : certs[i].subject = name}
<1>1. hits \subseteq Nat /\ hits # {} /\ DOMAIN certs = 1..Len(certs) /\ Len(certs) \in Nat
  BY DEF HasSubject
<1>2. PICK n \in hits : \A m \in hits : n <= m
  BY <1>1, LeastNat
<1>3. \A j \in 1..(n - 1) : certs[j].subject # name
  <2> SUFFICES ASSUME NEW j \in 1..(n - 1), certs[j].subject = name PROVE FALSE
    OBVIOUS
  <2>1. n \in 1..Len(certs)
    BY <1>1
  <2>2. j \in 1..Len(certs) /\ j < n
    BY <1>1, <2>1
  <2>3. j \in hits
    BY <1>1, <2>2
  <2> QED
    BY <1>2, <2>1, <2>2, <2>3
<1>4. \E i \in DOMAIN certs : /\ certs[i].subject = name
                              /\ \A j \in 1..(i - 1) : certs[j].subject # name
  BY <1>2, <1>3
<1> DEFINE i == CHOOSE k \in DOMAIN certs : /\ certs[k].subject = name
                                            /\ \A j \in 1..(k - 1) : certs[j].subject # name
<1>5. i \in DOMAIN certs /\ certs[i].subject = name
  BY <1>4
<1>6. FirstWithSubject(certs, name) = certs[i]
  BY DEF FirstWithSubject
<1> QED
  BY <1>5, <1>6 DEF Range

-----------------------------------------------------------------------------
(* The path under construction.                                            *)

(* The first n certificates of a chain are the caller's, all different.    *)
Own(chain, n, certs) ==
  /\ \A i \in 1..n : chain[i] \in Range(certs)
  /\ \A i, j \in 1..n : i # j => ~SameCertificate(chain[i], chain[j])

Linked(chain) == \A i \in 1..(Len(chain) - 1) : chain[i].issuer = chain[i + 1].subject

(* What build_chain() has after some iterations.                           *)
Walk(b, certs, ancs) ==
  /\ b \in [chain : Seq(Pool), iterations : Nat,
            status : {"loop", "built", "cycle", "no issuer"}]
  /\ Len(b.chain) >= 1 /\ b.chain[1] = certs[1]
  /\ Linked(b.chain)
  /\ Own(b.chain, IF b.status = "built" THEN Len(b.chain) - 1 ELSE Len(b.chain), certs)
  /\ b.status = "built" => b.chain[Len(b.chain)] \in Range(ancs)
  /\ b.iterations = IF b.status \in {"loop", "built"} THEN Len(b.chain) - 1 ELSE Len(b.chain)

(* There are no more of them than there are certificates.                  *)
LEMMA OwnBound ==
  ASSUME NEW certs \in Seq(Pool), NEW chain, NEW n \in Nat, Own(chain, n, certs)
  PROVE  n <= Len(certs)
<1> SUFFICES ASSUME ~(n <= Len(certs)) PROVE FALSE
  OBVIOUS
<1>1. Len(certs) \in Nat /\ DOMAIN certs = 1..Len(certs)
  OBVIOUS
<1>2. \A i \in 1..n : \E k \in 1..Len(certs) : chain[i] = certs[k]
  BY <1>1 DEF Own, Range
<1> DEFINE f == [i \in 1..n |-> CHOOSE k \in 1..Len(certs) : chain[i] = certs[k]]
<1>3. \A i \in 1..n : f[i] \in 1..Len(certs) /\ chain[i] = certs[f[i]]
  BY <1>2
<1>4. f \in [1..n -> 1..Len(certs)]
  BY <1>3
<1> HIDE DEF f
<1>5. IsFiniteSet(1..n) /\ Cardinality(1..n) = n
  BY FS_Interval
<1>6. IsFiniteSet(1..Len(certs)) /\ Cardinality(1..Len(certs)) = Len(certs)
  <2> DEFINE m == Len(certs)
  <2>1. m \in Nat /\ 1 \in Int /\ m \in Int
    BY <1>1
  <2> HIDE DEF m
  <2>2. IsFiniteSet(1..m) /\ Cardinality(1..m) = IF 1 > m THEN 0 ELSE m - 1 + 1
    BY <2>1, FS_Interval
  <2>3. IsFiniteSet(1..m) /\ Cardinality(1..m) = m
    BY <2>1, <2>2
  <2> QED
    BY <2>3 DEF m
<1>7. Cardinality(1..Len(certs)) < Cardinality(1..n)
  BY <1>1, <1>5, <1>6
<1>8. PICK i, j \in 1..n : i # j /\ f[i] = f[j]
  BY <1>4, <1>5, <1>6, <1>7, FS_PigeonHole
<1>9. chain[i] = chain[j]
  BY <1>3, <1>8
<1> QED
  BY <1>8, <1>9 DEF Own, SameCertificate

(* The self-signed branch is never taken: a certificate on the path that   *)
(* is its own issuer is among the caller's certificates, so that an issuer *)
(* is found.                                                               *)
LEMMA IterationWalks ==
  ASSUME NEW b, certificates \in Seq(Pool), certificates # << >>, anchors \in Seq(Pool),
         Walk(b, certificates, anchors), b.status = "loop"
  PROVE  Walk(Iteration(b), certificates, anchors)
<1> DEFINE n       == Len(b.chain)
           current == b.chain[n]
           issuer  == FirstWithSubject(certificates, current.issuer)
           anchor  == FirstWithSubject(anchors, current.issuer)
           next    == [b EXCEPT !.iterations = @ + 1]
<1>0. b \in [chain : Seq(Pool), iterations : Nat,
             status : {"loop", "built", "cycle", "no issuer"}]
  BY DEF Walk
<1>1. /\ b.chain \in Seq(Pool) /\ n \in Nat /\ n >= 1
      /\ b.iterations = n - 1
      /\ Linked(b.chain) /\ b.chain[1] = certificates[1]
  <2>1. b.chain \in Seq(Pool)
    BY <1>0
  <2>2. n \in Nat
    BY <2>1
  <2>3. n >= 1 /\ b.iterations = n - 1 /\ Linked(b.chain) /\ b.chain[1] = certificates[1]
    BY DEF Walk
  <2> QED
    BY <2>1, <2>2, <2>3
<1>2. Own(b.chain, n, certificates)
  BY DEF Walk
<1>3. n <= Len(certificates) /\ Len(certificates) \in Nat /\ Len(anchors) \in Nat
  BY <1>1, <1>2, OwnBound
<1>4. ~(b.iterations >= MaxIterations)
  BY <1>1, <1>3 DEF MaxIterations
<1>5. current \in Range(certificates) /\ n \in 1..n
  BY <1>1, <1>2 DEF Own
<1>6. Range(certificates) \subseteq Pool /\ Range(anchors) \subseteq Pool
  BY DEF Range
<1> HIDE DEF n, current, issuer, anchor, next
<1>7. /\ next.chain = b.chain /\ next.iterations = n /\ next.status = b.status
      /\ next \in [chain : Seq(Pool), iterations : Nat,
                   status : {"loop", "built", "cycle", "no issuer"}]
  <2>1. b.iterations + 1 = n /\ b.iterations + 1 \in Nat
    BY <1>1
  <2>2. next = [b EXCEPT !.iterations = b.iterations + 1]
    BY DEF next
  <2>3. \A k \in Nat : /\ [b EXCEPT !.iterations = k] \in
                           [chain : Seq(Pool), iterations : Nat,
                            status : {"loop", "built", "cycle", "no issuer"}]
                       /\ [b EXCEPT !.iterations = k].chain = b.chain
                       /\ [b EXCEPT !.iterations = k].iterations = k
                       /\ [b EXCEPT !.iterations = k].status = b.status
    BY <1>0
  <2> QED
    BY <2>1, <2>2, <2>3
<1>8. ASSUME NEW c \in Pool, c.subject = current.issuer
      PROVE  LET longer == Append(b.chain, c)
             IN  /\ longer \in Seq(Pool) /\ Len(longer) = n + 1
                 /\ longer[1] = certificates[1] /\ longer[n + 1] = c
                 /\ \A i \in 1..n : longer[i] = b.chain[i]
                 /\ Linked(longer)
  <2> DEFINE longer == Append(b.chain, c)
  <2>1. longer \in Seq(Pool) /\ Len(longer) = n + 1 /\ longer[n + 1] = c
    BY <1>1, AppendProperties DEF n
  <2>2. \A i \in 1..n : longer[i] = b.chain[i]
    BY <1>1, AppendProperties DEF n
  <2> HIDE DEF longer
  <2>3. ASSUME NEW i \in 1..n PROVE longer[i].issuer = longer[i + 1].subject
    <3>1. CASE i = n
      BY <1>1, <1>8, <2>1, <2>2, <3>1 DEF current
    <3>2. CASE i # n
      <4>1. i \in 1..(n - 1) /\ i + 1 \in 1..n
        BY <1>1, <3>2
      <4>2. b.chain[i].issuer = b.chain[i + 1].subject
        BY <1>1, <4>1 DEF Linked, n
      <4> QED
        BY <2>2, <4>1, <4>2
    <3> QED
      BY <3>1, <3>2
  <2>4. Linked(longer)
    BY <1>1, <2>1, <2>3 DEF Linked
  <2>5. 1 \in 1..n
    BY <1>1
  <2> QED
    BY <1>1, <2>1, <2>2, <2>4, <2>5 DEF longer
<1>9. CASE HasSubject(anchors, current.issuer)
  <2>1. Iteration(b) = [next EXCEPT !.chain = Append(b.chain, anchor), !.status = "built"]
    BY <1>4, <1>7, <1>9 DEF Iteration, current, anchor, next, n
  <2>2. anchor \in Range(anchors) /\ anchor.subject = current.issuer
    BY <1>9, FirstFound DEF anchor
  <2> DEFINE longer == Append(b.chain, anchor)
  <2>3. /\ longer \in Seq(Pool) /\ Len(longer) = n + 1
        /\ longer[1] = certificates[1] /\ longer[n + 1] = anchor
        /\ \A i \in 1..n : longer[i] = b.chain[i]
        /\ Linked(longer)
    BY <1>6, <1>8, <2>2
  <2>4. /\ Iteration(b) \in [chain : Seq(Pool), iterations : Nat,
                             status : {"loop", "built", "cycle", "no issuer"}]
        /\ Iteration(b).chain = longer /\ Iteration(b).status = "built"
        /\ Iteration(b).iterations = n
    BY <1>1, <1>7, <2>1, <2>3
  <2>5. Own(longer, n, certificates)
    BY <1>2, <2>3 DEF Own
  <2> HIDE DEF longer
  <2>6. n + 1 >= 1 /\ (n + 1) - 1 = n
    BY <1>1
  <2> QED
    BY <2>2, <2>3, <2>4, <2>5, <2>6 DEF Walk
<1>10. CASE ~HasSubject(anchors, current.issuer) /\ HasSubject(certificates, current.issuer)
  <2>1. issuer \in Range(certificates) /\ issuer.subject = current.issuer
    BY <1>10, FirstFound DEF issuer
  <2>2. CASE Seen(b.chain, issuer)
    <3>1. Iteration(b) = Cycle(b)
      BY <1>4, <1>10, <2>2 DEF Iteration, current, issuer, n
    <3>2. /\ Cycle(b) \in [chain : Seq(Pool), iterations : Nat,
                           status : {"loop", "built", "cycle", "no issuer"}]
          /\ Cycle(b).chain = b.chain /\ Cycle(b).status = "cycle"
          /\ Cycle(b).iterations = n
      <4>1. Cycle(b) = [next EXCEPT !.status = "cycle"]
        BY <1>0 DEF Cycle, next
      <4> QED
        BY <1>7, <4>1
    <3> QED
      BY <1>1, <1>2, <3>1, <3>2 DEF Walk, n
  <2>3. CASE ~Seen(b.chain, issuer)
    <3>1. Iteration(b) = [next EXCEPT !.chain = Append(b.chain, issuer)]
      BY <1>4, <1>7, <1>10, <2>3 DEF Iteration, current, issuer, next, n
    <3> DEFINE longer == Append(b.chain, issuer)
    <3>2. /\ longer \in Seq(Pool) /\ Len(longer) = n + 1
          /\ longer[1] = certificates[1] /\ longer[n + 1] = issuer
          /\ \A i \in 1..n : longer[i] = b.chain[i]
          /\ Linked(longer)
      BY <1>6, <1>8, <2>1
    <3>3. /\ Iteration(b) \in [chain : Seq(Pool), iterations : Nat,
                               status : {"loop", "built", "cycle", "no issuer"}]
          /\ Iteration(b).chain = longer /\ Iteration(b).status = "loop"
          /\ Iteration(b).iterations = n
      BY <1>1, <1>7, <3>1, <3>2
    <3> HIDE DEF longer
    <3>4. \A i \in 1..n : ~SameCertificate(b.chain[i], issuer)
      BY <1>1, <2>3 DEF Seen, n
    <3>5. Own(longer, n + 1, certificates)
      <4>1. \A i \in 1..(n + 1) : i \in 1..n \/ i = n + 1
        BY <1>1
      <4>2. \A i \in 1..(n + 1) : longer[i] \in Range(certificates)
        BY <1>2, <2>1, <3>2, <4>1 DEF Own
      <4>3. ASSUME NEW i \in 1..(n + 1), NEW j \in 1..(n + 1), i # j
            PROVE  ~SameCertificate(longer[i], longer[j])
        <5>1. CASE i \in 1..n /\ j \in 1..n
          BY <1>2, <3>2, <4>3, <5>1 DEF Own
        <5>2. CASE i \in 1..n /\ j = n + 1
          BY <3>2, <3>4, <5>2
        <5>3. CASE i = n + 1 /\ j \in 1..n
          BY <3>2, <3>4, <5>3 DEF SameCertificate
        <5> QED
          BY <4>1, <4>3, <5>1, <5>2, <5>3
      <4> QED
        BY <4>2, <4>3 DEF Own
    <3>6. n + 1 >= 1 /\ (n + 1) - 1 = n
      BY <1>1
    <3> QED
      BY <3>2, <3>3, <3>5, <3>6 DEF Walk
  <2> QED
    BY <2>2, <2>3
<1>11. CASE ~HasSubject(anchors, current.issuer) /\ ~HasSubject(certificates, current.issuer)
  <2>1. current.issuer # current.subject
    BY <1>5, <1>11 DEF HasSubject, Range
  <2>2. Iteration(b) = [next EXCEPT !.status = "no issuer"]
    BY <1>4, <1>11, <2>1 DEF Iteration, current, next, n
  <2>3. /\ Iteration(b) \in [chain : Seq(Pool), iterations : Nat,
                             status : {"loop", "built", "cycle", "no issuer"}]
        /\ Iteration(b).chain = b.chain /\ Iteration(b).status = "no issuer"
        /\ Iteration(b).iterations = n
    BY <1>1, <1>7, <2>2
  <2> QED
    BY <1>1, <1>2, <2>3 DEF Walk, n
<1> QED
  BY <1>9, <1>10, <1>11

-----------------------------------------------------------------------------
(* The invariant.                                                          *)

(* What holds of a call by where it is.                                    *)
CallInv ==
  \/ pc = "idle" /\ build = Idle
  \/ /\ pc = "build" /\ certificates # << >>
     /\ Walk(build, certificates, anchors)
  \/ /\ pc = "done" /\ certificates = << >>
     /\ build = Idle /\ ~result.is_valid
  \/ /\ pc = "done" /\ certificates # << >>
     /\ Walk(build, certificates, anchors)
     /\ result.is_valid =>
          /\ build.status = "built" /\ result.chain = build.chain
          /\ now <= clock /\ CheckErrors(build.chain, now) = {}

IInv ==
  /\ certificates \in Seq(Pool) /\ Len(certificates) <= MaxCertificates
  /\ anchors \in AnchorLists
  /\ clock \in Time /\ now \in Time \cup {0}
  /\ CallInv

LEMMA AnchorListsAreLists == AnchorLists \subseteq Seq(Pool) /\ << >> \in AnchorLists
<1>1. ASSUME NEW n \in 0..MaxAnchors PROVE [1..n -> Pool] \subseteq Seq(Pool)
  <2>1. n \in Nat
    BY BoundAssumption
  <2> QED
    BY <2>1
<1>2. << >> \in [1..0 -> Pool] /\ 0 \in 0..MaxAnchors
  BY BoundAssumption
<1> QED
  BY <1>1, <1>2 DEF AnchorLists

(* A call starts with a walk of one certificate.                           *)
LEMMA StartWalks ==
  ASSUME certificates \in Seq(Pool), certificates # << >>, NEW ancs
  PROVE  Walk([chain |-> << certificates[1] >>, iterations |-> 0, status |-> "loop"],
              certificates, ancs)
<1> DEFINE b == [chain |-> << certificates[1] >>, iterations |-> 0, status |-> "loop"]
<1>1. Len(certificates) \in Nat /\ Len(certificates) # 0 /\ DOMAIN certificates = 1..Len(certificates)
  BY EmptySeq
<1>2. 1 \in DOMAIN certificates
  BY <1>1
<1>3. certificates[1] \in Range(certificates) /\ certificates[1] \in Pool
  BY <1>2 DEF Range
<1>4. /\ b \in [chain : Seq(Pool), iterations : Nat,
                status : {"loop", "built", "cycle", "no issuer"}]
      /\ Len(b.chain) = 1 /\ b.chain[1] = certificates[1]
      /\ b.status = "loop" /\ b.iterations = 0
  BY <1>3
<1>5. Own(b.chain, 1, certificates)
  BY <1>3, <1>4 DEF Own
<1>6. Linked(b.chain)
  BY <1>4 DEF Linked
<1> HIDE DEF b
<1> QED
  BY <1>4, <1>5, <1>6 DEF Walk, b

LEMMA InitIInv == Init => IInv
<1> SUFFICES ASSUME Init PROVE IInv
  OBVIOUS
<1>1. << >> \in Seq(Pool) /\ Len(<< >>) = 0
  OBVIOUS
<1> QED
  BY <1>1, AnchorListsAreLists, BoundAssumption DEF Init, IInv, CallInv

LEMMA NextIInv ==
  ASSUME IInv, [Next]_vars
  PROVE  IInv'
<1> USE DEF IInv
<1>1. anchors \in Seq(Pool)
  BY AnchorListsAreLists
<1>2. ASSUME NEW c \in Pool, AddCertificates(<< c >>) PROVE IInv'
  <2>1. << c >> \in Seq(Pool) /\ Len(<< c >>) = 1
    OBVIOUS
  <2>2. /\ certificates \o << c >> \in Seq(Pool)
        /\ Len(certificates \o << c >>) = Len(certificates) + Len(<< c >>)
    BY <2>1, ConcatProperties
  <2> QED
    BY <1>2, <2>2 DEF AddCertificates, CallInv
<1>3. ASSUME NEW trust_anchors \in AnchorLists, VerifyEmpty(trust_anchors) PROVE IInv'
  BY <1>3 DEF VerifyEmpty, CallInv, Failed
<1>4. ASSUME NEW trust_anchors \in AnchorLists, VerifyStart(trust_anchors) PROVE IInv'
  <2>1. Walk([chain |-> << certificates[1] >>, iterations |-> 0, status |-> "loop"],
             certificates, trust_anchors)
    BY <1>4, StartWalks DEF VerifyStart
  <2>2. Walk(build, certificates, anchors)'
    BY <1>4, <2>1 DEF VerifyStart
  <2> QED
    BY <1>4, <2>2 DEF VerifyStart, CallInv
<1>5. CASE BuildStep
  <2>1. certificates # << >> /\ Walk(build, certificates, anchors) /\ build.status = "loop"
    BY <1>5 DEF BuildStep, CallInv
  <2>2. Walk(Iteration(build), certificates, anchors)
    BY <1>1, <2>1, IterationWalks
  <2>3. Walk(build, certificates, anchors)'
    BY <1>5, <2>2 DEF BuildStep
  <2> QED
    BY <1>5, <2>1, <2>3 DEF BuildStep, CallInv
<1>6. CASE BuildFailed
  <2>1. certificates # << >> /\ Walk(build, certificates, anchors)
    BY <1>6 DEF BuildFailed, CallInv
  <2>2. Walk(build, certificates, anchors)' /\ ~result'.is_valid
    BY <1>6, <2>1 DEF BuildFailed, Failed
  <2> QED
    BY <1>6, <2>1, <2>2 DEF BuildFailed, CallInv
<1>7. CASE CheckAll
  <2>1. certificates # << >> /\ Walk(build, certificates, anchors) /\ build.status = "built"
    BY <1>7 DEF CheckAll, CallInv
  <2>2. Walk(build, certificates, anchors)'
    BY <1>7, <2>1 DEF CheckAll
  <2>3. /\ now' = clock /\ clock' = clock
        /\ result' = [is_valid |-> CheckErrors(build.chain, now') = {},
                      chain |-> build.chain, errors |-> CheckErrors(build.chain, now')]
    BY <1>7 DEF CheckAll
  <2>4. now' <= clock'
    BY <2>3, TimeAssumption
  <2>5. result'.is_valid => /\ build'.status = "built" /\ result'.chain = build'.chain
                            /\ CheckErrors(build.chain, now)' = {}
    <3>1. build' = build /\ now' = clock
      BY <1>7 DEF CheckAll
    <3>2. CheckErrors(build.chain, now)' = CheckErrors(build.chain, now')
      BY <3>1 DEF CheckErrors
    <3>3. result'.is_valid <=> CheckErrors(build.chain, now') = {}
      BY <2>3
    <3>4. result'.chain = build.chain
      BY <2>3
    <3> QED
      BY <2>1, <3>1, <3>2, <3>3, <3>4
  <2> QED
    BY <1>7, <2>1, <2>2, <2>3, <2>4, <2>5 DEF CheckAll, CallInv
<1>8. CASE Return
  BY <1>8, AnchorListsAreLists DEF Return, CallInv
<1>9. CASE Tick
  <2>1. Walk(build, certificates, anchors) => Walk(build, certificates, anchors)'
    BY <1>9 DEF Tick
  <2>2. now <= clock => now' <= clock'
    BY <1>9, TimeAssumption DEF Tick
  <2>3. CheckErrors(build.chain, now)' = CheckErrors(build.chain, now)
    BY <1>9 DEF Tick, CheckErrors
  <2> QED
    BY <1>9, <2>1, <2>2, <2>3 DEF Tick, CallInv
<1>10. CASE UNCHANGED vars
  <2>1. Walk(build, certificates, anchors)' <=> Walk(build, certificates, anchors)
    BY <1>10 DEF vars
  <2>2. CheckErrors(build.chain, now)' = CheckErrors(build.chain, now)
    BY <1>10 DEF vars, CheckErrors
  <2> QED
    BY <1>10, <2>1, <2>2 DEF vars, CallInv
<1> QED
  BY <1>2, <1>3, <1>4, <1>5, <1>6, <1>7, <1>8, <1>9, <1>10 DEF Next

THEOREM InductiveInvariant == Spec => []IInv
<1>1. Init => IInv
  BY InitIInv
<1>2. IInv /\ [Next]_vars => IInv'
  BY NextIInv
<1> QED
  BY <1>1, <1>2, PTL DEF Spec

-----------------------------------------------------------------------------
(* The properties.                                                         *)

(* The counter of build_chain() never outgrows the certificates: each      *)
(* iteration before the last one has put a further one of them on the path.*)
LEMMA IterationsBounded ==
  ASSUME certificates \in Seq(Pool), Walk(build, certificates, anchors)
  PROVE  build.iterations \in 0..Len(certificates)
<1>1. build.chain \in Seq(Pool)
  BY DEF Walk
<1>2. Len(build.chain) \in Nat /\ Len(build.chain) >= 1 /\ Len(certificates) \in Nat
  <2>1. Len(build.chain) \in Nat /\ Len(certificates) \in Nat
    BY <1>1
  <2>2. Len(build.chain) >= 1
    BY DEF Walk
  <2> QED
    BY <2>1, <2>2
<1>3. CASE build.status = "built"
  <2>1. Own(build.chain, Len(build.chain) - 1, certificates)
    BY <1>3 DEF Walk
  <2>2. Len(build.chain) - 1 \in Nat
    BY <1>2
  <2>3. Len(build.chain) - 1 <= Len(certificates)
    BY <2>1, <2>2, OwnBound
  <2>4. build.iterations = Len(build.chain) - 1
    BY <1>3 DEF Walk
  <2> QED
    BY <1>2, <2>2, <2>3, <2>4
<1>4. CASE build.status # "built"
  <2>1. Own(build.chain, Len(build.chain), certificates)
    BY <1>4 DEF Walk
  <2> DEFINE n == Len(build.chain)
  <2>2. n \in Nat /\ n >= 1
    BY <1>2
  <2>3. n <= Len(certificates)
    BY <2>1, <2>2, OwnBound
  <2>4. build.iterations = n - 1 \/ build.iterations = n
    BY DEF Walk
  <2> HIDE DEF n
  <2>5. n - 1 \in 0..Len(certificates) /\ n \in 0..Len(certificates)
    BY <1>2, <2>2, <2>3
  <2> QED
    BY <2>4, <2>5
<1> QED
  BY <1>3, <1>4

(* Type correctness, with the bound on the iterations of build_chain().    *)
THEOREM TypeCorrect == Spec => []TypeOK
<1>1. IInv => TypeOK
  <2> SUFFICES ASSUME IInv PROVE TypeOK
    OBVIOUS
  <2>1. /\ certificates \in Seq(Pool) /\ Len(certificates) <= MaxCertificates
        /\ anchors \in AnchorLists /\ clock \in Time /\ now \in Time \cup {0}
        /\ pc \in {"idle", "build", "done"}
    BY DEF IInv, CallInv
  <2>2. CASE build = Idle
    <3>1. << >> \in Seq(Pool) /\ 0 \in 0..Len(certificates)
      BY <2>1
    <3> QED
      BY <2>1, <2>2, <3>1 DEF TypeOK, Idle
  <2>3. CASE Walk(build, certificates, anchors)
    <3>1. build.iterations \in 0..Len(certificates)
      BY <2>1, <2>3, IterationsBounded
    <3>2. build.chain \in Seq(Pool)
          /\ build.status \in {"loop", "built", "cycle", "no issuer"}
      BY <2>3 DEF Walk
    <3> QED
      BY <2>1, <3>1, <3>2 DEF TypeOK
  <2> QED
    BY <2>2, <2>3 DEF IInv, CallInv
<1> QED
  BY <1>1, InductiveInvariant, PTL

(* The path follows the names of the issuers and takes no certificate of   *)
(* the caller twice.                                                       *)
THEOREM FollowsNames == Spec => []PathByNames
<1>1. IInv => PathByNames
  <2> SUFFICES ASSUME IInv, pc # "idle", certificates # << >>
               PROVE  /\ build.chain[1] = certificates[1]
                      /\ Linked(build.chain)
                      /\ \A i, j \in 1..(IF build.status = "built" THEN Len(build.chain) - 1
                                          ELSE Len(build.chain)) :
                           i # j => ~SameCertificate(build.chain[i], build.chain[j])
    BY DEF PathByNames, Linked
  <2>1. Walk(build, certificates, anchors)
    BY DEF IInv, CallInv
  <2> QED
    BY <2>1 DEF Walk, Own
<1> QED
  BY <1>1, InductiveInvariant, PTL

(* The bound build_chain() puts on its loop is never met.                  *)
THEOREM BoundNotMet == Spec => []NeverTooLong
<1>1. IInv => NeverTooLong
  <2>1. build = Idle => NeverTooLong
    BY DEF Idle, NeverTooLong
  <2>2. Walk(build, certificates, anchors) => NeverTooLong
    <3>1. Walk(build, certificates, anchors)
            => build.status \in {"loop", "built", "cycle", "no issuer"}
      BY DEF Walk
    <3> QED
      BY <3>1 DEF NeverTooLong
  <2> QED
    BY <2>1, <2>2 DEF IInv, CallInv
<1> QED
  BY <1>1, InductiveInvariant, PTL

(* No error means that every certificate is valid and every one but the    *)
(* last is signed by the next.                                             *)
LEMMA NoErrors ==
  ASSUME NEW chain, NEW time, CheckErrors(chain, time) = {}
  PROVE  /\ \A i \in 1..Len(chain) : Current(chain[i], time)
         /\ \A i \in 1..(Len(chain) - 1) : SignedBy(chain[i], chain[i + 1])
<1>1. ASSUME NEW i \in 1..Len(chain) PROVE Current(chain[i], time)
  <2>1. ~ValidAt(chain[i], time) => << "validity", i >> \in CheckErrors(chain, time)
    BY DEF CheckErrors
  <2> QED
    BY <2>1 DEF ValidAt, Current
<1>2. ASSUME NEW i \in 1..(Len(chain) - 1) PROVE SignedBy(chain[i], chain[i + 1])
  <2>1. ~VerifiesWithCa(chain[i], chain[i + 1], DefaultId)
          => << "signature", i >> \in CheckErrors(chain, time)
    BY DEF CheckErrors
  <2> QED
    BY <2>1 DEF VerifiesWithCa, Verifies, SignedBy
<1> QED
  BY <1>1, <1>2

(* A chain verify() accepts is trusted: it leads from the caller's first   *)
(* certificate by signatures to one of its trust anchors, and all of it is *)
(* valid at one instant of the call.                                       *)
THEOREM Soundness == Spec => []AcceptedIsTrusted
<1>1. IInv => AcceptedIsTrusted
  <2> SUFFICES ASSUME IInv, pc = "done", result.is_valid
               PROVE  /\ result.chain[1] = certificates[1]
                      /\ result.chain[Len(result.chain)] \in Range(anchors)
                      /\ now <= clock
                      /\ \A i \in 1..Len(result.chain) : Current(result.chain[i], now)
                      /\ \A i \in 1..(Len(result.chain) - 1) :
                           SignedBy(result.chain[i], result.chain[i + 1])
    BY DEF AcceptedIsTrusted
  <2>1. /\ Walk(build, certificates, anchors)
        /\ build.status = "built" /\ result.chain = build.chain
        /\ now <= clock /\ CheckErrors(build.chain, now) = {}
    BY DEF IInv, CallInv
  <2>2. /\ build.chain[1] = certificates[1]
        /\ build.chain[Len(build.chain)] \in Range(anchors)
    BY <2>1 DEF Walk
  <2> QED
    BY <2>1, <2>2, NoErrors
<1> QED
  BY <1>1, InductiveInvariant, PTL

-----------------------------------------------------------------------------
(* Why a path ended where it did.                                          *)

(* How many certificates of the path bear the name of an issuer that was   *)
(* looked for among the anchors in vain.                                   *)
Passed(b) ==
  IF b.status = "loop" THEN Len(b.chain) - 1
  ELSE IF b.status = "built" THEN Len(b.chain) - 2
  ELSE Len(b.chain)

Searched(b, certs, ancs) ==
  LET name == b.chain[Len(b.chain)].issuer
  IN  /\ \A i \in 1..Passed(b) : ~HasSubject(ancs, b.chain[i].issuer)
      /\ b.status = "cycle" => Seen(b.chain, FirstWithSubject(certs, name))
      /\ b.status = "cycle" => HasSubject(certs, name)
      /\ b.status = "no issuer" => ~HasSubject(certs, name)

LEMMA IterationSearches ==
  ASSUME NEW b, certificates \in Seq(Pool), certificates # << >>, anchors \in Seq(Pool),
         Walk(b, certificates, anchors), b.status = "loop",
         Searched(b, certificates, anchors)
  PROVE  Searched(Iteration(b), certificates, anchors)
<1> DEFINE n       == Len(b.chain)
           current == b.chain[n]
           issuer  == FirstWithSubject(certificates, current.issuer)
           anchor  == FirstWithSubject(anchors, current.issuer)
<1>0. b \in [chain : Seq(Pool), iterations : Nat,
             status : {"loop", "built", "cycle", "no issuer"}]
  BY DEF Walk
<1>1. b.chain \in Seq(Pool) /\ n \in Nat /\ n >= 1 /\ b.iterations = n - 1
  <2>1. b.chain \in Seq(Pool)
    BY <1>0
  <2>2. n \in Nat
    BY <2>1
  <2>3. n >= 1 /\ b.iterations = n - 1
    BY DEF Walk
  <2> QED
    BY <2>1, <2>2, <2>3
<1>2. Own(b.chain, n, certificates)
  BY DEF Walk
<1>3. n <= Len(certificates) /\ Len(certificates) \in Nat /\ Len(anchors) \in Nat
  BY <1>1, <1>2, OwnBound
<1>4. ~(b.iterations >= MaxIterations)
  BY <1>1, <1>3 DEF MaxIterations
<1>5. current \in Range(certificates) /\ n \in 1..n
  BY <1>1, <1>2 DEF Own
<1>6. \A i \in 1..(n - 1) : ~HasSubject(anchors, b.chain[i].issuer)
  BY DEF Searched, Passed
<1>7. ASSUME NEW c \in Pool
      PROVE  /\ Len(Append(b.chain, c)) = n + 1
             /\ \A i \in 1..n : Append(b.chain, c)[i] = b.chain[i]
  BY <1>1, AppendProperties DEF n
<1>8. \A i \in 1..n : i = n \/ i \in 1..(n - 1)
  <2> HIDE DEF n
  <2> QED
    BY <1>1
<1>9. anchor \in Pool \/ ~HasSubject(anchors, current.issuer)
  BY FirstFound DEF Range
<1>10. issuer \in Pool \/ ~HasSubject(certificates, current.issuer)
  BY FirstFound DEF Range
<1> HIDE DEF n, current, issuer, anchor
<1>11. CASE HasSubject(anchors, current.issuer)
  <2>1. /\ Iteration(b).chain = Append(b.chain, anchor)
        /\ Iteration(b).status = "built"
    BY <1>0, <1>4, <1>11 DEF Iteration, current, anchor, n
  <2>2. Len(Append(b.chain, anchor)) = n + 1
        /\ \A i \in 1..n : Append(b.chain, anchor)[i] = b.chain[i]
    BY <1>7, <1>9, <1>11
  <2>3. Passed(Iteration(b)) = n - 1
    BY <1>1, <2>1, <2>2 DEF Passed
  <2>4. \A i \in 1..(n - 1) : i \in 1..n
    BY <1>1
  <2>5. \A i \in 1..(n - 1) : ~HasSubject(anchors, Iteration(b).chain[i].issuer)
    BY <1>6, <2>1, <2>2, <2>4
  <2> QED
    BY <2>1, <2>3, <2>5 DEF Searched
<1>12. CASE ~HasSubject(anchors, current.issuer) /\ HasSubject(certificates, current.issuer)
            /\ Seen(b.chain, issuer)
  <2>1. Iteration(b) = Cycle(b)
    BY <1>4, <1>12 DEF Iteration, current, issuer, n
  <2>2. Iteration(b).chain = b.chain /\ Iteration(b).status = "cycle"
    BY <1>0, <2>1 DEF Cycle
  <2>4. \A i \in 1..n : ~HasSubject(anchors, b.chain[i].issuer)
    BY <1>6, <1>8, <1>12 DEF current
  <2> QED
    BY <1>12, <2>2, <2>4 DEF Searched, Passed, current, issuer, n
<1>13. CASE ~HasSubject(anchors, current.issuer) /\ HasSubject(certificates, current.issuer)
            /\ ~Seen(b.chain, issuer)
  <2>1. /\ Iteration(b).chain = Append(b.chain, issuer)
        /\ Iteration(b).status = "loop"
    BY <1>0, <1>4, <1>13 DEF Iteration, current, issuer, n
  <2>2. Len(Append(b.chain, issuer)) = n + 1
        /\ \A i \in 1..n : Append(b.chain, issuer)[i] = b.chain[i]
    BY <1>7, <1>10, <1>13
  <2>3. Passed(Iteration(b)) = n
    BY <1>1, <2>1, <2>2 DEF Passed
  <2>4. \A i \in 1..n : ~HasSubject(anchors, b.chain[i].issuer)
    BY <1>6, <1>8, <1>13 DEF current
  <2>5. \A i \in 1..n : ~HasSubject(anchors, Iteration(b).chain[i].issuer)
    BY <2>1, <2>2, <2>4
  <2> QED
    BY <2>1, <2>3, <2>5 DEF Searched
<1>14. CASE ~HasSubject(anchors, current.issuer) /\ ~HasSubject(certificates, current.issuer)
  <2>1. current.issuer # current.subject
    BY <1>5, <1>14 DEF HasSubject, Range
  <2>2. Iteration(b).chain = b.chain /\ Iteration(b).status = "no issuer"
    BY <1>0, <1>4, <1>14, <2>1 DEF Iteration, current, n
  <2>4. \A i \in 1..n : ~HasSubject(anchors, b.chain[i].issuer)
    BY <1>6, <1>8, <1>14 DEF current
  <2> QED
    BY <1>14, <2>2, <2>4 DEF Searched, Passed, current, n
<1> QED
  BY <1>11, <1>12, <1>13, <1>14

(* What is known of a call beyond the path: why it ended, and that the     *)
(* answer is that of the checks.                                           *)
Explained ==
  pc # "idle" /\ certificates # << >> =>
    /\ Searched(build, certificates, anchors)
    /\ pc = "done" => build.status # "loop"
    /\ pc = "done" /\ build.status = "built" =>
         (result.is_valid <=> CheckErrors(build.chain, now) = {})

LEMMA NextExplained ==
  ASSUME IInv, Explained, [Next]_vars
  PROVE  Explained'
<1>1. anchors \in Seq(Pool) /\ certificates \in Seq(Pool)
  BY AnchorListsAreLists DEF IInv
<1>2. ASSUME NEW c \in Pool, AddCertificates(<< c >>) PROVE Explained'
  BY <1>2 DEF AddCertificates, Explained
<1>3. ASSUME NEW trust_anchors \in AnchorLists, VerifyEmpty(trust_anchors) PROVE Explained'
  BY <1>3 DEF VerifyEmpty, Explained
<1>4. ASSUME NEW trust_anchors \in AnchorLists, VerifyStart(trust_anchors) PROVE Explained'
  <2>1. /\ build'.status = "loop" /\ build'.chain = << certificates[1] >> /\ pc' = "build"
    BY <1>4 DEF VerifyStart
  <2>2. Passed(build') = 0
    BY <2>1 DEF Passed
  <2>3. Searched(build', certificates', anchors')
    BY <2>1, <2>2 DEF Searched
  <2> QED
    BY <2>1, <2>3 DEF Explained
<1>5. CASE BuildStep
  <2>1. certificates # << >> /\ Walk(build, certificates, anchors) /\ build.status = "loop"
    BY <1>5 DEF BuildStep, IInv, CallInv
  <2>2. Searched(Iteration(build), certificates, anchors)
    BY <1>1, <1>5, <2>1, IterationSearches DEF BuildStep, Explained
  <2> QED
    BY <1>5, <2>2 DEF BuildStep, Explained
<1>6. CASE BuildFailed
  BY <1>6 DEF BuildFailed, Explained, Failed
<1>7. CASE CheckAll
  <2>1. build' = build /\ now' = clock /\ certificates' = certificates /\ anchors' = anchors
    BY <1>7 DEF CheckAll
  <2>2. CheckErrors(build.chain, now)' = CheckErrors(build.chain, now')
    BY <2>1 DEF CheckErrors
  <2>3. result'.is_valid <=> CheckErrors(build.chain, now') = {}
    BY <1>7 DEF CheckAll
  <2>4. build.status = "built" /\ (certificates # << >> => Searched(build, certificates, anchors))
    BY <1>7 DEF CheckAll, Explained
  <2> QED
    BY <2>1, <2>2, <2>3, <2>4 DEF Explained
<1>8. CASE Return
  BY <1>8 DEF Return, Explained
<1>9. CASE Tick
  <2>1. CheckErrors(build.chain, now)' = CheckErrors(build.chain, now)
    BY <1>9 DEF Tick, CheckErrors
  <2> QED
    BY <1>9, <2>1 DEF Tick, Explained
<1>10. CASE UNCHANGED vars
  <2>1. CheckErrors(build.chain, now)' = CheckErrors(build.chain, now)
    BY <1>10 DEF vars, CheckErrors
  <2> QED
    BY <1>10, <2>1 DEF vars, Explained
<1> QED
  BY <1>2, <1>3, <1>4, <1>5, <1>6, <1>7, <1>8, <1>9, <1>10 DEF Next

-----------------------------------------------------------------------------
(* How trust spreads.                                                      *)

Known == Range(certificates) \cup Range(anchors)

(* The certificates that one of a set has signed.                          *)
SignedIn(set, time) ==
  {c \in Range(certificates) : Current(c, time) /\ \E d \in set : SignedBy(c, d)}

Stages(t, time) ==
  /\ t[0] = {a \in Range(anchors) : Current(a, time)}
  /\ \A n \in 1..Len(certificates) : t[n] = t[n - 1] \cup SignedIn(t[n - 1], time)

(* The recursive function Trusted is defined by exists, and is what its    *)
(* definition says.                                                        *)
LEMMA TrustedByStages ==
  ASSUME certificates \in Seq(Pool), NEW time
  PROVE  \E t : Stages(t, time) /\ Trusted(time) = t[Len(certificates)]
<1> DEFINE N    == Len(certificates)
           V    == SUBSET Known
           base == {a \in Range(anchors) : Current(a, time)}
           step == [n \in 1..N |-> [s \in V |-> s \cup SignedIn(s, time)]]
           body(t) == [n \in 0..N |->
                         IF n = 0 THEN {a \in Range(anchors) : Current(a, time)}
                         ELSE t[n - 1] \cup {c \in Range(certificates) :
                                Current(c, time) /\ \E d \in t[n - 1] : SignedBy(c, d)}]
           f    == CHOOSE t : t = body(t)
<1>1. N \in Nat
  OBVIOUS
<1>2. base \in V /\ \A s \in V : s \cup SignedIn(s, time) \in V
  BY DEF Known, SignedIn
<1>3. Trusted(time) = f[N]
  BY DEF Trusted
<1> HIDE DEF N, V, base
<1>4. step \in [1..N -> [V -> V]]
  BY <1>2
<1>5. PICK g \in [0..N -> V] : g[0] = base /\ \A n \in 1..N : g[n] = step[n][g[n - 1]]
  <2> HIDE DEF step
  <2> QED
    BY <1>1, <1>2, <1>4, Recursion
<1>6. ASSUME NEW n \in 1..N PROVE g[n] = g[n - 1] \cup SignedIn(g[n - 1], time)
  <2>1. n - 1 \in 0..N
    BY <1>1
  <2>2. g[n - 1] \in V
    BY <1>5, <2>1
  <2> QED
    BY <1>5, <2>2
<1> HIDE DEF step
<1>7. ASSUME NEW n \in 0..N PROVE g[n] = body(g)[n]
  <2>1. CASE n = 0
    BY <1>5, <2>1 DEF base
  <2>2. CASE n # 0
    <3>1. n \in 1..N
      BY <1>1, <2>2
    <3> QED
      BY <1>6, <2>2, <3>1 DEF SignedIn
  <2> QED
    BY <2>1, <2>2
<1>8. g = body(g)
  <2>1. DOMAIN g = 0..N /\ DOMAIN body(g) = 0..N /\ g = [n \in 0..N |-> g[n]]
    BY <1>5
  <2>2. body(g) = [n \in 0..N |-> body(g)[n]]
    OBVIOUS
  <2> HIDE DEF body
  <2> QED
    BY <1>7, <2>1, <2>2
<1>9. f = body(f)
  <2> HIDE DEF body
  <2> QED
    BY <1>8
<1> HIDE DEF f
<1>10. f[0] = base
  <2>1. 0 \in 0..N
    BY <1>1
  <2> QED
    BY <1>9, <2>1 DEF base
<1>11. ASSUME NEW n \in 1..N PROVE f[n] = f[n - 1] \cup SignedIn(f[n - 1], time)
  <2>1. n \in 0..N /\ n # 0
    BY <1>1
  <2>2. f[n] = body(f)[n]
    BY <1>9
  <2>3. body(f)[n] = f[n - 1] \cup SignedIn(f[n - 1], time)
    BY <2>1 DEF SignedIn
  <2> HIDE DEF body
  <2> QED
    BY <2>2, <2>3
<1> HIDE DEF body
<1>12. Stages(f, time)
  BY <1>10, <1>11 DEF Stages, N, base
<1> QED
  BY <1>3, <1>12 DEF N

(* Of every certificate that is trusted: it is current, known, and an      *)
(* anchor or signed by one that is trusted.                                *)
LEMMA TrustedBySomeone ==
  ASSUME certificates \in Seq(Pool), NEW time, NEW d \in Trusted(time)
  PROVE  /\ Current(d, time) /\ d \in Known
         /\ d \in Range(anchors) \/ \E e \in Trusted(time) : SignedBy(d, e)
<1> DEFINE N == Len(certificates)
<1>1. PICK t : Stages(t, time) /\ Trusted(time) = t[N]
  BY TrustedByStages
<1>2. N \in Nat
  OBVIOUS
<1>3. /\ t[0] = {a \in Range(anchors) : Current(a, time)}
      /\ \A n \in 1..N : t[n] = t[n - 1] \cup SignedIn(t[n - 1], time)
  BY <1>1 DEF Stages
<1> HIDE DEF N
<1> DEFINE Fine(n) == \A c \in t[n] : /\ Current(c, time) /\ c \in Known
                                      /\ c \in Range(anchors) \/ \E e \in t[n] : SignedBy(c, e)
           T == {n \in 0..N : Fine(n)}
<1>4. 0 \in T
  BY <1>2, <1>3 DEF Known
<1>5. ASSUME NEW n \in 0..(N - 1), n \in T PROVE n + 1 \in T
  <2>1. n + 1 \in 1..N /\ n + 1 \in 0..N /\ (n + 1) - 1 = n
    BY <1>2
  <2>2. t[n + 1] = t[n] \cup SignedIn(t[n], time)
    BY <1>3, <2>1
  <2>3. Fine(n + 1)
    BY <1>5, <2>2 DEF Known, SignedIn
  <2> QED
    BY <2>1, <2>3
<1> HIDE DEF T
<1>6. N \in 0..N
  BY <1>2
<1>7. N \in T
  BY <1>2, <1>4, <1>5, <1>6, UpTo
<1> QED
  BY <1>1, <1>7 DEF T

(* A set that no anchor belongs to and whose certificates only the set     *)
(* could vouch for holds nothing that is trusted.                          *)
LEMMA OutsideUntrusted ==
  ASSUME certificates \in Seq(Pool), NEW time, NEW C,
         C \cap Range(anchors) = {},
         \A c \in C \cap Range(certificates) : \A e \in Known : SignedBy(c, e) => e \in C
  PROVE  C \cap Trusted(time) = {}
<1> DEFINE N == Len(certificates)
<1>1. PICK t : Stages(t, time) /\ Trusted(time) = t[N]
  BY TrustedByStages
<1>2. N \in Nat
  OBVIOUS
<1>3. /\ t[0] = {a \in Range(anchors) : Current(a, time)}
      /\ \A n \in 1..N : t[n] = t[n - 1] \cup SignedIn(t[n - 1], time)
  BY <1>1 DEF Stages
<1> HIDE DEF N
<1> DEFINE T == {n \in 0..N : C \cap t[n] = {} /\ t[n] \subseteq Known}
<1>4. 0 \in T
  BY <1>2, <1>3 DEF Known
<1>5. ASSUME NEW n \in 0..(N - 1), n \in T PROVE n + 1 \in T
  <2>1. n + 1 \in 1..N /\ n + 1 \in 0..N /\ (n + 1) - 1 = n
    BY <1>2
  <2>2. t[n + 1] = t[n] \cup SignedIn(t[n], time)
    BY <1>3, <2>1
  <2>3. C \cap t[n + 1] = {} /\ t[n + 1] \subseteq Known
    BY <1>5, <2>2 DEF SignedIn, Known
  <2> QED
    BY <2>1, <2>3
<1> HIDE DEF T
<1>6. N \in 0..N
  BY <1>2
<1>7. N \in T
  BY <1>2, <1>4, <1>5, <1>6, UpTo
<1> QED
  BY <1>1, <1>7 DEF T

-----------------------------------------------------------------------------
(* Completeness.                                                           *)

LEMMA Places ==
  ASSUME NEW n \in Nat, n >= 1
  PROVE  /\ 1 \in 1..n
         /\ \A i \in 1..n : i # n => i \in 1..(n - 1) /\ i + 1 \in 1..n
OBVIOUS

LEMMA WalkIsPath ==
  ASSUME NEW b, NEW certs, NEW ancs, Walk(b, certs, ancs)
  PROVE  /\ b.chain \in Seq(Pool) /\ b.chain[1] = certs[1]
         /\ Len(b.chain) \in Nat /\ Len(b.chain) >= 1 /\ DOMAIN b.chain = 1..Len(b.chain)
<1>1. b.chain \in Seq(Pool) /\ b.chain[1] = certs[1] /\ Len(b.chain) >= 1
  BY DEF Walk
<1>2. \A s \in Seq(Pool) : Len(s) \in Nat /\ DOMAIN s = 1..Len(s)
  OBVIOUS
<1> QED
  BY <1>1, <1>2

(* A path that came to no anchor: the names it went through are those of   *)
(* no anchor, and each of them leads to another of them.                   *)
LEMMA NoPathUntrusted ==
  ASSUME certificates \in Seq(Pool), certificates # << >>, Unambiguous,
         Walk(build, certificates, anchors), Searched(build, certificates, anchors),
         build.status \in {"cycle", "no issuer"}, NEW time, NEW d \in Trusted(time)
  PROVE  ~SignedBy(certificates[1], d)
<1>0. /\ Len(build.chain) \in Nat /\ Len(build.chain) >= 1
      /\ build.chain[1] = certificates[1]
  <2>1. Walk(build, certificates, anchors)
    OBVIOUS
  <2>2. /\ build.chain \in Seq(Pool) /\ build.chain[1] = certificates[1]
        /\ Len(build.chain) \in Nat /\ Len(build.chain) >= 1
    BY ONLY <2>1, WalkIsPath
  <2> QED
    BY <2>2
<1> DEFINE chain == build.chain
           n     == Len(chain)
           C     == {c \in Known : \E i \in 1..n : c.subject = chain[i].issuer}
           first == FirstWithSubject(certificates, chain[n].issuer)
<1>1. /\ n \in Nat /\ n >= 1 /\ chain[1] = certificates[1]
  BY <1>0
<1>2. \A i \in 1..n : chain[i] \in Range(certificates)
  BY DEF Walk, Own
<1>3. \A i \in 1..(n - 1) : chain[i].issuer = chain[i + 1].subject
  BY DEF Walk, Linked
<1>4. \A i \in 1..n : ~HasSubject(anchors, chain[i].issuer)
  BY DEF Searched, Passed
<1>5. \/ ~HasSubject(certificates, chain[n].issuer)
      \/ /\ HasSubject(certificates, chain[n].issuer)
         /\ \E k \in 1..n : SameCertificate(chain[k], first)
  <2>1. DOMAIN chain = 1..n
    BY WalkIsPath
  <2> QED
    BY <2>1 DEF Searched, Seen
<1>6. C \cap Range(anchors) = {}
  BY <1>4 DEF HasSubject, Range
<1>7. ASSUME NEW c \in C, c \in Range(certificates)
      PROVE  \E k \in 1..n : c = chain[k]
  <2>1. PICK i \in 1..n : c.subject = chain[i].issuer
    BY <1>7
  <2> HIDE DEF chain, n, C, first
  <2>2. CASE i # n
    <3>1. i \in 1..(n - 1) /\ i + 1 \in 1..n
      BY <1>1, <2>2, Places, Zenon
    <3>2. chain[i + 1].subject = c.subject /\ chain[i + 1] \in Range(certificates)
      BY <1>2, <1>3, <2>1, <3>1
    <3>3. chain[i + 1] = c
      BY <1>7, <3>2 DEF Unambiguous
    <3> QED
      BY <3>1, <3>3
  <2>3. CASE i = n
    <3>1. HasSubject(certificates, chain[n].issuer)
      BY <1>7, <2>1, <2>3 DEF HasSubject, Range
    <3>2. PICK k \in 1..n : SameCertificate(chain[k], first)
      BY <1>5, <3>1
    <3>3. first.subject = c.subject
      BY <2>1, <2>3, <3>1, FirstFound DEF first
    <3>4. chain[k].subject = c.subject /\ chain[k] \in Range(certificates)
      BY <1>2, <3>2, <3>3 DEF SameCertificate
    <3>5. chain[k] = c
      BY <1>7, <3>4 DEF Unambiguous
    <3> QED
      BY <3>5
  <2> QED
    BY <2>2, <2>3
<1>8. ASSUME NEW e, e \in Trusted(time) PROVE e \notin C
  <2>1. ASSUME NEW c \in C \cap Range(certificates), NEW a \in Known, SignedBy(c, a)
        PROVE  a \in C
    <3>1. PICK k \in 1..n : c = chain[k]
      BY <1>7
    <3>2. a.subject = chain[k].issuer
      BY <2>1, <3>1 DEF SignedBy
    <3> QED
      BY <3>1, <3>2
  <2>2. e \in Known
    BY <1>8, TrustedBySomeone
  <2> QED
    BY <1>6, <1>8, <2>1, <2>2, OutsideUntrusted
<1>9. SUFFICES ASSUME SignedBy(certificates[1], d) PROVE FALSE
  OBVIOUS
<1>10. d \in Known
  BY TrustedBySomeone
<1>11. d.subject = chain[1].issuer /\ 1 \in 1..n
  <2>1. 1 \in 1..n
    BY <1>1, Places, Zenon
  <2> QED
    BY <1>1, <1>9, <2>1 DEF SignedBy
<1>12. d \in C
  BY <1>10, <1>11
<1> QED
  BY <1>8, <1>12

(* A path to an anchor whose first certificate is current and signed by    *)
(* one that is trusted: all of it is trusted, for by its name each next    *)
(* certificate is the one that has signed.                                 *)
LEMMA PathTrusted ==
  ASSUME certificates \in Seq(Pool), certificates # << >>, Unambiguous,
         Walk(build, certificates, anchors), Searched(build, certificates, anchors),
         build.status = "built", NEW time, Current(certificates[1], time),
         NEW d \in Trusted(time), SignedBy(certificates[1], d)
  PROVE  CheckErrors(build.chain, time) = {}
<1>0. /\ Len(build.chain) \in Nat /\ Len(build.chain) >= 1
      /\ build.chain[1] = certificates[1]
  <2>1. Walk(build, certificates, anchors)
    OBVIOUS
  <2>2. /\ build.chain \in Seq(Pool) /\ build.chain[1] = certificates[1]
        /\ Len(build.chain) \in Nat /\ Len(build.chain) >= 1
    BY ONLY <2>1, WalkIsPath
  <2> QED
    BY <2>2
<1> DEFINE chain == build.chain
           n     == Len(chain)
<1>1. n \in Nat /\ n >= 1 /\ chain[1] = certificates[1]
  BY <1>0
<1>2. /\ \A i \in 1..(n - 1) : chain[i] \in Range(certificates)
      /\ chain[n] \in Range(anchors)
  BY DEF Walk, Own
<1>3. \A i \in 1..(n - 1) : chain[i].issuer = chain[i + 1].subject
  BY DEF Walk, Linked
<1>4. \A i \in 1..(n - 2) : ~HasSubject(anchors, chain[i].issuer)
  BY DEF Searched, Passed
<1> HIDE DEF chain, n
<1>5. ASSUME NEW i \in 1..n PROVE chain[i] \in Known
  <2>1. i = n \/ i \in 1..(n - 1)
    BY <1>1, Places
  <2> QED
    BY <1>2, <2>1 DEF Known
<1>6. ASSUME NEW i \in 1..(n - 1), NEW e \in Trusted(time), SignedBy(chain[i], e)
      PROVE  chain[i + 1] = e
  <2>1. i + 1 \in 1..n
    BY <1>1
  <2>2. chain[i + 1] \in Known /\ e \in Known
    BY <1>5, <2>1, TrustedBySomeone
  <2>3. chain[i + 1].subject = e.subject
    BY <1>3, <1>6 DEF SignedBy
  <2> QED
    BY <2>2, <2>3 DEF Unambiguous, Known
<1> DEFINE Vouched(i) == /\ Current(chain[i], time)
                         /\ i # n => \E e \in Trusted(time) : SignedBy(chain[i], e)
           T == {k \in 0..(n - 1) : Vouched(k + 1)}
<1>7. ASSUME NEW i \in 1..(n - 1), Vouched(i) PROVE Vouched(i + 1)
  <2>1. i # n
    BY <1>1
  <2>2. PICK e \in Trusted(time) : SignedBy(chain[i], e)
    BY <1>7, <2>1
  <2>3. chain[i + 1] = e /\ Current(e, time)
    BY <1>6, <2>2, TrustedBySomeone
  <2>4. CASE i + 1 = n
    BY <2>3, <2>4
  <2>5. CASE i + 1 # n
    <3>1. i \in 1..(n - 2)
      BY <1>1, <2>5
    <3>2. e \notin Range(anchors)
      BY <1>3, <1>4, <2>3, <3>1 DEF HasSubject, Range
    <3>3. \E a \in Trusted(time) : SignedBy(e, a)
      BY <2>2, <3>2, TrustedBySomeone
    <3> QED
      BY <2>3, <3>3
  <2> QED
    BY <2>4, <2>5
<1>8. Vouched(1)
  BY <1>1
<1> HIDE DEF Vouched
<1>9. ASSUME NEW i \in 1..n PROVE Vouched(i)
  <2>1. 0 \in T /\ n - 1 \in Nat
    <3>1. n - 1 \in Nat /\ 0 \in 0..(n - 1) /\ 0 + 1 = 1
      BY <1>1
    <3> QED
      BY <1>8, <3>1
  <2>2. ASSUME NEW k \in 0..((n - 1) - 1), k \in T PROVE k + 1 \in T
    <3>1. k + 1 \in 1..(n - 1) /\ k + 1 \in 0..(n - 1)
      BY <1>1
    <3> QED
      BY <1>7, <2>2, <3>1
  <2> HIDE DEF T
  <2>3. 0..(n - 1) \subseteq T
    BY <2>1, <2>2, UpTo
  <2>4. i - 1 \in 0..(n - 1) /\ (i - 1) + 1 = i
    BY <1>1
  <2>5. i - 1 \in T
    BY <2>3, <2>4
  <2> QED
    BY <2>4, <2>5 DEF T
<1>10. \A i \in 1..n : ValidAt(chain[i], time)
  BY <1>9 DEF Vouched, ValidAt, Current
<1>11. ASSUME NEW i \in 1..(n - 1) PROVE VerifiesWithCa(chain[i], chain[i + 1], DefaultId)
  <2>1. i \in 1..n /\ i # n
    BY <1>1
  <2>2. PICK e \in Trusted(time) : SignedBy(chain[i], e)
    BY <1>9, <2>1 DEF Vouched
  <2>3. chain[i + 1] = e
    BY <1>6, <2>2
  <2> QED
    BY <2>2, <2>3 DEF VerifiesWithCa, Verifies, SignedBy
<1> QED
  BY <1>10, <1>11 DEF CheckErrors, chain, n

(* When names are unambiguous what verify() rejects is not trusted: with a *)
(* path it is not at the instant of the checks, without one it never is,   *)
(* in whatever order the certificates were added and whatever else is      *)
(* among them.                                                             *)
THEOREM Completeness == Spec => []TrustedIsAccepted
<1>1. IInv /\ Explained => TrustedIsAccepted
  <2> SUFFICES ASSUME IInv, Explained, pc = "done", certificates # << >>, Unambiguous,
                      ~result.is_valid,
                      NEW time \in IF build.status = "built" THEN {now} ELSE Time,
                      Current(certificates[1], time), NEW d \in Trusted(time)
               PROVE  ~SignedBy(certificates[1], d)
    BY DEF TrustedIsAccepted
  <2>1. certificates \in Seq(Pool) /\ Walk(build, certificates, anchors)
    BY DEF IInv, CallInv
  <2>2. /\ Searched(build, certificates, anchors) /\ build.status # "loop"
        /\ build.status = "built" => (result.is_valid <=> CheckErrors(build.chain, now) = {})
    BY DEF Explained
  <2>3. build.status \in {"loop", "built", "cycle", "no issuer"}
    BY <2>1 DEF Walk
  <2>4. CASE build.status = "built"
    <3>1. time = now /\ CheckErrors(build.chain, now) # {}
      BY <2>2, <2>4
    <3> QED
      BY <2>1, <2>2, <2>4, <3>1, PathTrusted
  <2>5. CASE build.status \in {"cycle", "no issuer"}
    BY <2>1, <2>2, <2>5, NoPathUntrusted
  <2> QED
    BY <2>2, <2>3, <2>4, <2>5
<1>2. Init => Explained
  BY DEF Init, Explained
<1>3. IInv /\ Explained /\ [Next]_vars => Explained'
  BY NextExplained
<1> QED
  BY <1>1, <1>2, <1>3, InductiveInvariant, PTL DEF Spec
=============================================================================
