---------------------------- MODULE Gossip_proofs ----------------------------
(***************************************************************************)
(* Proofs about des-gossip-adv, for any scenario: any number of nodes,     *)
(* threads, packets and faults, any radio links and every variant.  The    *)
(* sets of the neighbourhood and the packets each have an invariant of     *)
(* their own, as neither uses what the other promises.                     *)
(***************************************************************************)
EXTENDS Gossip, TLAPS, FiniteSetTheorems, SequenceTheorems

\* Who is called MPR in a HELLO is called symmetric in it.
WireOK ==
    \A l \in net.radio : wire[l] # NoHello =>
        \A x \in wire[l].mpr : wire[l].st[x] = "sym"

NhdpInv == NhdpTypeOK /\ net \in Scenarios /\ SetsAgree /\ WireOK

-----------------------------------------------------------------------------
(* The sets of the neighbourhood. *)

\* The sets of node n: what SetsAgree says of one node.
NodeAgrees(n, ln, sel, ns, sym, two) ==
    \A m \in Here :
       /\ ln[m] # "none" => m \in ns
       /\ ln[m] = "sym" => m \in sym
       /\ n \notin ns
       /\ \A x \in Here : <<m, x>> \in two => m \in sym
       /\ m \in sel => m \in sym /\ ln[m] # "none"

LEMMA AgreeIsNodes ==
    SetsAgree <=> \A n \in Here :
        NodeAgrees(n, link[n], selector[n], nset[n], nsym[n], n2[n])
BY DEF SetsAgree, NodeAgrees

LEMMA ScenarioTypes ==
    ASSUME net \in Scenarios
    PROVE  /\ IsFiniteSet(Here) /\ net.radio \subseteq Here \X Here
           /\ \A l \in net.radio : l[1] # l[2]
           /\ net.two \in [Here -> SUBSET (Here \X Here)]
           /\ \A n \in Here : \A t \in net.two[n] : t[1] # n
           /\ net.mode \in [Here -> {"periodic", "event"}] /\ net.faults \in Nat
BY NhdpAssumption DEF Here

\* A step that changes the sets of node n only.
LEMMA NodeStep ==
    ASSUME SetsAgree, net' = net, NEW n \in Here,
           \A x \in Here \ {n} :
              /\ link'[x] = link[x] /\ selector'[x] = selector[x]
              /\ nset'[x] = nset[x] /\ nsym'[x] = nsym[x] /\ n2'[x] = n2[x],
           NodeAgrees(n, link'[n], selector'[n], nset'[n], nsym'[n], n2'[n])
    PROVE  SetsAgree'
<1>1. Here' = Here
  BY DEF Here
<1>2. \A x \in Here : NodeAgrees(x, link'[x], selector'[x], nset'[x], nsym'[x], n2'[x])
  BY AgreeIsNodes
<1> QED BY <1>1, <1>2 DEF NodeAgrees, SetsAgree

LEMMA HelloFits ==
    ASSUME NhdpTypeOK, NEW n \in Here
    PROVE  Hello(n) \in HelloMsg /\ \A x \in Hello(n).mpr : Hello(n).st[x] = "sym"
<1>1. link[n] \in [Here -> Status] /\ nsym[n] \subseteq Here
  BY DEF NhdpTypeOK
<1> QED BY <1>1 DEF Hello, HelloMsg

LEMMA NhdpInitInv == NhdpInit => NhdpInv
<1> SUFFICES ASSUME NhdpInit PROVE NhdpInv
  OBVIOUS
<1> DEFINE via(n) == {t[1] : t \in net.two[n]}
<1>1. net \in Scenarios
  BY DEF NhdpInit
<1>2. /\ link = [n \in Here |-> [m \in Here |-> IF m \in via(n) THEN "sym" ELSE "none"]]
      /\ nset = [n \in Here |-> via(n)] /\ nsym = nset /\ n2 = net.two
      /\ selector = [n \in Here |-> {}] /\ mpr = [n \in Here |-> {}]
      /\ task = net.mode /\ choosing = {} /\ torn = {}
      /\ wire = [l \in net.radio |-> NoHello] /\ faults = net.faults
  BY DEF NhdpInit
<1>3. \A n \in Here : via(n) \subseteq Here /\ n \notin via(n)
  BY <1>1, ScenarioTypes
<1>4. NhdpTypeOK
  BY <1>1, <1>2, <1>3, ScenarioTypes DEF NhdpTypeOK, Status
<1>5. \A n \in Here : \A t \in n2[n] : t[1] \in via(n)
  BY <1>2
<1> HIDE DEF via
<1>6. SetsAgree
  BY <1>2, <1>3, <1>5 DEF SetsAgree
<1>7. WireOK
  BY <1>2 DEF WireOK
<1> QED BY <1>1, <1>4, <1>6, <1>7 DEF NhdpInv

-----------------------------------------------------------------------------
(* The actions of Nhdp. *)

\* What a step leaves alone that neither disturbs types nor sets.
SameSets == UNCHANGED <<link, selector, nset, nsym, n2>>

LEMMA SameSetsAgree ==
    ASSUME SetsAgree, net' = net, SameSets
    PROVE  SetsAgree'
BY DEF SetsAgree, SameSets, Here

LEMMA WireStep ==
    ASSUME NhdpTypeOK, WireOK, net' = net,
           \A l \in net.radio : \/ wire'[l] \in {wire[l], NoHello}
                                \/ l[1] \in Here /\ wire'[l] = Hello(l[1])
    PROVE  WireOK'
BY HelloFits DEF WireOK

LEMMA FaultTypes ==
    ASSUME faults \in Nat, Fault \/ UNCHANGED faults
    PROVE  faults' \in Nat
BY DEF Fault

LEMMA StartChoosingStep ==
    ASSUME NhdpInv, net' = net, NEW n \in Here, StartChoosing(n)
    PROVE  NhdpInv'
<1> USE DEF NhdpInv, StartChoosing
<1>1. Here' = Here
  BY DEF Here
<1>2. NhdpTypeOK'
  BY <1>1 DEF NhdpTypeOK, HelloMsg
<1>3. SetsAgree' /\ WireOK'
  BY SameSetsAgree DEF SameSets, WireOK
<1> QED BY <1>2, <1>3

LEMMA ChoicesInSym ==
    ASSUME NEW two, NEW links, NEW sym, NEW ns,
           NEW S \in Choices(two, links, sym, ns)
    PROVE  S \subseteq sym
BY DEF Choices, Candidates, Bottlenecks

LEMMA ChooseStep ==
    ASSUME NhdpInv, net' = net, NEW n \in Here, Choose(n),
           task' \in [Here -> {"periodic", "event", "gone"}],
           Fault \/ UNCHANGED faults
    PROVE  NhdpInv'
<1> USE DEF NhdpInv
<1>1. Here' = Here
  BY DEF Here
<1>2. PICK S \in SUBSET Here : mpr' = [mpr EXCEPT ![n] = S]
  <2>1. nsym[n] \subseteq Here /\ nset[n] \subseteq Here
    BY DEF NhdpTypeOK
  <2> QED BY <2>1, ChoicesInSym DEF Choose
<1>3. /\ choosing' = choosing \ {n} /\ torn' = torn \ {n}
      /\ SameSets /\ UNCHANGED wire
  BY DEF Choose, SameSets
<1>4. mpr' \in [Here -> SUBSET Here] /\ faults' \in Nat
  BY <1>2, FaultTypes DEF NhdpTypeOK
<1>5. NhdpTypeOK'
  BY <1>1, <1>3, <1>4 DEF NhdpTypeOK, HelloMsg, SameSets
<1>6. SetsAgree' /\ WireOK'
  BY <1>3, SameSetsAgree DEF WireOK
<1> QED BY <1>5, <1>6

LEMMA ChooseSteps ==
    ASSUME NhdpInv, net' = net, NEW n \in Here,
           ChooseAgain(n) \/ ChooseLastTime(n)
    PROVE  NhdpInv'
<1>1. task' \in [Here -> {"periodic", "event", "gone"}]
  BY DEF NhdpInv, NhdpTypeOK, ChooseAgain, ChooseLastTime
<1> QED BY <1>1, ChooseStep DEF ChooseAgain, ChooseLastTime

LEMMA SendHelloStep ==
    ASSUME NhdpInv, net' = net, NEW n \in Here, SendHello(n)
    PROVE  NhdpInv'
<1> USE DEF NhdpInv
<1>1. Here' = Here /\ HelloMsg' = HelloMsg
  BY DEF Here, HelloMsg
<1>2. /\ wire' = [l \in net.radio |-> IF l[1] = n THEN Hello(n) ELSE wire[l]]
      /\ SameSets /\ UNCHANGED <<mpr, task, choosing, torn, faults>>
  BY DEF SendHello, SameSets
<1>3. Hello(n) \in HelloMsg
  BY HelloFits
<1>4. wire' \in [net.radio -> HelloMsg \cup {NoHello}]
  BY <1>2, <1>3 DEF NhdpTypeOK
<1>5. NhdpTypeOK'
  BY <1>1, <1>2, <1>4 DEF NhdpTypeOK, SameSets
<1>6. SetsAgree'
  BY <1>2, SameSetsAgree
<1>7. WireOK'
  BY <1>2, WireStep
<1> QED BY <1>5, <1>6, <1>7

LEMMA LoseHelloStep ==
    ASSUME NhdpInv, net' = net, NEW l \in net.radio, LoseHello(l)
    PROVE  NhdpInv'
<1> USE DEF NhdpInv
<1>1. Here' = Here /\ HelloMsg' = HelloMsg
  BY DEF Here, HelloMsg
<1>2. /\ wire' = [wire EXCEPT ![l] = NoHello] /\ Fault
      /\ SameSets /\ UNCHANGED <<mpr, task, choosing, torn>>
  BY DEF LoseHello, SameSets
<1>3. wire' \in [net.radio -> HelloMsg \cup {NoHello}] /\ faults' \in Nat
  BY <1>2, FaultTypes DEF NhdpTypeOK
<1>4. NhdpTypeOK'
  BY <1>1, <1>2, <1>3 DEF NhdpTypeOK, SameSets
<1>5. SetsAgree'
  BY <1>2, SameSetsAgree
<1>6. WireOK'
  <2>1. \A k \in net.radio : wire'[k] \in {wire[k], NoHello}
    BY <1>2 DEF NhdpTypeOK
  <2> QED BY <2>1, WireStep
<1> QED BY <1>4, <1>5, <1>6

LEMMA LinkExpiresStep ==
    ASSUME NhdpInv, net' = net, NEW n \in Here, NEW m \in Here, LinkExpires(n, m)
    PROVE  NhdpInv'
<1> USE DEF NhdpInv
<1>1. Here' = Here /\ HelloMsg' = HelloMsg
  BY DEF Here, HelloMsg
<1>2. /\ Fault /\ link[n][m] \in {"sym", "heard"}
      /\ link' = [link EXCEPT ![n][m] = IF @ = "sym" THEN "heard" ELSE "lost"]
      /\ UNCHANGED <<selector, nset, nsym, mpr, n2, task, choosing, torn, wire>>
  BY DEF LinkExpires
<1>3. link \in [Here -> [Here -> Status]]
  BY DEF NhdpTypeOK
<1>4. link' \in [Here -> [Here -> Status]] /\ faults' \in Nat
  BY <1>2, <1>3, FaultTypes DEF NhdpTypeOK, Status
<1>5. NhdpTypeOK'
  BY <1>1, <1>2, <1>4 DEF NhdpTypeOK
<1>6. /\ \A x \in Here \ {n} : link'[x] = link[x]
      /\ \A x \in Here \ {m} : link'[n][x] = link[n][x]
      /\ link'[n][m] \in {"heard", "lost"}
  BY <1>2, <1>3
<1>7. NodeAgrees(n, link'[n], selector'[n], nset'[n], nsym'[n], n2'[n])
  <2>1. NodeAgrees(n, link[n], selector[n], nset[n], nsym[n], n2[n])
    BY AgreeIsNodes
  <2> QED BY <1>2, <1>6, <2>1 DEF NodeAgrees
<1>8. SetsAgree'
  BY <1>2, <1>6, <1>7, NodeStep
<1>9. WireOK'
  BY <1>2, WireStep
<1> QED BY <1>5, <1>8, <1>9

LEMMA CleanupStep ==
    ASSUME NhdpInv, net' = net, NEW n \in Here, NEW two \in SUBSET n2[n],
           NEW links \in SUBSET {m \in Here : link[n][m] = "lost"},
           Cleanup(n, links, two)
    PROVE  NhdpInv'
<1> USE DEF NhdpInv
<1>1. Here' = Here /\ HelloMsg' = HelloMsg
  BY DEF Here, HelloMsg
<1> DEFINE ln == [m \in Here |-> IF m \in links THEN "none" ELSE link[n][m]]
<1>2. /\ Fault
      /\ link' = [link EXCEPT ![n] = ln]
      /\ selector' = [selector EXCEPT ![n] = @ \ links]
      /\ n2' = [n2 EXCEPT ![n] = @ \ two]
      /\ UNCHANGED <<nset, nsym, mpr, task, choosing, torn, wire>>
  BY DEF Cleanup
<1>3. /\ link \in [Here -> [Here -> Status]] /\ selector \in [Here -> SUBSET Here]
      /\ n2 \in [Here -> SUBSET (Here \X Here)]
  BY DEF NhdpTypeOK
<1>4. ln \in [Here -> Status]
  BY <1>3 DEF Status
<1>5. /\ link' \in [Here -> [Here -> Status]] /\ selector' \in [Here -> SUBSET Here]
      /\ n2' \in [Here -> SUBSET (Here \X Here)] /\ faults' \in Nat
  BY <1>2, <1>3, <1>4, FaultTypes DEF NhdpTypeOK
<1>6. NhdpTypeOK'
  BY <1>1, <1>2, <1>5 DEF NhdpTypeOK
<1>7. NodeAgrees(n, ln, selector[n] \ links, nset[n], nsym[n], n2[n] \ two)
  <2>1. NodeAgrees(n, link[n], selector[n], nset[n], nsym[n], n2[n])
    BY AgreeIsNodes
  <2> QED BY <2>1 DEF NodeAgrees
<1>8. SetsAgree'
  <2>1. /\ link'[n] = ln /\ selector'[n] = selector[n] \ links
        /\ n2'[n] = n2[n] \ two
    BY <1>2, <1>3
  <2> HIDE DEF ln
  <2> QED BY <1>2, <1>3, <1>7, <2>1, NodeStep
<1>9. WireOK'
  BY <1>2, WireStep
<1> QED BY <1>6, <1>8, <1>9

LEMMA FlushStep ==
    ASSUME NhdpInv, net' = net, NEW n \in Here, Flush(n)
    PROVE  NhdpInv'
<1> USE DEF NhdpInv
<1>1. Here' = Here /\ HelloMsg' = HelloMsg
  BY DEF Here, HelloMsg
<1> DEFINE ln == [m \in Here |-> "none"]
<1>2. /\ Fault
      /\ link' = [link EXCEPT ![n] = ln]
      /\ selector' = [selector EXCEPT ![n] = {}] /\ nset' = [nset EXCEPT ![n] = {}]
      /\ nsym' = [nsym EXCEPT ![n] = {}] /\ mpr' = [mpr EXCEPT ![n] = {}]
      /\ n2' = [n2 EXCEPT ![n] = {}] /\ torn' = torn \cup ({n} \cap choosing)
      /\ UNCHANGED <<task, choosing, wire>>
  BY DEF Flush
<1>3. ln \in [Here -> Status]
  BY DEF Status
<1>4. NhdpTypeOK'
  BY <1>1, <1>2, <1>3, FaultTypes DEF NhdpTypeOK
<1>5. NodeAgrees(n, ln, {}, {}, {}, {})
  BY DEF NodeAgrees
<1>6. SetsAgree'
  <2>1. /\ link'[n] = ln /\ selector'[n] = {} /\ nset'[n] = {} /\ nsym'[n] = {}
        /\ n2'[n] = {}
    BY <1>2 DEF NhdpTypeOK
  <2>2. \A x \in Here \ {n} :
              /\ link'[x] = link[x] /\ selector'[x] = selector[x]
              /\ nset'[x] = nset[x] /\ nsym'[x] = nsym[x] /\ n2'[x] = n2[x]
    BY <1>2 DEF NhdpTypeOK
  <2> HIDE DEF ln
  <2> QED BY <1>5, <2>1, <2>2, NodeStep
<1>7. WireOK'
  BY <1>2, WireStep
<1> QED BY <1>4, <1>6, <1>7

LEMMA HandleHelloStep ==
    ASSUME NhdpInv, net' = net, NEW l \in net.radio, HandleHello(l[1], l[2])
    PROVE  NhdpInv'
<1> USE DEF NhdpInv
<1> DEFINE m == l[1]
           n == l[2]
           h == wire[<<m, n>>]
           old == link[n][m]
           now == StatusAfter(old, h.st[n])
           ended == old = "sym" /\ now # "sym"
           began == old # "sym" /\ now = "sym"
           kept == IF ended THEN WithoutTwoHop(n2[n], m) ELSE n2[n]
           two == kept \cup IF now = "sym" THEN {m} \X (Claimed(h) \ {m, n}) ELSE {}
           links == [link[n] EXCEPT ![m] = now]
           sym == (nsym[n] \ IF ended THEN {m} ELSE {}) \cup IF began THEN {m} ELSE {}
           ns == nset[n] \cup {m}
           sel == SelectorAfter(selector[n], m, h, n, now)
           reselect == ns # nset[n] \/ ended \/ began \/ ~(two \subseteq n2[n])
<1>1. Here' = Here /\ HelloMsg' = HelloMsg
  BY DEF Here, HelloMsg
<1>2. m \in Here /\ n \in Here /\ m # n /\ <<m, n>> = l
  BY ScenarioTypes
<1>3. /\ h # NoHello
      /\ wire' = [wire EXCEPT ![<<m, n>>] = NoHello]
      /\ link' = [link EXCEPT ![n] = links] /\ nset' = [nset EXCEPT ![n] = ns]
      /\ nsym' = [nsym EXCEPT ![n] = sym] /\ n2' = [n2 EXCEPT ![n] = two]
      /\ selector' = [selector EXCEPT ![n] = sel]
      /\ IF reselect /\ task[n] = "event"
         THEN \E S \in Choices(two, links, sym, ns) : mpr' = [mpr EXCEPT ![n] = S]
         ELSE mpr' = [mpr EXCEPT ![n] = IF m \in nsym[n] THEN @ ELSE @ \ {m}]
      /\ torn' = torn \cup ({n} \cap choosing)
      /\ UNCHANGED <<task, choosing, faults>>
  BY DEF HandleHello
<1> HIDE DEF m, n
<1>4. /\ link \in [Here -> [Here -> Status]]
      /\ selector \in [Here -> SUBSET Here] /\ nset \in [Here -> SUBSET Here]
      /\ nsym \in [Here -> SUBSET Here] /\ mpr \in [Here -> SUBSET Here]
      /\ n2 \in [Here -> SUBSET (Here \X Here)]
      /\ wire \in [net.radio -> HelloMsg \cup {NoHello}]
  BY DEF NhdpTypeOK
<1>5. h \in HelloMsg /\ \A x \in h.mpr : h.st[x] = "sym"
  BY <1>2, <1>3, <1>4 DEF WireOK
<1>6. h.st \in [Here -> Status] /\ h.other \subseteq Here
  BY <1>5 DEF HelloMsg
<1> HIDE DEF h
<1>7. now \in {"sym", "heard"} /\ (h.st[n] = "sym" => now = "sym")
  BY DEF StatusAfter
<1>8. \A t \in kept : t \in n2[n] /\ (ended => t[1] # m)
  BY DEF WithoutTwoHop
<1>9. Claimed(h) \subseteq Here
  BY <1>6 DEF Claimed
<1> HIDE DEF now, kept
<1>10. /\ links \in [Here -> Status] /\ ns \subseteq Here /\ sym \subseteq Here
       /\ two \subseteq Here \X Here
  BY <1>2, <1>4, <1>7, <1>8, <1>9 DEF Status
<1>11. sel \subseteq Here /\ sel \subseteq selector[n] \cup {m}
       /\ (m \in sel => now = "sym")
  BY <1>2, <1>4, <1>5, <1>7 DEF SelectorAfter
<1>12. /\ links[m] = now /\ \A x \in Here \ {m} : links[x] = link[n][x]
       /\ \A x \in Here \ {m} : x \in sym <=> x \in nsym[n]
       /\ now = "sym" => m \in sym
       /\ \A t \in two : \/ t \in n2[n] /\ (ended => t[1] # m)
                         \/ t[1] = m /\ now = "sym"
  <2>1. NodeAgrees(n, link[n], selector[n], nset[n], nsym[n], n2[n])
    BY <1>2, AgreeIsNodes
  <2>2. old = "sym" => m \in nsym[n]
    BY <1>2, <2>1 DEF NodeAgrees
  <2> QED BY <1>2, <1>4, <1>8, <2>2
<1>13. NodeAgrees(n, links, sel, ns, sym, two)
  <2>1. NodeAgrees(n, link[n], selector[n], nset[n], nsym[n], n2[n])
    BY <1>2, AgreeIsNodes
  <2>2. m \in nsym[n] /\ ~ended => m \in sym
    OBVIOUS
  <2> HIDE DEF links, sym, two, sel
  <2>3. \A x \in Here : links[x] # "none" => x \in ns
    BY <1>12, <2>1 DEF NodeAgrees
  <2>4. \A x \in Here : links[x] = "sym" => x \in sym
    BY <1>12, <2>1 DEF NodeAgrees
  <2>5. n \notin ns
    BY <1>2, <2>1 DEF NodeAgrees
  <2>6. \A x, y \in Here : <<x, y>> \in two => x \in sym
    <3> SUFFICES ASSUME NEW x \in Here, NEW y \in Here, <<x, y>> \in two
                 PROVE  x \in sym
      OBVIOUS
    <3>1. CASE <<x, y>> \in n2[n] /\ (ended => x # m)
      BY <1>12, <2>1, <2>2, <3>1 DEF NodeAgrees
    <3>2. CASE x = m /\ now = "sym"
      BY <1>12, <3>2
    <3> QED BY <1>12, <3>1, <3>2
  <2>7. \A x \in Here : x \in sel => x \in sym /\ links[x] # "none"
    BY <1>7, <1>11, <1>12, <2>1 DEF NodeAgrees
  <2> QED BY <2>3, <2>4, <2>5, <2>6, <2>7 DEF NodeAgrees
<1>14. mpr' \in [Here -> SUBSET Here] /\ torn' \subseteq choosing
  <2>1. \A S \in Choices(two, links, sym, ns) : S \subseteq Here
    BY <1>10, ChoicesInSym
  <2> HIDE DEF two, links, sym, ns, reselect
  <2>2. mpr' \in [Here -> SUBSET Here]
    BY <1>2, <1>3, <1>4, <2>1
  <2>3. torn' \subseteq choosing
    BY <1>3 DEF NhdpTypeOK
  <2> QED BY <2>2, <2>3
<1> HIDE DEF links, ns, sym, two, sel
<1>15. NhdpTypeOK'
  <2>1. /\ link' \in [Here -> [Here -> Status]]
        /\ selector' \in [Here -> SUBSET Here] /\ nset' \in [Here -> SUBSET Here]
        /\ nsym' \in [Here -> SUBSET Here]
        /\ n2' \in [Here -> SUBSET (Here \X Here)]
        /\ wire' \in [net.radio -> HelloMsg \cup {NoHello}]
    BY <1>2, <1>3, <1>4, <1>10, <1>11
  <2> QED BY <1>1, <1>3, <1>14, <2>1 DEF NhdpTypeOK
<1>16. SetsAgree'
  <2>1. /\ link'[n] = links /\ selector'[n] = sel /\ nset'[n] = ns
        /\ nsym'[n] = sym /\ n2'[n] = two
    BY <1>2, <1>3, <1>4
  <2>2. \A x \in Here \ {n} :
              /\ link'[x] = link[x] /\ selector'[x] = selector[x]
              /\ nset'[x] = nset[x] /\ nsym'[x] = nsym[x] /\ n2'[x] = n2[x]
    BY <1>2, <1>3, <1>4
  <2> QED BY <1>2, <1>13, <2>1, <2>2, NodeStep
<1>17. WireOK'
  <2>1. \A k \in net.radio : wire'[k] \in {wire[k], NoHello}
    BY <1>3, <1>4
  <2> QED BY <2>1, WireStep
<1> QED BY <1>15, <1>16, <1>17

LEMMA NhdpNextInv == NhdpInv /\ [Next]_vars => NhdpInv'
<1> SUFFICES ASSUME NhdpInv, [Next]_vars PROVE NhdpInv'
  OBVIOUS
<1>1. ASSUME net' = net, UNCHANGED nhdpVars, faults' \in Nat PROVE NhdpInv'
  <2>1. Here' = Here /\ HelloMsg' = HelloMsg /\ SameSets
        /\ UNCHANGED <<mpr, task, choosing, torn, wire>>
    BY <1>1 DEF Here, HelloMsg, nhdpVars, SameSets
  <2>2. NhdpTypeOK'
    BY <1>1, <2>1 DEF NhdpInv, NhdpTypeOK, SameSets
  <2>3. SetsAgree' /\ WireOK'
    BY <1>1, <2>1, SameSetsAgree, WireStep DEF NhdpInv
  <2> QED BY <1>1, <2>2, <2>3 DEF NhdpInv
<1>2. CASE UNCHANGED vars
  BY <1>1, <1>2 DEF vars, NhdpInv, NhdpTypeOK
<1>3. CASE net' = net /\ PacketNext /\ UNCHANGED nhdpVars
  <2>1. Fault \/ UNCHANGED faults
    BY <1>3 DEF PacketNext, LoseFrame
  <2>2. faults' \in Nat
    BY <2>1, FaultTypes DEF NhdpInv, NhdpTypeOK
  <2> QED BY <1>1, <1>3, <2>2
<1>4. CASE net' = net /\ NhdpNext
  <2>1. ASSUME NEW n \in Here,
               \/ StartChoosing(n) \/ ChooseAgain(n) \/ ChooseLastTime(n)
               \/ SendHello(n) \/ Flush(n)
        PROVE  NhdpInv'
    BY <1>4, <2>1, StartChoosingStep, ChooseSteps, SendHelloStep, FlushStep
  <2>2. ASSUME NEW n \in Here, NEW two \in SUBSET n2[n],
               NEW links \in SUBSET {m \in Here : link[n][m] = "lost"},
               Cleanup(n, links, two)
        PROVE  NhdpInv'
    BY <1>4, <2>2, CleanupStep
  <2>3. ASSUME NEW l \in net.radio, HandleHello(l[1], l[2]) \/ LoseHello(l)
        PROVE  NhdpInv'
    BY <1>4, <2>3, HandleHelloStep, LoseHelloStep
  <2>4. ASSUME NEW n \in Here, NEW m \in Here, LinkExpires(n, m)
        PROVE  NhdpInv'
    BY <1>4, <2>4, LinkExpiresStep
  <2> QED BY <1>4, <2>1, <2>2, <2>3, <2>4 DEF NhdpNext
<1> QED BY <1>2, <1>3, <1>4 DEF Next

\* No step leads out of the invariant of the neighbourhood.
THEOREM NhdpInvariance == Spec => []NhdpInv
<1>1. Init => NhdpInv
  BY NhdpInitInv DEF Init
<1> QED BY <1>1, NhdpNextInv, PTL DEF Spec

\* nhdp_handle_hello, nhdp_cleanup_expired, cli_flush_hashes: whatever comes
\* late, is lost, expires or is flushed, the sets of a node agree.
THEOREM SetsAlwaysAgree == Spec => []SetsAgree
<1>1. NhdpInv => SetsAgree
  BY DEF NhdpInv
<1> QED BY <1>1, NhdpInvariance, PTL

-----------------------------------------------------------------------------
(* Multipoint relays. *)

LEMMA OneMore ==
    ASSUME NEW T, NEW y, IsFiniteSet(T), y \notin T
    PROVE  IsFiniteSet(T \cup {y}) /\ Cardinality(T \cup {y}) = Cardinality(T) + 1
BY FS_AddElement

LEMMA ThreeElements ==
    ASSUME NEW S, IsFiniteSet(S), NEW x \in S, NEW y \in S, NEW z \in S,
           x # y, y # z, x # z
    PROVE  Cardinality(S) > 2
<1> DEFINE A == {x}
           B == {x, y}
<1>1. IsFiniteSet(A) /\ Cardinality(A) = 1 /\ y \notin A
  BY FS_Singleton
<1>2. IsFiniteSet(B) /\ Cardinality(B) = 2 /\ z \notin B
  <2>1. B = A \cup {y} /\ z \notin B
    OBVIOUS
  <2> HIDE DEF A, B
  <2> QED BY <1>1, <2>1, OneMore
<1>3. IsFiniteSet({x, y, z}) /\ Cardinality({x, y, z}) = 3
  <2>1. {x, y, z} = B \cup {z}
    OBVIOUS
  <2> HIDE DEF B
  <2> QED BY <1>2, <2>1, OneMore
<1>4. Cardinality({x, y, z}) <= Cardinality(S) /\ Cardinality(S) \in Nat
  BY FS_Subset, FS_CardinalityType
<1> QED BY <1>3, <1>4

\* Of two candidates, the choice covers what either of them reaches.
LEMMA ChoiceCovers ==
    ASSUME NEW two, NEW links, NEW sym, NEW ns,
           NEW S \in Choices(two, links, sym, ns),
           IsFiniteSet(Candidates(two, links, sym, ns)),
           ~(Cardinality(Candidates(two, links, sym, ns)) > 2),
           NEW t \in two, t = <<t[1], t[2]>>, t[2] \notin ns,
           t[1] \in Candidates(two, links, sym, ns)
    PROVE  \E c \in S : <<c, t[2]>> \in two
<1> DEFINE cands == Candidates(two, links, sym, ns)
           forced == Bottlenecks(two, cands, ns)
<1>1. S = forced \/ \E c \in cands \ forced : S = forced \cup {c}
  BY DEF Choices
<1>2. cands \subseteq forced => S = forced
  BY DEF Choices
<1>3. ~(cands \subseteq forced) => \E c \in cands \ forced : S = forced \cup {c}
  BY DEF Choices
<1> HIDE DEF cands
<1>4. t[1] \in cands
  BY DEF cands
<1>5. IsFiniteSet(cands) /\ ~(Cardinality(cands) > 2)
  BY DEF cands
<1>6. CASE t[1] \in S
  BY <1>6
<1>7. CASE t[1] \notin S
  <2>1. t[1] \notin forced
    BY <1>1, <1>7
  <2>2. PICK c \in cands \ forced : S = forced \cup {c}
    BY <1>3, <1>4, <2>1
  <2>3. {e \in cands : <<e, t[2]>> \in two} # {t[1]}
    BY <1>4, <2>1 DEF Bottlenecks
  <2>4. PICK e \in cands : <<e, t[2]>> \in two /\ e # t[1]
    BY <1>4, <2>3
  <2>5. e = c
    BY <1>4, <1>5, <1>7, <2>2, <2>4, ThreeElements
  <2> QED BY <2>2, <2>4, <2>5
<1> QED BY <1>6, <1>7

LEMMA ChoiceLeavesCovered ==
    ASSUME NhdpInv', net' = net, NEW n \in Here,
           mpr'[n] \in Choices(n2'[n], link'[n], nsym'[n], nset'[n])
    PROVE  WellCovered(n)'
<1> DEFINE cands == Candidates(n2'[n], link'[n], nsym'[n], nset'[n])
<1>1. SUFFICES ASSUME ~(Cardinality(cands) > 2), NEW x \in Coverable(n)'
               PROVE  x \in Covered(n)'
  BY DEF WellCovered, Relays
<1>2. nsym'[n] \subseteq Here /\ n2'[n] \subseteq Here \X Here /\ net \in Scenarios
  BY DEF NhdpInv, NhdpTypeOK, Here
<1>3. IsFiniteSet(cands)
  <2>1. cands \subseteq Here
    BY <1>2 DEF Candidates
  <2> QED BY <1>2, <2>1, ScenarioTypes, FS_Subset
<1>4. PICK t \in n2'[n] : t[2] = x /\ x \notin nset'[n] /\ t[1] \in cands
  BY DEF Coverable, Strict, Relays
<1>5. t = <<t[1], t[2]>>
  BY <1>2
<1> HIDE DEF cands
<1>6. \E c \in mpr'[n] : <<c, t[2]>> \in n2'[n]
  BY <1>1, <1>3, <1>4, <1>5, ChoiceCovers DEF cands
<1>7. PICK c \in mpr'[n] : <<c, x>> \in n2'[n]
  BY <1>4, <1>6
<1>8. <<c, x>> \in {u \in Strict(n, n2[n])' : u[1] \in mpr'[n]}
  BY <1>4, <1>7 DEF Strict
<1> QED BY <1>8 DEF Covered

\* A node that chooses on events chooses after every HELLO that changes its sets.
LEMMA HelloReselects ==
    ASSUME NhdpInv, net' = net, NEW l \in net.radio, HandleHello(l[1], l[2]),
           task[l[2]] = "event",
           \/ nset'[l[2]] # nset[l[2]] \/ nsym'[l[2]] # nsym[l[2]]
           \/ ~(n2'[l[2]] \subseteq n2[l[2]])
    PROVE  mpr'[l[2]] \in Choices(n2'[l[2]], link'[l[2]], nsym'[l[2]], nset'[l[2]])
<1> DEFINE m == l[1]
           n == l[2]
           h == wire[<<m, n>>]
           old == link[n][m]
           now == StatusAfter(old, h.st[n])
           ended == old = "sym" /\ now # "sym"
           began == old # "sym" /\ now = "sym"
           kept == IF ended THEN WithoutTwoHop(n2[n], m) ELSE n2[n]
           two == kept \cup IF now = "sym" THEN {m} \X (Claimed(h) \ {m, n}) ELSE {}
           links == [link[n] EXCEPT ![m] = now]
           sym == (nsym[n] \ IF ended THEN {m} ELSE {}) \cup IF began THEN {m} ELSE {}
           ns == nset[n] \cup {m}
           reselect == ns # nset[n] \/ ended \/ began \/ ~(two \subseteq n2[n])
<1>1. /\ link' = [link EXCEPT ![n] = links] /\ nset' = [nset EXCEPT ![n] = ns]
      /\ nsym' = [nsym EXCEPT ![n] = sym] /\ n2' = [n2 EXCEPT ![n] = two]
      /\ reselect /\ task[n] = "event" =>
            \E S \in Choices(two, links, sym, ns) : mpr' = [mpr EXCEPT ![n] = S]
  BY DEF HandleHello
<1>2. n \in Here /\ task[n] = "event"
  BY ScenarioTypes DEF NhdpInv
<1>3. ~ended /\ ~began => sym = nsym[n]
  OBVIOUS
<1> HIDE DEF m, n, ended, began, two, links, sym, ns
<1>4. link'[n] = links /\ nset'[n] = ns /\ nsym'[n] = sym /\ n2'[n] = two
  BY <1>1, <1>2 DEF NhdpInv, NhdpTypeOK
<1>5. reselect
  BY <1>3, <1>4 DEF n
<1>6. PICK S \in Choices(two, links, sym, ns) : mpr' = [mpr EXCEPT ![n] = S]
  BY <1>1, <1>2, <1>5
<1>7. mpr'[n] = S
  BY <1>2, <1>6 DEF NhdpInv, NhdpTypeOK
<1> QED BY <1>4, <1>6, <1>7 DEF n

LEMMA ChoosingCovers ==
    ASSUME NhdpInv, NhdpInv', net' = net, NEW n \in Here, Choose(n), n \notin torn
    PROVE  WellCovered(n)'
<1>1. PICK S \in Choices(n2[n], link[n], nsym[n], nset[n]) :
             mpr' = [mpr EXCEPT ![n] = S]
  BY DEF Choose
<1>2. mpr'[n] = S /\ UNCHANGED <<n2, link, nsym, nset>>
  BY <1>1 DEF Choose, NhdpInv, NhdpTypeOK
<1> QED BY <1>1, <1>2, ChoiceLeavesCovered

\* The step that ends an undisturbed choice, or that changes the sets of a node
\* that chooses on events.
Chosen(n) ==
    \/ n \in choosing \ (torn \cup choosing')
    \/ task[n] = "event" /\ (nset'[n] # nset[n] \/ nsym'[n] # nsym[n] \/ ~(n2'[n] \subseteq n2[n]))

LEMMA ChosenWellCovers ==
    ASSUME NhdpInv, NhdpInv', [Next]_vars, NEW n \in Here, Chosen(n)
    PROVE  WellCovered(n)'
<1>1. ~(UNCHANGED <<choosing, nset, nsym>> /\ n2'[n] \subseteq n2[n])
  BY DEF Chosen
<1>2. net' = net /\ ~UNCHANGED nhdpVars
  BY <1>1 DEF Next, vars, nhdpVars
<1>3. NhdpNext
  BY <1>2 DEF Next, vars, nhdpVars
<1>4. ASSUME NEW x \in Here, StartChoosing(x) \/ SendHello(x) PROVE FALSE
  BY <1>1, <1>4 DEF StartChoosing, SendHello, Chosen
<1>5. ASSUME NEW x \in Here, ChooseAgain(x) \/ ChooseLastTime(x) PROVE WellCovered(n)'
  <2>1. Choose(x)
    BY <1>5 DEF ChooseAgain, ChooseLastTime
  <2>2. choosing' = choosing \ {x} /\ UNCHANGED <<nset, nsym, n2>>
    BY <2>1 DEF Choose
  <2>3. x = n /\ n \notin torn
    BY <2>2 DEF Chosen
  <2> QED BY <1>2, <2>1, <2>3, ChoosingCovers
<1>6. ASSUME NEW x \in Here, Flush(x) PROVE WellCovered(n)'
  <2>1. /\ UNCHANGED choosing /\ nset' = [nset EXCEPT ![x] = {}]
        /\ nsym' = [nsym EXCEPT ![x] = {}] /\ n2' = [n2 EXCEPT ![x] = {}]
    BY <1>6 DEF Flush
  <2>2. x = n
    BY <1>1, <2>1 DEF Chosen, NhdpInv, NhdpTypeOK
  <2>3. n2'[n] = {}
    BY <2>1, <2>2 DEF NhdpInv, NhdpTypeOK
  <2> QED BY <2>3 DEF WellCovered, Coverable, Strict
<1>7. ASSUME NEW x \in Here, NEW two \in SUBSET n2[x],
             NEW links \in SUBSET {m \in Here : link[x][m] = "lost"},
             Cleanup(x, links, two)
      PROVE  FALSE
  BY <1>1, <1>7 DEF Cleanup, NhdpInv, NhdpTypeOK
<1>8. ASSUME NEW l \in net.radio, HandleHello(l[1], l[2]) PROVE WellCovered(n)'
  <2>1. l[2] \in Here /\ UNCHANGED choosing
    BY <1>8, ScenarioTypes DEF HandleHello, NhdpInv
  <2>2. n = l[2]
    <3>1. \A x \in Here \ {l[2]} : nset'[x] = nset[x] /\ nsym'[x] = nsym[x] /\ n2'[x] = n2[x]
      <4>1. PICK N, Y, T : /\ nset' = [nset EXCEPT ![l[2]] = N]
                           /\ nsym' = [nsym EXCEPT ![l[2]] = Y]
                           /\ n2' = [n2 EXCEPT ![l[2]] = T]
        BY <1>8, Zenon DEF HandleHello
      <4> QED BY <4>1 DEF NhdpInv, NhdpTypeOK
    <3> QED BY <2>1, <3>1 DEF Chosen
  <2>3. mpr'[n] \in Choices(n2'[n], link'[n], nsym'[n], nset'[n])
    BY <1>2, <1>8, <2>1, <2>2, HelloReselects DEF Chosen
  <2> QED BY <1>2, <2>3, ChoiceLeavesCovered
<1>9. ASSUME NEW l \in net.radio, LoseHello(l) PROVE FALSE
  BY <1>1, <1>9 DEF LoseHello
<1>10. ASSUME NEW x \in Here, NEW m \in Here, LinkExpires(x, m) PROVE FALSE
  BY <1>1, <1>10 DEF LinkExpires
<1> QED BY <1>3, <1>4, <1>5, <1>6, <1>7, <1>8, <1>9, <1>10 DEF NhdpNext

\* _reselect_mprs: for any neighbourhood, a 2-hop neighbour that a candidate
\* reaches stays uncovered only if there are three candidates or more, or if a
\* HELLO or a flush came into the choice of the timer thread.
THEOREM TwoCandidatesCover == Spec => UncoveredNeedsThree
<1>1. NhdpInv /\ NhdpInv' /\ [Next]_vars =>
        [\A n \in Here : Chosen(n) => WellCovered(n)']_vars
  BY ChosenWellCovers
<1>2. NhdpInv /\ [Next]_vars => NhdpInv'
  BY NhdpNextInv
<1>3. Init => NhdpInv
  BY NhdpInitInv DEF Init
<1> QED BY <1>1, <1>2, <1>3, PTL DEF Spec, UncoveredNeedsThree, Chosen

-----------------------------------------------------------------------------
(* Packets: what is true of a node's log of numbers, its threads and its   *)
(* trap, as predicates on their values.                                    *)

GoodFrame == {f \in Frame : PacketOf(f) \in Packet /\ f.to = Destination(PacketOf(f))}
Job == {Idle} \cup [step : {"add", "pass"}, f : GoodFrame]
              \cup [step : {"trap"}, f : GoodFrame, fwd : BOOLEAN]
Entry == [f : GoodFrame, fwd : BOOLEAN, cnt : Nat]

PacketTypes ==
    /\ net \in Scenarios
    /\ \A n \in Here : seq[n] \in 0..Len(net.plan[n])
    /\ seq \in [Here -> Nat]
    /\ DOMAIN air \subseteq GoodFrame
    /\ log \in [Here -> [Here -> Seq(Seq(Nat))]]
    /\ job \in [Here -> [net.threads -> Job]]
    /\ trap \in [Here -> Seq(Entry)]
    /\ taken \in [Here -> Seq(Packet)]
    /\ heard \in [Here -> [Packet -> Nat]]
    /\ sent \in [Here -> SUBSET Packet]

\* The packets taken after the i-th and before the j-th that come from s.
Between(tk, i, j, s) == {k \in i + 1..j - 1 : tk[k][1] = s}
Since(tk, i) == Cardinality(Between(tk, i, Len(tk) + 1, tk[i][1]))

\* What a packet that was taken finds in the only ring of its source.
InRing(ring, tk, i) ==
    \/ Since(tk, i) >= LogSize
    \/ Since(tk, i) < Len(ring) /\ ring[Len(ring) - Since(tk, i)] = tk[i][2]

\* As long as the source s has one ring, the ring has the last packets taken
\* from s in their order, and who was taken twice has LogSize others between.
RingsOK(rings, tk, s) ==
    /\ Len(rings) = 0 => \A i \in DOMAIN tk : tk[i][1] # s
    /\ Len(rings) = 1 => /\ Len(rings[1]) <= LogSize
                         /\ \A i \in DOMAIN tk : tk[i][1] = s => InRing(rings[1], tk, i)
                         /\ \A i, j \in DOMAIN tk :
                               i < j /\ tk[i] = tk[j] /\ tk[i][1] = s =>
                                   Cardinality(Between(tk, i, j, s)) >= LogSize

\* The threads that have a copy of p at hand.
Handling(jb, p) == {t \in net.threads : jb[t] # Idle /\ PacketOf(jb[t].f) = p}
Packets(tr) == {PacketOf(e.f) : e \in Range(tr)}

\* A copy at hand is heard and not counted yet; no copy is counted twice.
CountsOK(jb, tr, hd) ==
    /\ \A p \in Packet : Cardinality(Handling(jb, p)) <= hd[p]
    /\ \A e \in Range(tr) :
          e.cnt + Cardinality(Handling(jb, PacketOf(e.f))) <= hd[PacketOf(e.f)]

SilentOK(n, jb, tr, tk, hd, st) ==
    net.g \in {3, 14} => \A p \in Range(tk) :
       \/ p \in st \/ p \in Packets(tr) \/ Handling(jb, p) # {}
       \/ Destination(p) = n \/ hd[p] > M

PacketInv ==
    /\ PacketTypes
    /\ \A n, s \in Here : RingsOK(log[n][s], taken[n], s)
    /\ \A n \in Here : CountsOK(job[n], trap[n], heard[n])
    /\ \A n \in Here : SilentOK(n, job[n], trap[n], taken[n], heard[n], sent[n])

-----------------------------------------------------------------------------
(* Frames. *)

LEMMA PlanTypes ==
    ASSUME net \in Scenarios
    PROVE  /\ net.plan \in [Here -> Seq(Here \cup {All})]
           /\ IsFiniteSet(net.threads)
BY GossipAssumption DEF Here

LEMMA PacketIs ==
    ASSUME NEW p \in Packet
    PROVE  /\ p = <<p[1], p[2]>> /\ p[1] \in Here
           /\ p[2] \in 1..Len(net.plan[p[1]])
BY DEF Packet

LEMMA GoodFrameIs ==
    ASSUME NEW f \in GoodFrame
    PROVE  /\ f.src \in Here /\ f.num \in Nat /\ f.ttl \in 0..K
           /\ PacketOf(f) \in Packet /\ PacketOf(f) = <<f.src, f.num>>
           /\ f.to = Destination(PacketOf(f))
BY DEF GoodFrame, Frame, PacketOf

LEMMA SentGood ==
    ASSUME net \in Scenarios, NEW n \in Here, NEW f \in GoodFrame, NEW ttl \in 0..K
    PROVE  DOMAIN Sent(n, f, ttl) \subseteq GoodFrame
<1> SUFFICES ASSUME NEW l \in net.radio
             PROVE  [f EXCEPT !.via = n, !.at = l[2], !.ttl = ttl] \in GoodFrame
  BY DEF Sent, SetToBag
<1>1. l[2] \in Here
  BY ScenarioTypes
<1> DEFINE g == [f EXCEPT !.via = n, !.at = l[2], !.ttl = ttl]
<1>2. f \in Frame /\ PacketOf(f) \in Packet /\ f.to = Destination(PacketOf(f))
  BY DEF GoodFrame
<1>3. g \in Frame /\ g.src = f.src /\ g.num = f.num /\ g.to = f.to
  BY <1>1, <1>2 DEF Frame
<1> HIDE DEF g
<1>4. PacketOf(g) = PacketOf(f)
  BY <1>3 DEF PacketOf
<1>5. g \in GoodFrame
  BY <1>2, <1>3, <1>4 DEF GoodFrame
<1> QED BY <1>5 DEF g

LEMMA AirGrows ==
    ASSUME DOMAIN air \subseteq GoodFrame, NEW B, DOMAIN B \subseteq GoodFrame
    PROVE  DOMAIN (air (+) B) \subseteq GoodFrame
BY DEF (+)

LEMMA AirShrinks ==
    ASSUME DOMAIN air \subseteq GoodFrame, NEW B
    PROVE  DOMAIN (air (-) B) \subseteq GoodFrame
BY DEF (-)

LEMMA SameFrames ==
    ASSUME net' = net
    PROVE  /\ Here' = Here /\ Packet' = Packet /\ GoodFrame' = GoodFrame
           /\ Job' = Job /\ Entry' = Entry
BY DEF Here, Packet, GoodFrame, Frame, PacketOf, Destination, Job, Entry, Idle

-----------------------------------------------------------------------------
(* The numbers that were taken. *)

LEMMA BetweenIsFinite ==
    ASSUME NEW tk, NEW i \in Nat, NEW j \in Nat, NEW s
    PROVE  /\ IsFiniteSet(Between(tk, i, j, s))
           /\ Cardinality(Between(tk, i, j, s)) \in Nat
           /\ j \notin Between(tk, i, j, s)
<1>1. IsFiniteSet(i + 1..j - 1)
  BY FS_Interval
<1>2. Between(tk, i, j, s) \in SUBSET (i + 1..j - 1)
  BY DEF Between
<1> QED BY <1>1, <1>2, FS_Subset, FS_CardinalityType DEF Between

\* One more packet q is taken.
LEMMA BetweenAfter ==
    ASSUME NEW tk \in Seq(Packet), NEW q \in Packet, NEW i \in 1..Len(tk), NEW s
    PROVE  LET tk2 == Append(tk, q) IN
           /\ \A j \in 1..Len(tk) + 1 : Between(tk2, i, j, s) = Between(tk, i, j, s)
           /\ Between(tk2, i, Len(tk) + 2, s)
                 = Between(tk, i, Len(tk) + 1, s)
                   \cup IF q[1] = s THEN {Len(tk) + 1} ELSE {}
<1> DEFINE tk2 == Append(tk, q)
<1>1. /\ Len(tk) \in Nat /\ \A k \in 1..Len(tk) : tk2[k] = tk[k]
      /\ tk2[Len(tk) + 1] = q
  OBVIOUS
<1> HIDE DEF tk2
<1>2. \A j \in 1..Len(tk) + 1 : Between(tk2, i, j, s) = Between(tk, i, j, s)
  BY <1>1 DEF Between
<1>3. Between(tk2, i, Len(tk) + 2, s)
                 = Between(tk, i, Len(tk) + 1, s)
                   \cup IF q[1] = s THEN {Len(tk) + 1} ELSE {}
  BY <1>1 DEF Between
<1> QED BY <1>2, <1>3 DEF tk2

LEMMA SinceAfter ==
    ASSUME NEW tk \in Seq(Packet), NEW q \in Packet, NEW i \in 1..Len(tk)
    PROVE  /\ Since(tk, i) \in Nat
           /\ Since(Append(tk, q), i)
                 = Since(tk, i) + IF q[1] = tk[i][1] THEN 1 ELSE 0
<1> DEFINE tk2 == Append(tk, q)
           B == Between(tk, i, Len(tk) + 1, tk[i][1])
<1>1. /\ Len(tk) \in Nat /\ Len(tk2) = Len(tk) + 1 /\ tk2[i] = tk[i]
      /\ i \in Nat
  OBVIOUS
<1>2. Between(tk2, i, Len(tk) + 2, tk[i][1])
         = B \cup IF q[1] = tk[i][1] THEN {Len(tk) + 1} ELSE {}
  BY BetweenAfter
<1>3. IsFiniteSet(B) /\ Cardinality(B) \in Nat /\ Len(tk) + 1 \notin B
  BY <1>1, BetweenIsFinite
<1>4. Since(tk2, i) = Cardinality(Between(tk2, i, Len(tk) + 2, tk[i][1]))
      /\ Since(tk, i) = Cardinality(B)
  BY <1>1 DEF Since
<1> HIDE DEF tk2, B
<1>5. CASE q[1] = tk[i][1]
  <2>1. Between(tk2, i, Len(tk) + 2, tk[i][1]) = B \cup {Len(tk) + 1}
    BY <1>2, <1>5
  <2>2. Cardinality(B \cup {Len(tk) + 1}) = Cardinality(B) + 1
    BY <1>3, OneMore
  <2> QED BY <1>3, <1>4, <1>5, <2>1, <2>2 DEF tk2
<1>6. CASE q[1] # tk[i][1]
  <2>1. Between(tk2, i, Len(tk) + 2, tk[i][1]) = B
    BY <1>2, <1>6
  <2> QED BY <1>3, <1>4, <1>6, <2>1 DEF tk2
<1> QED BY <1>5, <1>6

LEMMA SinceNewest ==
    ASSUME NEW tk \in Seq(Packet), NEW q \in Packet
    PROVE  Since(Append(tk, q), Len(tk) + 1) = 0
<1> DEFINE tk2 == Append(tk, q)
<1>1. Len(tk) \in Nat /\ Len(tk2) = Len(tk) + 1
  OBVIOUS
<1> HIDE DEF tk2
<1>2. Between(tk2, Len(tk) + 1, Len(tk2) + 1, tk2[Len(tk) + 1][1]) = {}
  BY <1>1 DEF Between
<1>3. Since(tk2, Len(tk) + 1) = 0
  BY <1>2, FS_EmptySet DEF Since
<1> QED BY <1>3 DEF tk2

\* A number enters a ring: the others move by one, the oldest drops out.
LEMMA InsertedIs ==
    ASSUME NEW ring \in Seq(Nat), NEW num \in Nat, Len(ring) <= LogSize
    PROVE  /\ Inserted(ring, num) \in Seq(Nat)
           /\ Len(Inserted(ring, num)) \in 1..LogSize
           /\ Inserted(ring, num)[Len(Inserted(ring, num))] = num
           /\ Len(Inserted(ring, num)) >= Len(ring)
           /\ Len(ring) < LogSize => Len(Inserted(ring, num)) = Len(ring) + 1
           /\ \A k \in 0..Len(ring) - 1 : k + 1 < Len(Inserted(ring, num)) =>
                 Inserted(ring, num)[Len(Inserted(ring, num)) - (k + 1)]
                    = ring[Len(ring) - k]
<1>1. LogSize \in Nat \ {0}
  BY GossipAssumption
<1>2. CASE Len(ring) = LogSize
  <2>1. Tail(ring) \in Seq(Nat) /\ Len(Tail(ring)) = Len(ring) - 1
        /\ \A k \in 1..Len(ring) - 1 : Tail(ring)[k] = ring[k + 1]
    BY <1>1, <1>2
  <2> DEFINE tl == Tail(ring)
  <2>2. Inserted(ring, num) = Append(tl, num)
    BY <1>2 DEF Inserted
  <2> HIDE DEF tl
  <2>3. /\ Append(tl, num) \in Seq(Nat) /\ Len(Append(tl, num)) = Len(ring)
        /\ Append(tl, num)[Len(ring)] = num
        /\ \A k \in 1..Len(ring) - 1 : Append(tl, num)[k] = ring[k + 1]
    BY <1>1, <1>2, <2>1 DEF tl
  <2> QED BY <1>1, <1>2, <2>2, <2>3
<1>3. CASE Len(ring) # LogSize
  <2>1. Inserted(ring, num) = Append(ring, num)
    BY <1>3 DEF Inserted
  <2> QED BY <1>1, <1>3, <2>1
<1> QED BY <1>2, <1>3

\* The packet q of another source changes nothing for s.
LEMMA OtherSource ==
    ASSUME NEW tk \in Seq(Packet), NEW q \in Packet, NEW rings, NEW s \in Here,
           q[1] # s, RingsOK(rings, tk, s)
    PROVE  RingsOK(rings, Append(tk, q), s)
<1> DEFINE tk2 == Append(tk, q)
<1>1. /\ Len(tk) \in Nat /\ DOMAIN tk = 1..Len(tk) /\ DOMAIN tk2 = 1..Len(tk) + 1
      /\ \A k \in 1..Len(tk) : tk2[k] = tk[k]
      /\ tk2[Len(tk) + 1] = q
  OBVIOUS
<1>2. \A i \in 1..Len(tk) : tk[i][1] = s => Since(tk2, i) = Since(tk, i)
  BY SinceAfter
<1>3. \A i \in 1..Len(tk), j \in 1..Len(tk) + 1 : Between(tk2, i, j, s) = Between(tk, i, j, s)
  BY BetweenAfter
<1> HIDE DEF tk2
<1>4. \A i \in DOMAIN tk2 : tk2[i][1] = s =>
          i \in 1..Len(tk) /\ tk2[i] = tk[i] /\ Since(tk2, i) = Since(tk, i)
  BY <1>1, <1>2
<1> SUFFICES RingsOK(rings, tk2, s)
  BY DEF tk2
<1>5. CASE Len(rings) = 0
  BY <1>1, <1>4, <1>5 DEF RingsOK
<1>6. CASE Len(rings) = 1
  <2>1. /\ Len(rings[1]) <= LogSize
        /\ \A i \in DOMAIN tk : tk[i][1] = s => InRing(rings[1], tk, i)
        /\ \A i, j \in DOMAIN tk : i < j /\ tk[i] = tk[j] /\ tk[i][1] = s =>
               Cardinality(Between(tk, i, j, s)) >= LogSize
    BY <1>6 DEF RingsOK
  <2>2. \A i \in DOMAIN tk2 : tk2[i][1] = s => InRing(rings[1], tk2, i)
    BY <1>1, <1>4, <2>1 DEF InRing
  <2>3. \A i, j \in DOMAIN tk2 : i < j /\ tk2[i] = tk2[j] /\ tk2[i][1] = s =>
            Cardinality(Between(tk2, i, j, s)) >= LogSize
    BY <1>1, <1>3, <1>4, <2>1
  <2> QED BY <1>6, <2>1, <2>2, <2>3 DEF RingsOK
<1> QED BY <1>5, <1>6 DEF RingsOK

\* checkSeq inserts the number of q into the ring of its source.
LEMMA TakeIntoRing ==
    ASSUME NEW tk \in Seq(Packet), NEW q \in Packet,
           NEW rings \in Seq(Seq(Nat)), Len(rings) > 0,
           RingsOK(rings, tk, q[1]), ~Knows(rings[1], q[2])
    PROVE  RingsOK([rings EXCEPT ![1] = Inserted(@, q[2])], Append(tk, q), q[1])
<1> DEFINE tk2 == Append(tk, q)
           s == q[1]
           ring == rings[1]
           new == Inserted(ring, q[2])
           rings2 == [rings EXCEPT ![1] = Inserted(@, q[2])]
<1>1. /\ Len(tk) \in Nat /\ DOMAIN tk = 1..Len(tk) /\ DOMAIN tk2 = 1..Len(tk) + 1
      /\ \A k \in 1..Len(tk) : tk2[k] = tk[k]
      /\ tk2[Len(tk) + 1] = q /\ Len(tk2) = Len(tk) + 1
  OBVIOUS
<1>2. Len(rings2) = Len(rings) /\ rings2[1] = new /\ ring \in Seq(Nat)
      /\ Len(rings) \in Nat /\ Len(ring) \in Nat
  OBVIOUS
<1>3. CASE Len(rings) # 1
  <2> HIDE DEF rings2, tk2
  <2> QED BY <1>2, <1>3 DEF RingsOK, tk2, rings2
<1>4. CASE Len(rings) = 1
  <2>1. /\ Len(ring) <= LogSize
        /\ \A i \in DOMAIN tk : tk[i][1] = s => InRing(ring, tk, i)
        /\ \A i, j \in DOMAIN tk : i < j /\ tk[i] = tk[j] /\ tk[i][1] = s =>
               Cardinality(Between(tk, i, j, s)) >= LogSize
    BY <1>4 DEF RingsOK
  <2>2. q[2] \in Nat /\ q = <<q[1], q[2]>> /\ LogSize \in Nat
    BY PacketIs, GossipAssumption
  <2>3. /\ Len(new) \in 1..LogSize /\ new[Len(new)] = q[2]
        /\ Len(new) >= Len(ring)
        /\ Len(ring) < LogSize => Len(new) = Len(ring) + 1
        /\ \A k \in 0..Len(ring) - 1 : k + 1 < Len(new) =>
              new[Len(new) - (k + 1)] = ring[Len(ring) - k]
    BY <1>2, <2>1, <2>2, InsertedIs
  <2>4. \A i \in 1..Len(tk) : /\ Since(tk, i) \in Nat
                              /\ tk[i][1] = s => Since(tk2, i) = Since(tk, i) + 1
    BY SinceAfter
  <2>5. Since(tk2, Len(tk) + 1) = 0
    BY SinceNewest
  <2>8. \A i \in 1..Len(tk), j \in 1..Len(tk) + 1 : Between(tk2, i, j, s) = Between(tk, i, j, s)
    BY BetweenAfter
  <2> HIDE DEF tk2, new
  <2>6. \A i \in DOMAIN tk2 : tk2[i][1] = s => InRing(new, tk2, i)
    <3> SUFFICES ASSUME NEW i \in DOMAIN tk2, tk2[i][1] = s
                 PROVE  InRing(new, tk2, i)
      OBVIOUS
    <3>1. CASE i = Len(tk) + 1
      BY <1>1, <2>2, <2>3, <2>5, <3>1 DEF InRing
    <3>2. CASE i \in 1..Len(tk)
      <4> DEFINE k == Since(tk, i)
      <4>1. k \in Nat /\ tk2[i] = tk[i] /\ Since(tk2, i) = k + 1
        BY <1>1, <2>4, <3>2
      <4>2. k >= LogSize \/ (k < Len(ring) /\ ring[Len(ring) - k] = tk[i][2])
        BY <1>1, <2>1, <3>2, <4>1 DEF InRing
      <4> HIDE DEF k
      <4>3. CASE k + 1 >= LogSize
        BY <4>1, <4>3 DEF InRing
      <4>4. CASE ~(k + 1 >= LogSize)
        <5>0. /\ k < Len(ring) /\ k + 1 < LogSize
              /\ Len(ring) \in Nat /\ Len(new) \in Nat
              /\ Len(ring) <= LogSize /\ Len(new) >= Len(ring)
              /\ Len(ring) < LogSize => Len(new) = Len(ring) + 1
          BY <1>2, <2>1, <2>2, <2>3, <4>1, <4>2, <4>4
        <5> HIDE DEF ring
        <5>1. k \in 0..Len(ring) - 1 /\ k + 1 < Len(new)
          BY <2>2, <4>1, <5>0
        <5>2. new[Len(new) - (k + 1)] = ring[Len(ring) - k]
          BY <2>3, <5>1
        <5> QED BY <2>2, <4>1, <4>2, <4>4, <5>1, <5>2 DEF InRing
      <4> QED BY <4>3, <4>4
    <3> QED BY <1>1, <3>1, <3>2
  <2>7. \A i, j \in DOMAIN tk2 : i < j /\ tk2[i] = tk2[j] /\ tk2[i][1] = s =>
            Cardinality(Between(tk2, i, j, s)) >= LogSize
    <3> SUFFICES ASSUME NEW i \in DOMAIN tk2, NEW j \in DOMAIN tk2, i < j,
                        tk2[i] = tk2[j], tk2[i][1] = s
                 PROVE  Cardinality(Between(tk2, i, j, s)) >= LogSize
      OBVIOUS
    <3>1. i \in 1..Len(tk) /\ tk2[i] = tk[i] /\ j \in 1..Len(tk) + 1
      BY <1>1
    <3>2. Between(tk2, i, j, s) = Between(tk, i, j, s)
      BY <3>1, <2>8
    <3>3. CASE j \in 1..Len(tk)
      BY <1>1, <2>1, <3>1, <3>2, <3>3
    <3>4. CASE j = Len(tk) + 1
      <4>1. tk[i] = q
        BY <1>1, <3>1, <3>4
      <4>2. Since(tk, i) = Cardinality(Between(tk, i, j, s)) /\ Since(tk, i) \in Nat
        BY <2>4, <3>1, <3>4, <4>1 DEF Since
      <4>3. CASE Since(tk, i) >= LogSize
        BY <3>2, <4>2, <4>3
      <4>4. CASE Since(tk, i) < Len(ring) /\ ring[Len(ring) - Since(tk, i)] = q[2]
        <5>1. Len(ring) - Since(tk, i) \in DOMAIN ring
          BY <1>2, <4>2, <4>4
        <5> QED BY <4>4, <5>1 DEF Knows, Range
      <4> QED BY <1>1, <2>1, <3>1, <4>1, <4>3, <4>4 DEF InRing
    <3> QED BY <1>1, <3>1, <3>3, <3>4
  <2> HIDE DEF rings2
  <2>9. RingsOK(rings2, tk2, s)
    BY <1>2, <1>4, <2>3, <2>6, <2>7 DEF RingsOK
  <2> QED BY <2>9 DEF tk2, rings2
<1> QED BY <1>3, <1>4

\* checkSeq adds a ring with the number of q for its source.
LEMMA TakeIntoNewRing ==
    ASSUME NEW tk \in Seq(Packet), NEW q \in Packet,
           NEW rings \in Seq(Seq(Nat)), RingsOK(rings, tk, q[1])
    PROVE  RingsOK(<<<<q[2]>>>> \o rings, Append(tk, q), q[1])
<1> DEFINE tk2 == Append(tk, q)
           rings2 == <<<<q[2]>>>> \o rings
<1>1. /\ Len(tk) \in Nat /\ DOMAIN tk = 1..Len(tk) /\ DOMAIN tk2 = 1..Len(tk) + 1
      /\ \A k \in 1..Len(tk) : tk2[k] = tk[k]
      /\ tk2[Len(tk) + 1] = q /\ Len(tk2) = Len(tk) + 1
  OBVIOUS
<1>2. q[2] \in Nat /\ LogSize \in Nat \ {0}
  BY PacketIs, GossipAssumption
<1>3. <<<<q[2]>>>> \in Seq(Seq(Nat)) /\ Len(<<<<q[2]>>>>) = 1
  BY <1>2
<1>4. Len(rings2) = Len(rings) + 1 /\ rings2[1] = <<q[2]>> /\ Len(rings) \in Nat
  BY <1>3
<1>5. CASE Len(rings) # 0
  <2>1. Len(rings2) # 0 /\ Len(rings2) # 1
    BY <1>4, <1>5
  <2> HIDE DEF rings2
  <2> QED BY <2>1 DEF RingsOK, rings2
<1>6. CASE Len(rings) = 0
  <2>1. \A i \in 1..Len(tk) : tk2[i][1] # q[1]
    BY <1>1, <1>6 DEF RingsOK
  <2>2. Since(tk2, Len(tk) + 1) = 0
    BY SinceNewest
  <2> HIDE DEF tk2, rings2
  <2>3. \A i \in DOMAIN tk2 : tk2[i][1] = q[1] => InRing(rings2[1], tk2, i)
    <3> SUFFICES ASSUME NEW i \in DOMAIN tk2, tk2[i][1] = q[1]
                 PROVE  InRing(rings2[1], tk2, i)
      OBVIOUS
    <3>1. i = Len(tk) + 1
      BY <1>1, <2>1
    <3>2. Since(tk2, i) = 0 /\ tk2[i] = q
      BY <1>1, <2>2, <3>1
    <3>3. Len(rings2[1]) = 1 /\ rings2[1][1] = q[2]
      BY <1>4
    <3> QED BY <3>2, <3>3 DEF InRing
  <2>4. \A i, j \in DOMAIN tk2 : ~(i < j /\ tk2[i] = tk2[j] /\ tk2[i][1] = q[1])
    <3> SUFFICES ASSUME NEW i \in DOMAIN tk2, NEW j \in DOMAIN tk2, i < j
                 PROVE  tk2[i][1] # q[1]
      OBVIOUS
    <3>1. i \in 1..Len(tk)
      BY <1>1
    <3> QED BY <2>1, <3>1
  <2>5. Len(rings2[1]) <= LogSize /\ Len(rings2) = 1
    BY <1>2, <1>4, <1>6
  <2>6. RingsOK(rings2, tk2, q[1])
    BY <2>3, <2>4, <2>5 DEF RingsOK
  <2> QED BY <2>6 DEF tk2, rings2
<1> QED BY <1>5, <1>6

-----------------------------------------------------------------------------
(* The threads that have a copy at hand. *)

LEMMA HandlingType ==
    ASSUME net \in Scenarios, NEW jb, NEW p
    PROVE  IsFiniteSet(Handling(jb, p)) /\ Cardinality(Handling(jb, p)) \in Nat
<1>1. Handling(jb, p) \subseteq net.threads
  BY DEF Handling
<1> QED BY <1>1, PlanTypes, FS_Subset, FS_CardinalityType

LEMMA JobIs ==
    ASSUME NEW x \in Job
    PROVE  /\ x.step \in {"idle", "add", "pass", "trap"}
           /\ x # Idle <=> x.step # "idle"
           /\ x # Idle => x.f \in GoodFrame
           /\ x.step = "trap" => x.fwd \in BOOLEAN
BY DEF Job, Idle

LEMMA AddOrPass ==
    ASSUME NEW x \in Job, x.step = "add"
    PROVE  x \in [step : {"add", "pass"}, f : GoodFrame]
BY DEF Job, Idle

\* Thread t gets a copy of q.
LEMMA HandlingStarts ==
    ASSUME net \in Scenarios, NEW jb \in [net.threads -> Job],
           NEW t \in net.threads, jb[t] = Idle,
           NEW x \in Job, x # Idle, NEW p
    PROVE  /\ p = PacketOf(x.f) =>
                 /\ t \in Handling([jb EXCEPT ![t] = x], p)
                 /\ Cardinality(Handling([jb EXCEPT ![t] = x], p))
                       = Cardinality(Handling(jb, p)) + 1
           /\ p # PacketOf(x.f) => Handling([jb EXCEPT ![t] = x], p) = Handling(jb, p)
<1> DEFINE jb2 == [jb EXCEPT ![t] = x]
<1>1. jb2[t] = x /\ \A u \in net.threads \ {t} : jb2[u] = jb[u]
  OBVIOUS
<1> HIDE DEF jb2
<1>2. CASE p = PacketOf(x.f)
  <2>1. Handling(jb2, p) = Handling(jb, p) \cup {t}
    BY <1>1, <1>2 DEF Handling
  <2>2. t \notin Handling(jb, p)
    BY DEF Handling
  <2>3. Cardinality(Handling(jb, p) \cup {t}) = Cardinality(Handling(jb, p)) + 1
    BY <2>2, HandlingType, OneMore
  <2> QED BY <1>2, <2>1, <2>3 DEF jb2
<1>3. CASE p # PacketOf(x.f)
  <2>1. Handling(jb2, p) = Handling(jb, p)
    BY <1>1, <1>3 DEF Handling
  <2> QED BY <1>3, <2>1 DEF jb2
<1> QED BY <1>2, <1>3

\* Thread t keeps its copy.
LEMMA HandlingGoesOn ==
    ASSUME NEW jb \in [net.threads -> Job], NEW t \in net.threads, jb[t] # Idle,
           NEW x \in Job, x # Idle, PacketOf(x.f) = PacketOf(jb[t].f), NEW p
    PROVE  Handling([jb EXCEPT ![t] = x], p) = Handling(jb, p)
BY DEF Handling

\* Thread t is done with its copy of q.
LEMMA HandlingEnds ==
    ASSUME net \in Scenarios, NEW jb \in [net.threads -> Job],
           NEW t \in net.threads, jb[t] # Idle, NEW p
    PROVE  /\ p = PacketOf(jb[t].f) =>
                 Cardinality(Handling([jb EXCEPT ![t] = Idle], p)) + 1
                    = Cardinality(Handling(jb, p))
           /\ p # PacketOf(jb[t].f) =>
                 Handling([jb EXCEPT ![t] = Idle], p) = Handling(jb, p)
<1> DEFINE jb2 == [jb EXCEPT ![t] = Idle]
<1>1. jb2[t] = Idle /\ \A u \in net.threads \ {t} : jb2[u] = jb[u]
  OBVIOUS
<1> HIDE DEF jb2
<1>2. CASE p = PacketOf(jb[t].f)
  <2>1. Handling(jb, p) = Handling(jb2, p) \cup {t} /\ t \notin Handling(jb2, p)
    BY <1>1, <1>2 DEF Handling
  <2>2. Cardinality(Handling(jb2, p) \cup {t}) = Cardinality(Handling(jb2, p)) + 1
    BY <2>1, HandlingType, OneMore
  <2> QED BY <1>2, <2>1, <2>2 DEF jb2
<1>3. CASE p # PacketOf(jb[t].f)
  <2>1. Handling(jb2, p) = Handling(jb, p)
    BY <1>1, <1>3 DEF Handling
  <2> QED BY <1>3, <2>1 DEF jb2
<1> QED BY <1>2, <1>3

-----------------------------------------------------------------------------
(* The trap. *)

\* Every entry of tr2 is one of tr or, for the packet p, counts one copy more;
\* no packet is lost.
CountsOneMore(tr, tr2, p) ==
    /\ \A e \in Range(tr2) : \E d \in Range(tr) :
          /\ e.f = d.f
          /\ e.cnt = d.cnt \/ (PacketOf(d.f) = p /\ e.cnt = d.cnt + 1)
    /\ Packets(tr2) = Packets(tr)

LEMMA CountedIs ==
    ASSUME NEW tr \in Seq(Entry), NEW f
    PROVE  Counted(tr, f) \in Seq(Entry) /\ CountsOneMore(tr, Counted(tr, f), PacketOf(f))
<1> DEFINE tr2 == Counted(tr, f)
<1>1. DOMAIN tr = 1..Len(tr) /\ Len(tr) \in Nat /\ \A i \in 1..Len(tr) : tr[i] \in Entry
  OBVIOUS
<1>2. /\ DOMAIN tr2 = 1..Len(tr)
      /\ \A i \in 1..Len(tr) :
            \/ tr2[i] = tr[i]
            \/ i \in IndexIn(tr, f) /\ tr2[i] = [tr[i] EXCEPT !.cnt = @ + 1]
  BY <1>1 DEF Counted
<1>3. tr2 = [i \in 1..Len(tr) |-> tr2[i]]
  BY <1>1 DEF Counted
<1> HIDE DEF tr2
<1>4. \A i \in 1..Len(tr) :
          /\ tr2[i] \in Entry /\ tr2[i].f = tr[i].f
          /\ tr2[i].cnt = tr[i].cnt
               \/ (PacketOf(tr[i].f) = PacketOf(f) /\ tr2[i].cnt = tr[i].cnt + 1)
  <2> SUFFICES ASSUME NEW i \in 1..Len(tr)
               PROVE  /\ tr2[i] \in Entry /\ tr2[i].f = tr[i].f
                      /\ tr2[i].cnt = tr[i].cnt
                           \/ (PacketOf(tr[i].f) = PacketOf(f) /\ tr2[i].cnt = tr[i].cnt + 1)
    OBVIOUS
  <2>1. CASE tr2[i] = tr[i]
    BY <1>1, <2>1
  <2>2. CASE i \in IndexIn(tr, f) /\ tr2[i] = [tr[i] EXCEPT !.cnt = @ + 1]
    <3>1. PacketOf(tr[i].f) = PacketOf(f)
      BY <2>2 DEF IndexIn
    <3>2. tr[i] \in [f : GoodFrame, fwd : BOOLEAN, cnt : Nat]
      BY <1>1 DEF Entry
    <3>3. /\ tr2[i] \in [f : GoodFrame, fwd : BOOLEAN, cnt : Nat]
          /\ tr2[i].f = tr[i].f /\ tr2[i].cnt = tr[i].cnt + 1
      BY <2>2, <3>2
    <3> QED BY <3>1, <3>3 DEF Entry
  <2> QED BY <1>2, <2>1, <2>2
<1>5. tr2 \in Seq(Entry)
  <2>1. tr2 \in [1..Len(tr) -> Entry]
    BY <1>3, <1>4
  <2> QED BY <1>1, <2>1
<1>6. \A e \in Range(tr2) : \E d \in Range(tr) :
          /\ e.f = d.f
          /\ e.cnt = d.cnt \/ (PacketOf(d.f) = PacketOf(f) /\ e.cnt = d.cnt + 1)
  BY <1>1, <1>2, <1>4 DEF Range
<1>7. Packets(tr2) = Packets(tr)
  BY <1>1, <1>2, <1>4 DEF Packets, Range
<1> QED BY <1>5, <1>6, <1>7 DEF CountsOneMore, tr2

LEMMA PrefixIs ==
    ASSUME NEW tr \in Seq(Entry), NEW e \in Entry
    PROVE  /\ <<e>> \o tr \in Seq(Entry)
           /\ Range(<<e>> \o tr) = Range(tr) \cup {e}
<1>1. Len(tr) \in Nat /\ <<e>> \in Seq(Entry) /\ Len(<<e>>) = 1 /\ <<e>>[1] = e
  OBVIOUS
<1> DEFINE tr2 == <<e>> \o tr
<1>2. /\ tr2 \in Seq(Entry) /\ Len(tr2) = Len(tr) + 1 /\ DOMAIN tr2 = 1..Len(tr) + 1
      /\ tr2[1] = e /\ \A i \in 2..Len(tr) + 1 : tr2[i] = tr[i - 1]
      /\ DOMAIN tr = 1..Len(tr)
  BY <1>1
<1> HIDE DEF tr2
<1>3. Range(tr2) \subseteq Range(tr) \cup {e}
  <2> SUFFICES ASSUME NEW i \in 1..Len(tr) + 1 PROVE tr2[i] \in Range(tr) \cup {e}
    BY <1>2 DEF Range
  <2>1. CASE i = 1
    BY <1>2, <2>1
  <2>2. CASE i \in 2..Len(tr) + 1
    <3>1. i - 1 \in DOMAIN tr /\ tr2[i] = tr[i - 1]
      BY <1>1, <1>2, <2>2
    <3> QED BY <3>1 DEF Range
  <2> QED BY <1>1, <2>1, <2>2
<1>4. Range(tr) \cup {e} \subseteq Range(tr2)
  <2>1. e \in Range(tr2)
    <3>1. 1 \in DOMAIN tr2
      BY <1>1, <1>2
    <3> QED BY <1>2, <3>1 DEF Range
  <2>2. ASSUME NEW i \in DOMAIN tr PROVE tr[i] \in Range(tr2)
    <3>1. i + 1 \in DOMAIN tr2 /\ tr2[i + 1] = tr[i]
      BY <1>1, <1>2
    <3> QED BY <3>1 DEF Range
  <2> QED BY <2>1, <2>2 DEF Range
<1> QED BY <1>2, <1>3, <1>4 DEF tr2

LEMMA RemovedIs ==
    ASSUME NEW tr \in Seq(Entry), NEW i \in DOMAIN tr
    PROVE  LET tr2 == SubSeq(tr, 1, i - 1) \o SubSeq(tr, i + 1, Len(tr)) IN
           /\ tr2 \in Seq(Entry) /\ Range(tr2) \subseteq Range(tr)
           /\ Range(tr) \subseteq Range(tr2) \cup {tr[i]}
<1> DEFINE a == SubSeq(tr, 1, i - 1)
           b == SubSeq(tr, i + 1, Len(tr))
           tr2 == a \o b
<1>1. Len(tr) \in Nat /\ i \in 1..Len(tr) /\ DOMAIN tr = 1..Len(tr)
  OBVIOUS
<1>2. a \in Seq(Entry) /\ Len(a) = i - 1 /\ \A j \in 1..i - 1 : a[j] = tr[j]
  BY <1>1, SubSeqProperties
<1>3. b \in Seq(Entry) /\ Len(b) = Len(tr) - i
      /\ \A j \in 1..Len(tr) - i : b[j] = tr[j + i]
  BY <1>1, SubSeqProperties
<1> HIDE DEF a, b
<1>4. /\ tr2 \in Seq(Entry) /\ Len(tr2) = Len(tr) - 1 /\ DOMAIN tr2 = 1..Len(tr) - 1
      /\ \A j \in 1..i - 1 : tr2[j] = tr[j]
      /\ \A j \in i..Len(tr) - 1 : tr2[j] = tr[j + 1]
  <2>1. tr2 \in Seq(Entry) /\ Len(tr2) = Len(a) + Len(b)
        /\ \A j \in 1..Len(a) + Len(b) : tr2[j] = IF j <= Len(a) THEN a[j] ELSE b[j - Len(a)]
    BY <1>2, <1>3, ConcatProperties
  <2>4. DOMAIN tr2 = 1..Len(a) + Len(b)
    BY <2>1
  <2> HIDE DEF tr2
  <2>2. ASSUME NEW j \in 1..i - 1 PROVE tr2[j] = tr[j]
    BY <1>1, <1>2, <1>3, <2>1
  <2>3. ASSUME NEW j \in i..Len(tr) - 1 PROVE tr2[j] = tr[j + 1]
    <3>1. j - (i - 1) \in 1..Len(tr) - i
      BY <1>1
    <3>2. tr2[j] = b[j - (i - 1)]
      BY <1>1, <1>2, <1>3, <2>1
    <3>3. b[j - (i - 1)] = tr[j - (i - 1) + i]
      BY <1>3, <3>1
    <3>4. j - (i - 1) + i = j + 1
      BY <1>1
    <3> QED BY <3>2, <3>3, <3>4
  <2> QED BY <1>1, <1>2, <1>3, <2>1, <2>2, <2>3, <2>4
<1> HIDE DEF tr2
<1>5. ASSUME NEW j \in DOMAIN tr2 PROVE tr2[j] \in Range(tr)
  <2>1. (j \in DOMAIN tr /\ tr2[j] = tr[j]) \/ (j + 1 \in DOMAIN tr /\ tr2[j] = tr[j + 1])
    BY <1>1, <1>4
  <2> QED BY <2>1 DEF Range
<1>6. ASSUME NEW j \in DOMAIN tr, j # i PROVE tr[j] \in Range(tr2)
  <2>1. \/ j \in DOMAIN tr2 /\ tr2[j] = tr[j]
        \/ j - 1 \in DOMAIN tr2 /\ tr2[j - 1] = tr[j]
    BY <1>1, <1>4, <1>6
  <2> QED BY <2>1 DEF Range
<1> QED BY <1>4, <1>5, <1>6 DEF Range, tr2, a, b

-----------------------------------------------------------------------------
(* What an event about the packet q does to the counts and to who is       *)
(* silent: the other packets keep what they have.                          *)

\* dj more threads have a copy of q at hand (-1: one less), dh more copies of it
\* were heard, and an entry of the trap counts dc more; a new one counts few.
CountsChange(jb, tr, hd, jb2, tr2, hd2, q, dj, dh, dc) ==
    /\ tr \in Seq(Entry) /\ tr2 \in Seq(Entry)
    /\ hd \in [Packet -> Nat] /\ hd2 \in [Packet -> Nat]
    /\ q \in Packet /\ dj \in Int /\ dh \in Int /\ dc \in Int
    /\ \A p \in Packet \ {q} : Handling(jb2, p) = Handling(jb, p) /\ hd2[p] = hd[p]
    /\ Cardinality(Handling(jb2, q)) = Cardinality(Handling(jb, q)) + dj
    /\ hd2[q] = hd[q] + dh /\ dj <= dh /\ dc + dj <= dh
    /\ \A e \in Range(tr2) :
          \/ \E d \in Range(tr) :
                /\ e.f = d.f
                /\ e.cnt = d.cnt \/ (PacketOf(d.f) = q /\ e.cnt = d.cnt + dc)
          \/ PacketOf(e.f) = q /\ e.cnt + dj <= dh

LEMMA CountsStep ==
    ASSUME net \in Scenarios,
           NEW jb, NEW tr, NEW hd, NEW jb2, NEW tr2, NEW hd2,
           NEW q, NEW dj, NEW dh, NEW dc,
           CountsOK(jb, tr, hd), CountsChange(jb, tr, hd, jb2, tr2, hd2, q, dj, dh, dc)
    PROVE  CountsOK(jb2, tr2, hd2)
<1>1. /\ tr \in Seq(Entry) /\ tr2 \in Seq(Entry)
      /\ hd \in [Packet -> Nat] /\ hd2 \in [Packet -> Nat]
      /\ q \in Packet /\ dj \in Int /\ dh \in Int /\ dc \in Int
  BY DEF CountsChange
<1>2. \A p \in Packet \ {q} : Handling(jb2, p) = Handling(jb, p) /\ hd2[p] = hd[p]
  BY DEF CountsChange
<1>3. /\ Cardinality(Handling(jb2, q)) = Cardinality(Handling(jb, q)) + dj
      /\ hd2[q] = hd[q] + dh /\ dj <= dh /\ dc + dj <= dh
  BY DEF CountsChange
<1>4. ASSUME NEW e \in Range(tr2)
      PROVE  \/ \E d \in Range(tr) :
                   /\ e.f = d.f
                   /\ e.cnt = d.cnt \/ (PacketOf(d.f) = q /\ e.cnt = d.cnt + dc)
             \/ PacketOf(e.f) = q /\ e.cnt + dj <= dh
  BY <1>4 DEF CountsChange
<1>5. \A p \in Packet : /\ hd[p] \in Nat /\ hd2[p] \in Nat
                        /\ Cardinality(Handling(jb, p)) \in Nat
                        /\ Cardinality(Handling(jb2, p)) \in Nat
                        /\ Cardinality(Handling(jb, p)) <= hd[p]
  BY <1>1, HandlingType DEF CountsOK
<1> DEFINE k == Cardinality(Handling(jb, q))
           k2 == Cardinality(Handling(jb2, q))
           h == hd[q]
           h2 == hd2[q]
<1>6. /\ h \in Nat /\ h2 \in Nat /\ k \in Nat /\ k2 \in Nat /\ k <= h
      /\ k2 = k + dj /\ h2 = h + dh /\ dj <= dh /\ dc + dj <= dh
  BY <1>1, <1>3, <1>5
<1> HIDE DEF k, k2, h, h2
<1>7. ASSUME NEW p \in Packet PROVE Cardinality(Handling(jb2, p)) <= hd2[p]
  <2>1. CASE p = q
    <3>1. k2 <= h2
      BY <1>1, <1>6
    <3> QED BY <2>1, <3>1 DEF k2, h2
  <2>2. CASE p # q
    <3>1. Handling(jb2, p) = Handling(jb, p) /\ hd2[p] = hd[p]
      BY <1>2, <2>2
    <3> QED BY <1>5, <3>1
  <2> QED BY <2>1, <2>2
<1>8. ASSUME NEW e \in Range(tr2)
      PROVE  e.cnt + Cardinality(Handling(jb2, PacketOf(e.f))) <= hd2[PacketOf(e.f)]
  <2> DEFINE p == PacketOf(e.f)
             c == e.cnt
  <2>1. e \in Entry
    BY <1>1 DEF Range
  <2>2. p \in Packet /\ c \in Nat
    BY <2>1, GoodFrameIs DEF Entry
  <2>3. CASE p = q /\ c + dj <= dh
    <3> HIDE DEF c, p
    <3>1. c + k2 <= h2
      BY <1>1, <1>6, <2>2, <2>3
    <3> QED BY <2>3, <3>1 DEF c, p, k2, h2
  <2>4. CASE ~(p = q /\ c + dj <= dh)
    <3>1. PICK d \in Range(tr) :
                 /\ e.f = d.f
                 /\ c = d.cnt \/ (PacketOf(d.f) = q /\ c = d.cnt + dc)
      BY <1>4, <2>4
    <3> DEFINE b == d.cnt
    <3>2. b \in Nat
      <4>1. d \in Entry
        BY <1>1 DEF Range
      <4> QED BY <4>1 DEF Entry
    <3>3. b + Cardinality(Handling(jb, p)) <= hd[p]
      BY <3>1 DEF CountsOK
    <3>4. CASE p = q
      <4>1. b + k <= h
        BY <3>3, <3>4 DEF k, h
      <4>2. c = b \/ c = b + dc
        BY <3>1
      <4> HIDE DEF b, c, p
      <4>3. c + k2 <= h2
        <5>1. CASE c = b
          BY <1>1, <1>6, <2>2, <3>2, <4>1, <5>1
        <5>2. CASE c = b + dc
          BY <1>1, <1>6, <2>2, <3>2, <4>1, <5>2
        <5> QED BY <4>2, <5>1, <5>2
      <4> QED BY <3>4, <4>3 DEF c, p, k2, h2
    <3>5. CASE p # q
      <4>1. c = b /\ Handling(jb2, p) = Handling(jb, p) /\ hd2[p] = hd[p]
        BY <1>2, <2>2, <3>1, <3>5
      <4> HIDE DEF p
      <4> QED BY <3>3, <4>1 DEF p
    <3> QED BY <3>4, <3>5
  <2> QED BY <2>3, <2>4
<1> QED BY <1>7, <1>8 DEF CountsOK

\* Nobody becomes silent about another packet than q, and about q for a reason.
SilentChange(n, jb, tr, tk, hd, jb2, tr2, tk2, hd2, st, st2, q) ==
    /\ tk \in Seq(Packet) /\ hd \in [Packet -> Nat] /\ hd2 \in [Packet -> Nat]
    /\ q \in Packet
    /\ \A p \in Packet \ {q} : Handling(jb2, p) = Handling(jb, p)
    /\ \A p \in Packet : hd[p] <= hd2[p]
    /\ st \subseteq st2 /\ Packets(tr) \ {q} \subseteq Packets(tr2)
    /\ Range(tk2) \subseteq Range(tk) \cup {q}
    /\ net.g \in {3, 14} =>
          \/ /\ Range(tk2) \subseteq Range(tk) /\ Packets(tr) \subseteq Packets(tr2)
             /\ Handling(jb2, q) = Handling(jb, q)
          \/ q \in st2 \/ q \in Packets(tr2) \/ Handling(jb2, q) # {}
          \/ Destination(q) = n \/ hd2[q] > M

LEMMA SilentStep ==
    ASSUME NEW n, NEW jb, NEW tr, NEW tk, NEW hd, NEW st,
           NEW jb2, NEW tr2, NEW tk2, NEW hd2, NEW st2, NEW q,
           SilentOK(n, jb, tr, tk, hd, st),
           SilentChange(n, jb, tr, tk, hd, jb2, tr2, tk2, hd2, st, st2, q)
    PROVE  SilentOK(n, jb2, tr2, tk2, hd2, st2)
<1> USE DEF SilentChange
<1> SUFFICES ASSUME net.g \in {3, 14}, NEW p \in Range(tk2),
                    p \in Range(tk), Handling(jb2, p) = Handling(jb, p),
                    p \in Packets(tr) => p \in Packets(tr2)
             PROVE  \/ p \in st2 \/ p \in Packets(tr2) \/ Handling(jb2, p) # {}
                    \/ Destination(p) = n \/ hd2[p] > M
  <2>1. Range(tk) \subseteq Packet
    BY DEF Range
  <2> QED BY <2>1 DEF SilentOK
<1>1. p \in Packet
  BY DEF Range
<1>2. \/ p \in st \/ p \in Packets(tr) \/ Handling(jb, p) # {}
      \/ Destination(p) = n \/ hd[p] > M
  BY <1>1 DEF SilentOK
<1>3. hd[p] > M => hd2[p] > M
  BY <1>1, GossipAssumption
<1> QED BY <1>1, <1>2, <1>3

\* A step of one node, or of none.
LEMMA PacketStep ==
    ASSUME PacketInv, net' = net, NEW n \in Here, PacketTypes',
           \A x \in Here \ {n} :
              /\ log'[x] = log[x] /\ job'[x] = job[x] /\ trap'[x] = trap[x]
              /\ taken'[x] = taken[x] /\ heard'[x] = heard[x] /\ sent'[x] = sent[x],
           \A s \in Here : RingsOK(log'[n][s], taken'[n], s),
           CountsOK(job'[n], trap'[n], heard'[n]),
           SilentOK(n, job'[n], trap'[n], taken'[n], heard'[n], sent'[n])
    PROVE  PacketInv'
<1>1. Here' = Here /\ Packet' = Packet
  BY SameFrames
<1>2. \A x, s \in Here : RingsOK(log'[x][s], taken'[x], s)
  BY DEF PacketInv
<1>3. \A x \in Here : CountsOK(job'[x], trap'[x], heard'[x])
  BY DEF PacketInv
<1>4. \A x \in Here : SilentOK(x, job'[x], trap'[x], taken'[x], heard'[x], sent'[x])
  BY DEF PacketInv
<1>5. \A x, s \in Here' : RingsOK(log[x][s], taken[x], s)'
  BY <1>1, <1>2
<1>6. \A x \in Here' : CountsOK(job[x], trap[x], heard[x])'
  BY <1>1, <1>3 DEF CountsOK, Handling
<1>7. \A x \in Here' : SilentOK(x, job[x], trap[x], taken[x], heard[x], sent[x])'
  BY <1>1, <1>4 DEF SilentOK, Handling, Destination
<1> QED BY <1>5, <1>6, <1>7 DEF PacketInv

LEMMA PacketIdle ==
    ASSUME PacketInv, net' = net, DOMAIN air' \subseteq GoodFrame,
           UNCHANGED <<seq, log, job, trap, taken, heard, sent>>
    PROVE  PacketInv'
<1>1. Here' = Here /\ Packet' = Packet /\ GoodFrame' = GoodFrame /\ Job' = Job
      /\ Entry' = Entry
  BY SameFrames
<1>2. PacketTypes'
  BY <1>1 DEF PacketInv, PacketTypes
<1>3. \A x \in Here : CountsOK(job[x], trap[x], heard[x])'
  BY <1>1 DEF PacketInv, CountsOK, Handling
<1>4. \A x \in Here : SilentOK(x, job[x], trap[x], taken[x], heard[x], sent[x])'
  BY <1>1 DEF PacketInv, SilentOK, Handling, Destination
<1> QED BY <1>1, <1>2, <1>3, <1>4 DEF PacketInv

\* A step that leaves the log alone.
LEMMA NothingTaken ==
    ASSUME PacketInv, NEW n \in Here, log' = log, taken' = taken
    PROVE  \A s \in Here : RingsOK(log'[n][s], taken'[n], s)
BY DEF PacketInv

-----------------------------------------------------------------------------
(* The actions of Gossip. *)

LEMMA PacketInitInv == Init => PacketInv
<1> SUFFICES ASSUME Init PROVE PacketInv
  OBVIOUS
<1>1. /\ net \in Scenarios /\ seq = [n \in Here |-> 0] /\ air = EmptyBag
      /\ log = [n \in Here |-> [m \in Here |-> <<>>]]
      /\ job = [n \in Here |-> [t \in net.threads |-> Idle]]
      /\ trap = [n \in Here |-> <<>>] /\ taken = [n \in Here |-> <<>>]
      /\ heard = [n \in Here |-> [p \in Packet |-> 0]]
      /\ sent = [n \in Here |-> {}]
  BY DEF Init, NhdpInit
<1>2. DOMAIN air = {}
  BY <1>1 DEF EmptyBag, SetToBag
<1>3. \A n \in Here : net.plan[n] \in Seq(Here \cup {All})
  BY <1>1, PlanTypes
<1>4. PacketTypes
  BY <1>1, <1>2, <1>3 DEF PacketTypes, Job
<1>5. Range(<<>>) = {}
  BY DEF Range
<1>6. \A n, s \in Here : RingsOK(log[n][s], taken[n], s)
  BY <1>1 DEF RingsOK
<1>7. \A n \in Here, p \in Packet : Handling(job[n], p) = {}
  BY <1>1 DEF Handling
<1>8. \A n \in Here : CountsOK(job[n], trap[n], heard[n])
  <2> SUFFICES ASSUME NEW n \in Here PROVE CountsOK(job[n], trap[n], heard[n])
    OBVIOUS
  <2>1. Range(trap[n]) = {}
    BY <1>1, <1>5
  <2>2. \A p \in Packet : heard[n][p] = 0 /\ Cardinality(Handling(job[n], p)) = 0
    BY <1>1, <1>7, FS_EmptySet
  <2> QED BY <2>1, <2>2 DEF CountsOK
<1>9. \A n \in Here : SilentOK(n, job[n], trap[n], taken[n], heard[n], sent[n])
  BY <1>1, <1>5 DEF SilentOK
<1> QED BY <1>4, <1>6, <1>8, <1>9 DEF PacketInv

LEMMA InsertedType ==
    ASSUME NEW ring \in Seq(Nat), NEW num \in Nat
    PROVE  Inserted(ring, num) \in Seq(Nat)
<1>1. LogSize \in Nat \ {0} /\ Len(ring) \in Nat
  BY GossipAssumption
<1>2. CASE Len(ring) = LogSize
  <2>1. Tail(ring) \in Seq(Nat)
    BY <1>1, <1>2
  <2> DEFINE tl == Tail(ring)
  <2> HIDE DEF tl
  <2>2. Append(tl, num) \in Seq(Nat)
    BY <2>1 DEF tl
  <2> QED BY <1>2, <2>2 DEF Inserted, tl
<1>3. CASE Len(ring) # LogSize
  BY <1>3 DEF Inserted
<1> QED BY <1>2, <1>3

\* What the values at node n have to be like.
NodeOK(n, lg, jb, tr, tk, hd, st) ==
    /\ lg \in [Here -> Seq(Seq(Nat))] /\ jb \in [net.threads -> Job]
    /\ tr \in Seq(Entry) /\ tk \in Seq(Packet)
    /\ hd \in [Packet -> Nat] /\ st \in SUBSET Packet
    /\ \A s \in Here : RingsOK(lg[s], tk, s)
    /\ CountsOK(jb, tr, hd)
    /\ SilentOK(n, jb, tr, tk, hd, st)

LEMMA NodeValues ==
    ASSUME PacketInv, NEW n \in Here
    PROVE  /\ net \in Scenarios
           /\ NodeOK(n, log[n], job[n], trap[n], taken[n], heard[n], sent[n])
BY DEF PacketInv, PacketTypes, NodeOK

\* The values at n become these, those of the others stay.
NodeBecomes(n, lg, jb, tr, tk, hd, st) ==
    /\ log' = [log EXCEPT ![n] = lg] /\ job' = [job EXCEPT ![n] = jb]
    /\ trap' = [trap EXCEPT ![n] = tr] /\ taken' = [taken EXCEPT ![n] = tk]
    /\ heard' = [heard EXCEPT ![n] = hd] /\ sent' = [sent EXCEPT ![n] = st]

SeqAndAir ==
    /\ seq \in [Here -> Nat] /\ \A x \in Here : seq[x] \in 0..Len(net.plan[x])
    /\ DOMAIN air \subseteq GoodFrame

LEMMA OthersKeep ==
    ASSUME PacketInv, NEW n \in Here,
           NEW lg, NEW jb, NEW tr, NEW tk, NEW hd, NEW st,
           NodeBecomes(n, lg, jb, tr, tk, hd, st)
    PROVE  /\ log'[n] = lg /\ job'[n] = jb /\ trap'[n] = tr /\ taken'[n] = tk
           /\ heard'[n] = hd /\ sent'[n] = st
           /\ \A x \in Here \ {n} :
                /\ log'[x] = log[x] /\ job'[x] = job[x] /\ trap'[x] = trap[x]
                /\ taken'[x] = taken[x] /\ heard'[x] = heard[x] /\ sent'[x] = sent[x]
BY DEF PacketInv, PacketTypes, NodeBecomes

LEMMA NodeChange ==
    ASSUME PacketInv, net' = net, NEW n \in Here,
           NEW lg, NEW jb, NEW tr, NEW tk, NEW hd, NEW st,
           NodeOK(n, lg, jb, tr, tk, hd, st), NodeBecomes(n, lg, jb, tr, tk, hd, st),
           SeqAndAir'
    PROVE  PacketInv'
<1>1. Here' = Here /\ Packet' = Packet /\ GoodFrame' = GoodFrame /\ Job' = Job
      /\ Entry' = Entry
  BY SameFrames
<1>2. /\ log' \in [Here -> [Here -> Seq(Seq(Nat))]]
      /\ job' \in [Here -> [net.threads -> Job]] /\ trap' \in [Here -> Seq(Entry)]
      /\ taken' \in [Here -> Seq(Packet)] /\ heard' \in [Here -> [Packet -> Nat]]
      /\ sent' \in [Here -> SUBSET Packet] /\ net \in Scenarios
  BY DEF PacketInv, PacketTypes, NodeOK, NodeBecomes
<1>3. PacketTypes'
  BY <1>1, <1>2 DEF PacketTypes, SeqAndAir
<1>4. /\ log'[n] = lg /\ job'[n] = jb /\ trap'[n] = tr /\ taken'[n] = tk
      /\ heard'[n] = hd /\ sent'[n] = st
      /\ \A x \in Here \ {n} :
            /\ log'[x] = log[x] /\ job'[x] = job[x] /\ trap'[x] = trap[x]
            /\ taken'[x] = taken[x] /\ heard'[x] = heard[x] /\ sent'[x] = sent[x]
  BY OthersKeep
<1>5. /\ \A s \in Here : RingsOK(lg[s], tk, s)
      /\ CountsOK(jb, tr, hd) /\ SilentOK(n, jb, tr, tk, hd, st)
  BY DEF NodeOK
<1> QED BY <1>3, <1>4, <1>5, PacketStep

LEMMA SameValues ==
    ASSUME PacketInv, NEW n \in Here
    PROVE  /\ log = [log EXCEPT ![n] = log[n]] /\ job = [job EXCEPT ![n] = job[n]]
           /\ trap = [trap EXCEPT ![n] = trap[n]] /\ taken = [taken EXCEPT ![n] = taken[n]]
           /\ heard = [heard EXCEPT ![n] = heard[n]] /\ sent = [sent EXCEPT ![n] = sent[n]]
           /\ SeqAndAir
BY DEF PacketInv, PacketTypes, SeqAndAir

LEMMA ForwardTypes ==
    ASSUME PacketInv, NEW n \in Here, NEW f \in GoodFrame, NEW ttl \in 0..K,
           Forward(n, f, ttl)
    PROVE  /\ DOMAIN air' \subseteq GoodFrame
           /\ sent' = [sent EXCEPT ![n] = sent[n] \cup {PacketOf(f)}]
           /\ sent[n] \cup {PacketOf(f)} \in SUBSET Packet
<1>1. DOMAIN air \subseteq GoodFrame /\ net \in Scenarios
  BY SameValues, NodeValues DEF SeqAndAir
<1>2. DOMAIN Sent(n, f, ttl) \subseteq GoodFrame
  BY <1>1, SentGood
<1>3. sent[n] \in SUBSET Packet
  BY NodeValues DEF NodeOK
<1> QED BY <1>1, <1>2, <1>3, AirGrows, GoodFrameIs DEF Forward

LEMMA SendStep ==
    ASSUME PacketInv, net' = net, NEW n \in Here, Send(n)
    PROVE  PacketInv'
<1> DEFINE f == [src |-> n, num |-> seq[n] + 1, to |-> net.plan[n][seq[n] + 1],
                 via |-> n, at |-> n, ttl |-> 0]
           ttl == IF UseKHops THEN K ELSE 0
           e == Trapped(f, TRUE, 0)
           q == PacketOf(f)
           lg == log[n]
           jb == job[n]
           tr == trap[n]
           tk == taken[n]
           hd == heard[n]
           st == sent[n]
           tr2 == IF net.g = 10 THEN <<e>> \o tr ELSE tr
<1>1. /\ seq[n] < Len(net.plan[n])
      /\ seq' = [seq EXCEPT ![n] = @ + 1]
      /\ air' = air (+) Sent(n, f, ttl)
      /\ trap' = IF net.g = 10 THEN [trap EXCEPT ![n] = <<e>> \o @] ELSE trap
      /\ UNCHANGED <<log, job, taken, heard, sent>>
  BY DEF Send
<1>2. /\ net \in Scenarios /\ seq[n] \in Nat /\ SeqAndAir
      /\ NodeOK(n, lg, jb, tr, tk, hd, st)
      /\ net.plan[n] \in Seq(Here \cup {All})
  BY NodeValues, SameValues, PlanTypes DEF SeqAndAir
<1>3. K \in Nat /\ ttl \in 0..K
  BY GossipAssumption
<1>4. f \in GoodFrame /\ q \in Packet
  <2>1. seq[n] + 1 \in 1..Len(net.plan[n])
    BY <1>1, <1>2
  <2>2. net.plan[n][seq[n] + 1] \in Here \cup {All}
    BY <1>2, <2>1
  <2>3. f \in Frame
    BY <1>2, <1>3, <2>2 DEF Frame
  <2>4. q = <<n, seq[n] + 1>> /\ q[1] = n /\ q[2] = seq[n] + 1
    BY DEF PacketOf
  <2>5. q \in Packet
    BY <2>1, <2>4 DEF Packet
  <2>6. f.to = Destination(q)
    BY <2>4 DEF Destination
  <2> HIDE DEF f
  <2> QED BY <2>3, <2>5, <2>6 DEF GoodFrame
<1> HIDE DEF f, ttl
<1>5. SeqAndAir'
  <2>1. DOMAIN Sent(n, f, ttl) \subseteq GoodFrame
    BY <1>2, <1>3, <1>4, SentGood
  <2>2. DOMAIN air' \subseteq GoodFrame'
    BY <1>1, <1>2, <2>1, AirGrows, SameFrames DEF SeqAndAir
  <2>3. seq' \in [Here -> Nat] /\ \A x \in Here : seq'[x] \in 0..Len(net.plan[x])
    BY <1>1, <1>2 DEF SeqAndAir
  <2> QED BY <2>2, <2>3, SameFrames DEF SeqAndAir
<1>6. e \in Entry /\ e.f = f /\ e.cnt = 0
  BY <1>4 DEF Trapped, Entry
<1>7. /\ tr \in Seq(Entry) /\ hd \in [Packet -> Nat] /\ tk \in Seq(Packet)
      /\ CountsOK(jb, tr, hd) /\ SilentOK(n, jb, tr, tk, hd, st)
  BY <1>2 DEF NodeOK
<1>8. NodeBecomes(n, lg, jb, tr2, tk, hd, st)
  BY <1>1, SameValues DEF NodeBecomes
<1> HIDE DEF e, lg, jb, tr, tk, hd, st
<1>9. tr2 \in Seq(Entry) /\ Range(tr2) \subseteq Range(tr) \cup {e}
      /\ (net.g # 10 => tr2 = tr)
  BY <1>6, <1>7, PrefixIs
<1> HIDE DEF q, tr2
<1>10. CountsOK(jb, tr2, hd)
  <2>1. Cardinality(Handling(jb, q)) \in Nat /\ hd[q] \in Nat /\ PacketOf(f) = q
    BY <1>2, <1>4, <1>7, HandlingType DEF q
  <2>2. \A d \in Range(tr2) :
          \/ \E d2 \in Range(tr) :
                /\ d.f = d2.f
                /\ d.cnt = d2.cnt \/ (PacketOf(d2.f) = q /\ d.cnt = d2.cnt + 0)
          \/ PacketOf(d.f) = q /\ d.cnt + 0 <= 0
    BY <1>6, <1>9, <2>1
  <2>3. CountsChange(jb, tr, hd, jb, tr2, hd, q, 0, 0, 0)
    BY <1>4, <1>7, <1>9, <2>1, <2>2 DEF CountsChange
  <2> QED BY <1>2, <1>7, <2>3, CountsStep
<1>11. SilentOK(n, jb, tr2, tk, hd, st)
  BY <1>7, <1>9 DEF SilentOK
<1>12. NodeOK(n, lg, jb, tr2, tk, hd, st)
  BY <1>2, <1>9, <1>10, <1>11 DEF NodeOK
<1> QED BY <1>5, <1>8, <1>12, NodeChange

\* Thread t of node n has a copy of q at hand.
LEMMA AtHand ==
    ASSUME PacketInv, NEW n \in Here, NEW t \in net.threads, job[n][t] # Idle,
           NEW q, q = PacketOf(job[n][t].f)
    PROVE  /\ job[n][t] \in Job /\ job[n][t].f \in GoodFrame /\ q \in Packet
           /\ q = <<job[n][t].f.src, job[n][t].f.num>>
           /\ job[n][t].f.src \in Here /\ job[n][t].f.num \in Nat
           /\ job[n][t].f.ttl \in 0..K
           /\ job[n][t].f.to = Destination(q)
<1>1. job[n] \in [net.threads -> Job]
  BY NodeValues DEF NodeOK
<1>2. job[n][t] \in Job
  BY <1>1
<1>3. job[n][t].f \in GoodFrame
  BY <1>2, JobIs
<1> QED BY <1>2, <1>3, GoodFrameIs

\* The thread is done with it: the trap has counted it, has it now, or neither.
LEMMA Finishes ==
    ASSUME PacketInv, NEW n \in Here, NEW t \in net.threads, job[n][t] # Idle,
           NEW q, q = PacketOf(job[n][t].f),
           NEW tr2 \in Seq(Entry), NEW st2 \in SUBSET Packet, sent[n] \subseteq st2,
           Packets(trap[n]) \subseteq Packets(tr2),
           \A e \in Range(tr2) :
              \/ \E d \in Range(trap[n]) :
                    /\ e.f = d.f
                    /\ e.cnt = d.cnt \/ (PacketOf(d.f) = q /\ e.cnt = d.cnt + 1)
              \/ PacketOf(e.f) = q /\ e.cnt <= 1,
           net.g \in {3, 14} => q \in st2 \/ q \in Packets(tr2) \/ Destination(q) = n
    PROVE  NodeOK(n, log[n], [job[n] EXCEPT ![t] = Idle], tr2, taken[n], heard[n], st2)
<1> DEFINE lg == log[n]
           jb == job[n]
           jb2 == [job[n] EXCEPT ![t] = Idle]
           tr == trap[n]
           tk == taken[n]
           hd == heard[n]
           st == sent[n]
<1>1. /\ lg \in [Here -> Seq(Seq(Nat))] /\ jb \in [net.threads -> Job]
      /\ tr \in Seq(Entry) /\ tk \in Seq(Packet)
      /\ hd \in [Packet -> Nat] /\ st \in SUBSET Packet
      /\ \A s \in Here : RingsOK(lg[s], tk, s)
      /\ CountsOK(jb, tr, hd) /\ SilentOK(n, jb, tr, tk, hd, st) /\ net \in Scenarios
  BY NodeValues DEF NodeOK
<1>2. q \in Packet
  BY AtHand
<1>3. /\ Cardinality(Handling(jb2, q)) + 1 = Cardinality(Handling(jb, q))
      /\ \A p \in Packet \ {q} : Handling(jb2, p) = Handling(jb, p)
  BY <1>1, HandlingEnds
<1>4. Cardinality(Handling(jb2, q)) \in Nat /\ hd[q] \in Nat
  BY <1>1, <1>2, HandlingType
<1>5. jb2 \in [net.threads -> Job]
  <2>1. Idle \in Job
    BY DEF Job
  <2> QED BY <1>1, <2>1
<1> HIDE DEF lg, jb, jb2, hd
<1>6. Cardinality(Handling(jb2, q)) = Cardinality(Handling(jb, q)) + (-1)
      /\ hd[q] = hd[q] + 0
  BY <1>3, <1>4
<1>7. \A e \in Range(tr2) :
         \/ \E d \in Range(tr) :
               /\ e.f = d.f
               /\ e.cnt = d.cnt \/ (PacketOf(d.f) = q /\ e.cnt = d.cnt + 1)
         \/ PacketOf(e.f) = q /\ e.cnt + (-1) <= 0
  <2> SUFFICES ASSUME NEW e \in Range(tr2), PacketOf(e.f) = q /\ e.cnt <= 1
               PROVE  e.cnt + (-1) <= 0
    OBVIOUS
  <2>1. e \in Entry
    BY DEF Range
  <2>2. e.cnt \in Nat
    BY <2>1 DEF Entry
  <2> QED BY <2>2
<1> HIDE DEF tr, tk, st
<1>8. CountsChange(jb, tr, hd, jb2, tr2, hd, q, -1, 0, 1)
  BY <1>1, <1>2, <1>3, <1>6, <1>7 DEF CountsChange
<1>9. CountsOK(jb2, tr2, hd)
  BY <1>1, <1>8, CountsStep
<1>10. SilentChange(n, jb, tr, tk, hd, jb2, tr2, tk, hd, st, st2, q)
  BY <1>1, <1>2, <1>3 DEF SilentChange, tr, st
<1>11. SilentOK(n, jb2, tr2, tk, hd, st2)
  BY <1>1, <1>10, SilentStep
<1>12. NodeOK(n, lg, jb2, tr2, tk, hd, st2)
  BY <1>1, <1>5, <1>9, <1>11 DEF NodeOK
<1> QED BY <1>12 DEF lg, jb2, tk, hd

\* The thread keeps it for its next step.
LEMMA GoesOn ==
    ASSUME PacketInv, NEW n \in Here, NEW t \in net.threads, job[n][t] # Idle,
           NEW x \in Job, x # Idle, PacketOf(x.f) = PacketOf(job[n][t].f),
           NEW q, q = PacketOf(job[n][t].f),
           NEW lg2 \in [Here -> Seq(Seq(Nat))], NEW tk2 \in Seq(Packet),
           \A s \in Here : RingsOK(lg2[s], tk2, s),
           Range(tk2) \subseteq Range(taken[n]) \cup {q},
           NEW st2 \in SUBSET Packet, sent[n] \subseteq st2
    PROVE  NodeOK(n, lg2, [job[n] EXCEPT ![t] = x], trap[n], tk2, heard[n], st2)
<1> DEFINE jb == job[n]
           jb2 == [job[n] EXCEPT ![t] = x]
           tr == trap[n]
           tk == taken[n]
           hd == heard[n]
           st == sent[n]
<1>1. /\ jb \in [net.threads -> Job] /\ tr \in Seq(Entry) /\ tk \in Seq(Packet)
      /\ hd \in [Packet -> Nat] /\ st \in SUBSET Packet
      /\ CountsOK(jb, tr, hd) /\ SilentOK(n, jb, tr, tk, hd, st) /\ net \in Scenarios
  BY NodeValues DEF NodeOK
<1>2. q \in Packet
  BY AtHand
<1>3. \A p : Handling(jb2, p) = Handling(jb, p)
  BY <1>1, HandlingGoesOn
<1>4. Handling(jb2, q) # {} /\ jb2 \in [net.threads -> Job]
  BY <1>1 DEF Handling
<1> HIDE DEF jb, jb2, hd, tr
<1>5. CountsOK(jb2, tr, hd)
  BY <1>1, <1>3 DEF CountsOK
<1>6. \A p \in Packet : hd[p] <= hd[p]
  BY <1>1
<1> HIDE DEF tk, st
<1>7. SilentChange(n, jb, tr, tk, hd, jb2, tr, tk2, hd, st, st2, q)
  BY <1>1, <1>2, <1>3, <1>4, <1>6 DEF SilentChange, tk, st
<1>8. SilentOK(n, jb2, tr, tk2, hd, st2)
  BY <1>1, <1>7, SilentStep
<1>9. NodeOK(n, lg2, jb2, tr, tk2, hd, st2)
  BY <1>1, <1>4, <1>5, <1>8 DEF NodeOK
<1> QED BY <1>9 DEF jb2, tr, hd

\* A packet is taken and its number enters the log.
LEMMA LogTypes ==
    ASSUME NEW lg \in [Here -> Seq(Seq(Nat))], NEW s \in Here,
           NEW rings \in Seq(Seq(Nat)), NEW tk, NEW tk2,
           \A x \in Here \ {s} : RingsOK(lg[x], tk2, x),
           RingsOK(rings, tk2, s)
    PROVE  /\ [lg EXCEPT ![s] = rings] \in [Here -> Seq(Seq(Nat))]
           /\ \A x \in Here : RingsOK([lg EXCEPT ![s] = rings][x], tk2, x)
OBVIOUS

LEMMA TakenTypes ==
    ASSUME NEW tk \in Seq(Packet), NEW q \in Packet
    PROVE  /\ Append(tk, q) \in Seq(Packet)
           /\ Range(Append(tk, q)) = Range(tk) \cup {q}
<1> DEFINE tk2 == Append(tk, q)
<1>1. /\ tk2 \in Seq(Packet) /\ Len(tk) \in Nat /\ DOMAIN tk = 1..Len(tk)
      /\ DOMAIN tk2 = 1..Len(tk) + 1 /\ tk2[Len(tk) + 1] = q
      /\ \A k \in 1..Len(tk) : tk2[k] = tk[k]
  OBVIOUS
<1> HIDE DEF tk2
<1>2. DOMAIN tk2 = DOMAIN tk \cup {Len(tk) + 1}
  BY <1>1
<1>3. Range(tk2) = Range(tk) \cup {q}
  BY <1>1, <1>2 DEF Range
<1> QED BY <1>1, <1>3 DEF tk2

LEMMA AddRingStep ==
    ASSUME PacketInv, net' = net, NEW n \in Here, NEW t \in net.threads, AddRing(n, t)
    PROVE  PacketInv'
<1> DEFINE f == job[n][t].f
           q == PacketOf(f)
           x == [job[n][t] EXCEPT !.step = "pass"]
           lg == log[n]
           s == f.src
           rings == <<<<f.num>>>> \o lg[s]
           lg2 == [lg EXCEPT ![s] = rings]
           tk == taken[n]
           tk2 == Append(tk, q)
           jb2 == [job[n] EXCEPT ![t] = x]
<1>1. /\ job[n][t].step = "add"
      /\ log' = [log EXCEPT ![n][s] = <<<<f.num>>>> \o @]
      /\ job' = [job EXCEPT ![n][t].step = "pass"]
      /\ taken' = [taken EXCEPT ![n] = Append(@, q)]
      /\ UNCHANGED <<seq, air, trap, heard, sent>>
  BY DEF AddRing
<1>2. job[n][t] # Idle
  BY <1>1 DEF Idle
<1>3. /\ job[n][t] \in Job /\ f \in GoodFrame /\ q \in Packet
      /\ q = <<s, f.num>> /\ s \in Here /\ f.num \in Nat
  BY <1>2, AtHand
<1>4. q[1] = s /\ q[2] = f.num
  BY <1>3
<1>5. x \in Job /\ x # Idle /\ PacketOf(x.f) = q
  <2>1. job[n][t] \in [step : {"add", "pass"}, f : GoodFrame]
    BY <1>1, <1>3, AddOrPass
  <2>2. x \in [step : {"add", "pass"}, f : GoodFrame] /\ x.step = "pass" /\ x.f = f
    BY <2>1
  <2> HIDE DEF x
  <2>3. x # Idle
    BY <2>2 DEF Idle
  <2> QED BY <2>2, <2>3 DEF Job
<1>6. /\ net \in Scenarios /\ lg \in [Here -> Seq(Seq(Nat))] /\ tk \in Seq(Packet)
      /\ \A y \in Here : RingsOK(lg[y], tk, y)
      /\ job[n] \in [net.threads -> Job] /\ sent[n] \in SUBSET Packet
  BY NodeValues DEF NodeOK
<1>7. NodeBecomes(n, lg2, jb2, trap[n], tk2, heard[n], sent[n])
  <2>1. log' = [log EXCEPT ![n] = lg2]
    BY <1>1
  <2>2. job' = [job EXCEPT ![n] = jb2]
    BY <1>1
  <2> QED BY <1>1, <2>1, <2>2, SameValues DEF NodeBecomes
<1> HIDE DEF f, q, x, lg, s
<1>8. rings \in Seq(Seq(Nat)) /\ RingsOK(rings, tk2, s)
  <2>1. lg[s] \in Seq(Seq(Nat)) /\ RingsOK(lg[s], tk, q[1])
    BY <1>3, <1>4, <1>6
  <2>2. RingsOK(<<<<q[2]>>>> \o lg[s], tk2, q[1])
    BY <1>3, <1>6, <2>1, TakeIntoNewRing
  <2>3. <<<<f.num>>>> \in Seq(Seq(Nat))
    BY <1>3
  <2>4. rings \in Seq(Seq(Nat))
    BY <2>1, <2>3, ConcatProperties
  <2> QED BY <1>4, <2>2, <2>4
<1>9. \A y \in Here \ {s} : RingsOK(lg[y], tk2, y)
  BY <1>3, <1>4, <1>6, OtherSource
<1>10. tk2 \in Seq(Packet) /\ Range(tk2) \subseteq Range(tk) \cup {q}
  BY <1>3, <1>6, TakenTypes
<1> HIDE DEF rings, tk2, tk
<1>11. lg2 \in [Here -> Seq(Seq(Nat))] /\ \A y \in Here : RingsOK(lg2[y], tk2, y)
  BY <1>3, <1>6, <1>8, <1>9, LogTypes
<1> HIDE DEF lg2
<1>12. NodeOK(n, lg2, jb2, trap[n], tk2, heard[n], sent[n])
  BY <1>2, <1>5, <1>6, <1>10, <1>11, GoesOn DEF q, f, tk
<1>13. SeqAndAir'
  BY <1>1, SameValues, SameFrames DEF SeqAndAir
<1> HIDE DEF jb2
<1> QED BY <1>7, <1>12, <1>13, NodeChange

LEMMA AddTrapStep ==
    ASSUME PacketInv, net' = net, NEW n \in Here, NEW t \in net.threads, AddTrap(n, t)
    PROVE  PacketInv'
<1> DEFINE f == job[n][t].f
           q == PacketOf(f)
           e == Trapped(f, job[n][t].fwd, 1)
           tr == trap[n]
           tr2 == <<e>> \o tr
           jb2 == [job[n] EXCEPT ![t] = Idle]
<1>1. /\ job[n][t].step = "trap"
      /\ trap' = [trap EXCEPT ![n] = <<e>> \o @]
      /\ job' = [job EXCEPT ![n][t] = Idle]
      /\ UNCHANGED <<seq, air, log, taken, heard, sent>>
  BY DEF AddTrap
<1>2. job[n][t] # Idle
  BY <1>1 DEF Idle
<1>3. job[n][t] \in Job /\ f \in GoodFrame /\ q \in Packet
  BY <1>2, AtHand
<1>4. e \in Entry /\ PacketOf(e.f) = q /\ e.cnt = 1
  <2>1. job[n][t].fwd \in BOOLEAN
    BY <1>1, <1>3, JobIs
  <2> QED BY <1>3, <2>1 DEF Trapped, Entry
<1>5. tr \in Seq(Entry) /\ sent[n] \in SUBSET Packet
  BY NodeValues DEF NodeOK
<1>6. NodeBecomes(n, log[n], jb2, tr2, taken[n], heard[n], sent[n])
  BY <1>1, SameValues DEF NodeBecomes
<1> HIDE DEF e, tr
<1>7. tr2 \in Seq(Entry) /\ Range(tr2) = Range(tr) \cup {e}
  BY <1>4, <1>5, PrefixIs
<1> HIDE DEF tr2
<1>8. Packets(tr) \subseteq Packets(tr2) /\ q \in Packets(tr2)
  BY <1>4, <1>7 DEF Packets
<1>9. \A d \in Range(tr2) :
        \/ \E b \in Range(tr) :
              /\ d.f = b.f
              /\ d.cnt = b.cnt \/ (PacketOf(b.f) = q /\ d.cnt = b.cnt + 1)
        \/ PacketOf(d.f) = q /\ d.cnt <= 1
  BY <1>4, <1>7
<1> HIDE DEF q, f
<1>10. NodeOK(n, log[n], jb2, tr2, taken[n], heard[n], sent[n])
  BY <1>2, <1>5, <1>7, <1>8, <1>9, Finishes DEF tr, q, f
<1>11. SeqAndAir'
  BY <1>1, SameValues, SameFrames DEF SeqAndAir
<1> HIDE DEF jb2
<1> QED BY <1>6, <1>10, <1>11, NodeChange

LEMMA PassOnStep ==
    ASSUME PacketInv, net' = net, NEW n \in Here, NEW t \in net.threads, PassOn(n, t)
    PROVE  PacketInv'
<1> DEFINE f == job[n][t].f
           q == PacketOf(f)
           tr == trap[n]
           jb == job[n]
<1>1. /\ job[n][t].step = "pass" /\ UNCHANGED <<seq, log, taken, heard>>
      /\ \/ f.to = n /\ NoForward /\ Finish(n, t)
         \/ \E ttl \in {f.ttl - 1} : f.ttl > 0 /\ Forward(n, f, ttl) /\ Finish(n, t)
         \/ \E forwards \in BOOLEAN :
               /\ \/ forwards /\ Forward(n, f, 0)
                  \/ ~forwards /\ NoForward
               /\ IF net.g \in {10} \cup IF forwards THEN {} ELSE {3, 6, 7, 14}
                  THEN Trap(n, t, forwards) ELSE Finish(n, t)
  BY DEF PassOn
<1>2. job[n][t] # Idle
  BY <1>1 DEF Idle
<1>3. /\ job[n][t] \in Job /\ f \in GoodFrame /\ q \in Packet
      /\ f.ttl \in 0..K /\ f.to = Destination(q) /\ K \in Nat
  BY <1>2, AtHand, GossipAssumption
<1>4. /\ tr \in Seq(Entry) /\ sent[n] \in SUBSET Packet
      /\ log[n] \in [Here -> Seq(Seq(Nat))] /\ taken[n] \in Seq(Packet)
      /\ \A s \in Here : RingsOK(log[n][s], taken[n], s)
  BY NodeValues DEF NodeOK
<1> DEFINE Forwarded == /\ DOMAIN air' \subseteq GoodFrame
                        /\ sent' = [sent EXCEPT ![n] = sent[n] \cup {q}]
                        /\ sent[n] \cup {q} \in SUBSET Packet
           Silent == UNCHANGED <<air, sent>>
<1>5. \A ttl \in 0..K : Forward(n, f, ttl) => Forwarded
  BY <1>3, ForwardTypes
<1>6. NoForward => Silent
  BY DEF NoForward
<1>7. \/ Finish(n, t) /\ (Forwarded \/ (Silent /\ (net.g \in {3, 14} => Destination(q) = n)))
      \/ \E forwards \in BOOLEAN : Trap(n, t, forwards) /\ (Forwarded \/ Silent)
  <2> HIDE DEF f, q, Forwarded, Silent
  <2>1. CASE f.to = n /\ NoForward /\ Finish(n, t)
    BY <1>3, <1>6, <2>1
  <2>2. CASE \E ttl \in {f.ttl - 1} : f.ttl > 0 /\ Forward(n, f, ttl) /\ Finish(n, t)
    <3>1. f.ttl - 1 \in 0..K
      BY <1>3, <2>2
    <3> QED BY <1>5, <2>2, <3>1
  <2>3. ASSUME NEW forwards \in BOOLEAN,
               \/ forwards /\ Forward(n, f, 0)
               \/ ~forwards /\ NoForward,
               IF net.g \in {10} \cup IF forwards THEN {} ELSE {3, 6, 7, 14}
               THEN Trap(n, t, forwards) ELSE Finish(n, t)
        PROVE  <1>7
    <3>1. CASE forwards /\ Forward(n, f, 0)
      <4>1. Forwarded
        BY <1>3, <1>5, <3>1
      <4> QED BY <2>3, <4>1
    <3>2. CASE ~forwards /\ NoForward
      <4>1. Silent
        BY <1>6, <3>2
      <4>2. net.g \in {3, 14} => Trap(n, t, forwards)
        BY <2>3, <3>2
      <4> QED BY <2>3, <4>1, <4>2
    <3> QED BY <2>3, <3>1, <3>2
  <2> QED BY <1>1, <2>1, <2>2, <2>3 DEF f, q
<1>8. PICK st2 \in SUBSET Packet :
         /\ sent[n] \subseteq st2 /\ sent' = [sent EXCEPT ![n] = st2]
         /\ DOMAIN air' \subseteq GoodFrame
         /\ \/ Finish(n, t) /\ (net.g \in {3, 14} => q \in st2 \/ Destination(q) = n)
            \/ \E forwards \in BOOLEAN : Trap(n, t, forwards)
  <2>1. CASE Forwarded
    <3>1. sent[n] \subseteq sent[n] \cup {q} /\ q \in sent[n] \cup {q}
      OBVIOUS
    <3> HIDE DEF q
    <3> QED BY <1>7, <2>1, <3>1
  <2>2. CASE Silent
    <3>1. sent' = [sent EXCEPT ![n] = sent[n]] /\ DOMAIN air' \subseteq GoodFrame
      BY <2>2, SameValues DEF SeqAndAir
    <3>2. CASE Finish(n, t) /\ Forwarded
      BY <2>1, <3>2
    <3>3. CASE ~(Finish(n, t) /\ Forwarded)
      <4> HIDE DEF q, Forwarded, Silent
      <4> QED BY <1>4, <1>7, <3>1, <3>3
    <3> QED BY <3>2, <3>3
  <2> HIDE DEF Forwarded, Silent
  <2> QED BY <1>7, <2>1, <2>2
<1>9. SeqAndAir'
  BY <1>1, <1>8, SameValues, SameFrames DEF SeqAndAir
<1> DEFINE jb2 == [jb EXCEPT ![t] = Idle]
<1>10. CASE Finish(n, t) /\ (net.g \in {3, 14} => q \in st2 \/ Destination(q) = n)
  <2>1. NodeBecomes(n, log[n], jb2, tr, taken[n], heard[n], st2)
    BY <1>1, <1>8, <1>10, SameValues DEF NodeBecomes, Finish
  <2> HIDE DEF q, f, tr
  <2>2. NodeOK(n, log[n], jb2, tr, taken[n], heard[n], st2)
    BY <1>2, <1>4, <1>8, <1>10, Finishes DEF q, f, tr
  <2> HIDE DEF jb2
  <2> QED BY <1>9, <2>1, <2>2, NodeChange
<1>11. ASSUME NEW forwards \in BOOLEAN, Trap(n, t, forwards) PROVE PacketInv'
  <2>1. CASE IndexIn(trap[n], f) # {}
    <3> DEFINE tr2 == Counted(tr, f)
    <3>1. trap' = [trap EXCEPT ![n] = Counted(@, f)] /\ job' = [job EXCEPT ![n][t] = Idle]
      BY <1>11, <2>1 DEF Trap
    <3>2. NodeBecomes(n, log[n], jb2, tr2, taken[n], heard[n], st2)
      BY <1>1, <1>8, <3>1, SameValues DEF NodeBecomes
    <3>3. q \in Packets(tr)
      BY <2>1 DEF IndexIn, Packets, Range
    <3> HIDE DEF tr
    <3>4. tr2 \in Seq(Entry) /\ CountsOneMore(tr, tr2, q)
      BY <1>4, CountedIs
    <3> HIDE DEF q, f, tr2
    <3>5. /\ Packets(tr) \subseteq Packets(tr2) /\ q \in Packets(tr2)
          /\ \A e \in Range(tr2) : \E d \in Range(tr) :
                /\ e.f = d.f
                /\ e.cnt = d.cnt \/ (PacketOf(d.f) = q /\ e.cnt = d.cnt + 1)
      BY <3>3, <3>4 DEF CountsOneMore
    <3>6. NodeOK(n, log[n], jb2, tr2, taken[n], heard[n], st2)
      BY <1>2, <1>8, <3>4, <3>5, Finishes DEF q, f, tr
    <3> HIDE DEF jb2
    <3> QED BY <1>9, <3>2, <3>6, NodeChange
  <2>2. CASE IndexIn(trap[n], f) = {}
    <3> DEFINE x == [step |-> "trap", f |-> f, fwd |-> forwards]
               jb3 == [jb EXCEPT ![t] = x]
    <3>1. job' = [job EXCEPT ![n][t] = x] /\ UNCHANGED trap
      BY <1>11, <2>2 DEF Trap
    <3>2. NodeBecomes(n, log[n], jb3, tr, taken[n], heard[n], st2)
      BY <1>1, <1>8, <3>1, SameValues DEF NodeBecomes
    <3>3. x \in Job /\ x # Idle /\ PacketOf(x.f) = q
      BY <1>3 DEF Job, Idle
    <3> HIDE DEF x, q, f
    <3>4. NodeOK(n, log[n], jb3, tr, taken[n], heard[n], st2)
      BY <1>2, <1>4, <1>8, <3>3, GoesOn DEF q, f
    <3> HIDE DEF jb3, tr
    <3> QED BY <1>9, <3>2, <3>4, NodeChange
  <2> QED BY <2>1, <2>2
<1> QED BY <1>8, <1>10, <1>11

\* An entry that is marked as forwarded keeps its packet and its count.
LEMMA MarkedIs ==
    ASSUME NEW tr \in Seq(Entry), NEW i \in DOMAIN tr
    PROVE  LET tr2 == [tr EXCEPT ![i].fwd = TRUE] IN
           /\ tr2 \in Seq(Entry) /\ Packets(tr) \subseteq Packets(tr2)
           /\ \A e \in Range(tr2) : \E d \in Range(tr) : e.f = d.f /\ e.cnt = d.cnt
<1> DEFINE e2 == [tr[i] EXCEPT !.fwd = TRUE]
           tr2 == [tr EXCEPT ![i].fwd = TRUE]
<1>1. /\ tr[i] \in Entry /\ Len(tr) \in Nat /\ DOMAIN tr = 1..Len(tr)
  OBVIOUS
<1>2. e2 \in Entry /\ e2.f = tr[i].f /\ e2.cnt = tr[i].cnt
  BY <1>1 DEF Entry
<1>3. tr2 = [tr EXCEPT ![i] = e2]
  OBVIOUS
<1> HIDE DEF e2, tr2
<1>4. tr2 \in Seq(Entry) /\ DOMAIN tr2 = DOMAIN tr
      /\ tr2[i] = e2 /\ \A j \in DOMAIN tr : j # i => tr2[j] = tr[j]
  BY <1>1, <1>2, <1>3
<1>5. \A j \in DOMAIN tr : tr2[j].f = tr[j].f /\ tr2[j].cnt = tr[j].cnt
  BY <1>2, <1>4
<1>6. Packets(tr) \subseteq Packets(tr2)
  BY <1>4, <1>5 DEF Packets, Range
<1>7. \A e \in Range(tr2) : \E d \in Range(tr) : e.f = d.f /\ e.cnt = d.cnt
  BY <1>4, <1>5 DEF Range
<1> QED BY <1>4, <1>6, <1>7 DEF tr2

LEMMA TrapTimerStep ==
    ASSUME PacketInv, net' = net, NEW n \in Here, NEW i \in DOMAIN trap[n], TrapTimer(n, i)
    PROVE  PacketInv'
<1> DEFINE lg == log[n]
           jb == job[n]
           tr == trap[n]
           tk == taken[n]
           hd == heard[n]
           st == sent[n]
           e == tr[i]
           q == PacketOf(e.f)
           marked == net.g = 10 /\ Few(e) /\ ~e.fwd
           tr2 == IF marked THEN [tr EXCEPT ![i].fwd = TRUE]
                  ELSE SubSeq(tr, 1, i - 1) \o SubSeq(tr, i + 1, Len(tr))
<1>1. /\ \/ Few(e) /\ Forward(n, e.f, 0)
         \/ NoForward /\ (~Few(e) \/ net.g = 6 \/ (net.g = 7 /\ ~net.sure))
      /\ trap' = [trap EXCEPT ![n] = IF marked THEN [@ EXCEPT ![i].fwd = TRUE]
                                     ELSE SubSeq(@, 1, i - 1) \o SubSeq(@, i + 1, Len(@))]
      /\ UNCHANGED <<seq, log, job, taken, heard>>
  BY DEF TrapTimer
<1>2. /\ net \in Scenarios /\ NodeOK(n, lg, jb, tr, tk, hd, st)
      /\ tr \in Seq(Entry) /\ tk \in Seq(Packet)
      /\ hd \in [Packet -> Nat] /\ st \in SUBSET Packet
      /\ CountsOK(jb, tr, hd) /\ SilentOK(n, jb, tr, tk, hd, st)
  BY NodeValues DEF NodeOK
<1>3. e \in Entry /\ e \in Range(tr)
  BY <1>2 DEF Range
<1>4. e.f \in GoodFrame /\ q \in Packet /\ e.cnt \in Nat /\ {K, M} \subseteq Nat
  BY <1>3, GoodFrameIs, GossipAssumption DEF Entry
<1>5. ~Few(e) /\ net.g \in {3, 14} => hd[q] > M
  <2>1. e.cnt + Cardinality(Handling(jb, q)) <= hd[q] /\ Cardinality(Handling(jb, q)) \in Nat
        /\ hd[q] \in Nat
    BY <1>2, <1>3, <1>4, HandlingType DEF CountsOK
  <2> HIDE DEF q, hd, e
  <2> SUFFICES ASSUME ~Few(e), net.g \in {3, 14} PROVE hd[q] > M
    OBVIOUS
  <2>2. ~(e.cnt - 1 < M)
    BY DEF Few
  <2> QED BY <1>4, <2>1, <2>2
<1>6. PICK st2 \in SUBSET Packet :
         /\ st \subseteq st2 /\ sent' = [sent EXCEPT ![n] = st2]
         /\ DOMAIN air' \subseteq GoodFrame
         /\ net.g \in {3, 14} => q \in st2 \/ hd[q] > M
  <2>1. CASE Few(e) /\ Forward(n, e.f, 0)
    <3>0. 0 \in 0..K
      BY <1>4
    <3>1. /\ DOMAIN air' \subseteq GoodFrame /\ sent' = [sent EXCEPT ![n] = st \cup {q}]
          /\ st \cup {q} \in SUBSET Packet
      BY <1>4, <2>1, <3>0, ForwardTypes
    <3>2. st \subseteq st \cup {q} /\ q \in st \cup {q}
      OBVIOUS
    <3> HIDE DEF st, q, hd
    <3> QED BY <3>1, <3>2
  <2>2. CASE NoForward /\ (~Few(e) \/ net.g = 6 \/ (net.g = 7 /\ ~net.sure))
    <3>1. sent' = [sent EXCEPT ![n] = st] /\ DOMAIN air' \subseteq GoodFrame
      BY <2>2, SameValues DEF SeqAndAir, NoForward
    <3>2. net.g \in {3, 14} => hd[q] > M
      BY <1>5, <2>2
    <3> HIDE DEF st, q, hd
    <3> QED BY <1>2, <3>1, <3>2
  <2> QED BY <1>1, <2>1, <2>2
<1>7. NodeBecomes(n, lg, jb, tr2, tk, hd, st2)
  <2>1. trap' = [trap EXCEPT ![n] = tr2]
    BY <1>1
  <2> HIDE DEF tr2
  <2> QED BY <1>1, <1>6, <2>1, SameValues DEF NodeBecomes
<1> HIDE DEF lg, jb, tr, tk, hd, st
<1>8. /\ tr2 \in Seq(Entry) /\ Packets(tr) \ {q} \subseteq Packets(tr2)
      /\ \A x \in Range(tr2) : \E d \in Range(tr) : x.f = d.f /\ x.cnt = d.cnt
  <2> HIDE DEF q
  <2>0. i \in DOMAIN tr
    BY DEF tr
  <2>1. CASE marked
    <3>1. tr2 = [tr EXCEPT ![i].fwd = TRUE]
      BY <2>1
    <3> HIDE DEF tr2
    <3> QED BY <1>2, <2>0, <3>1, MarkedIs
  <2>2. CASE ~marked
    <3>1. tr2 = SubSeq(tr, 1, i - 1) \o SubSeq(tr, i + 1, Len(tr))
      BY <2>2
    <3> HIDE DEF tr2, marked
    <3>2. /\ tr2 \in Seq(Entry) /\ Range(tr2) \subseteq Range(tr)
          /\ Range(tr) \subseteq Range(tr2) \cup {e}
      BY <1>2, <2>0, <3>1, RemovedIs
    <3>3. Packets(tr) \ {q} \subseteq Packets(tr2)
      BY <3>2 DEF Packets, q
    <3> QED BY <3>2, <3>3
  <2> QED BY <2>1, <2>2
<1> HIDE DEF tr2, q
<1>9. CountsOK(jb, tr2, hd)
  BY <1>2, <1>8 DEF CountsOK
<1>10. SilentOK(n, jb, tr2, tk, hd, st2)
  <2>1. \A p \in Packet : hd[p] <= hd[p]
    BY <1>2
  <2>2. SilentChange(n, jb, tr, tk, hd, jb, tr2, tk, hd, st, st2, q)
    BY <1>2, <1>4, <1>6, <1>8, <2>1 DEF SilentChange
  <2> QED BY <1>2, <2>2, SilentStep
<1>11. NodeOK(n, lg, jb, tr2, tk, hd, st2)
  BY <1>2, <1>8, <1>9, <1>10 DEF NodeOK
<1>12. SeqAndAir'
  BY <1>1, <1>6, SameValues, SameFrames DEF SeqAndAir
<1> QED BY <1>7, <1>11, <1>12, NodeChange

LEMMA HeardMore ==
    ASSUME NEW hd \in [Packet -> Nat], NEW q \in Packet
    PROVE  LET hd2 == [hd EXCEPT ![q] = @ + 1] IN
           /\ hd2 \in [Packet -> Nat] /\ hd2[q] = hd[q] + 1
           /\ \A p \in Packet \ {q} : hd2[p] = hd[p]
           /\ \A p \in Packet : hd[p] <= hd2[p]
<1> DEFINE hd2 == [hd EXCEPT ![q] = @ + 1]
<1>1. hd2 \in [Packet -> Nat] /\ hd2[q] = hd[q] + 1 /\ hd[q] \in Nat
      /\ \A p \in Packet \ {q} : hd2[p] = hd[p]
  OBVIOUS
<1> HIDE DEF hd2
<1>2. ASSUME NEW p \in Packet PROVE hd[p] <= hd2[p]
  <2>1. hd[p] \in Nat /\ hd2[p] \in Nat
    BY <1>1
  <2> QED BY <1>1, <2>1
<1> QED BY <1>1, <1>2 DEF hd2

\* A copy of q is heard: its thread goes on with it.
LEMMA ReceiveStarts ==
    ASSUME PacketInv, NEW n \in Here, NEW t \in net.threads, job[n][t] = Idle,
           NEW x \in Job, x # Idle, NEW q \in Packet, q = PacketOf(x.f),
           NEW lg2 \in [Here -> Seq(Seq(Nat))], NEW tk2 \in Seq(Packet),
           \A s \in Here : RingsOK(lg2[s], tk2, s),
           Range(tk2) \subseteq Range(taken[n]) \cup {q}
    PROVE  NodeOK(n, lg2, [job[n] EXCEPT ![t] = x], trap[n], tk2,
                  [heard[n] EXCEPT ![q] = @ + 1], sent[n])
<1> DEFINE jb == job[n]
           jb2 == [jb EXCEPT ![t] = x]
           tr == trap[n]
           tk == taken[n]
           hd == heard[n]
           hd2 == [hd EXCEPT ![q] = @ + 1]
           st == sent[n]
<1>1. /\ jb \in [net.threads -> Job] /\ tr \in Seq(Entry) /\ tk \in Seq(Packet)
      /\ hd \in [Packet -> Nat] /\ st \in SUBSET Packet
      /\ CountsOK(jb, tr, hd) /\ SilentOK(n, jb, tr, tk, hd, st) /\ net \in Scenarios
  BY NodeValues DEF NodeOK
<1>2. /\ t \in Handling(jb2, q)
      /\ Cardinality(Handling(jb2, q)) = Cardinality(Handling(jb, q)) + 1
      /\ \A p \in Packet \ {q} : Handling(jb2, p) = Handling(jb, p)
  <2>1. jb[t] = Idle
    OBVIOUS
  <2> HIDE DEF jb
  <2>2. /\ t \in Handling(jb2, q)
        /\ Cardinality(Handling(jb2, q)) = Cardinality(Handling(jb, q)) + 1
    BY <1>1, <2>1, HandlingStarts
  <2>3. ASSUME NEW p \in Packet \ {q} PROVE Handling(jb2, p) = Handling(jb, p)
    <3>1. p # PacketOf(x.f)
      OBVIOUS
    <3>2. jb2[t] = x /\ \A u \in net.threads \ {t} : jb2[u] = jb[u]
      BY <1>1
    <3> HIDE DEF jb2
    <3> QED BY <2>1, <3>1, <3>2 DEF Handling
  <2> QED BY <2>2, <2>3
<1>3. jb2 \in [net.threads -> Job]
  BY <1>1
<1> HIDE DEF jb, jb2, tr, tk, hd, st
<1>4. /\ hd2 \in [Packet -> Nat] /\ hd2[q] = hd[q] + 1
      /\ \A p \in Packet \ {q} : hd2[p] = hd[p]
      /\ \A p \in Packet : hd[p] <= hd2[p]
  BY <1>1, HeardMore
<1> HIDE DEF hd2
<1>5. CountsOK(jb2, tr, hd2)
  <2>1. CountsChange(jb, tr, hd, jb2, tr, hd2, q, 1, 1, 0)
    BY <1>1, <1>2, <1>4 DEF CountsChange
  <2> QED BY <1>1, <2>1, CountsStep
<1>6. SilentOK(n, jb2, tr, tk2, hd2, st)
  <2>1. SilentChange(n, jb, tr, tk, hd, jb2, tr, tk2, hd2, st, st, q)
    BY <1>1, <1>2, <1>4 DEF SilentChange, tk
  <2> QED BY <1>1, <2>1, SilentStep
<1>7. NodeOK(n, lg2, jb2, tr, tk2, hd2, st)
  BY <1>1, <1>3, <1>4, <1>5, <1>6 DEF NodeOK
<1> QED BY <1>7 DEF jb2, jb, tr, hd2, hd, st

LEMMA ReceiveStep ==
    ASSUME PacketInv, net' = net, NEW n \in Here, NEW t \in net.threads,
           NEW f \in BagToSet(air), Receive(n, t, f)
    PROVE  PacketInv'
<1> DEFINE q == PacketOf(f)
           s == f.src
           lg == log[n]
           jb == job[n]
           tr == trap[n]
           tk == taken[n]
           hd == heard[n]
           st == sent[n]
           rings == lg[s]
           hd2 == [hd EXCEPT ![q] = @ + 1]
<1>0. DOMAIN air \subseteq GoodFrame /\ f \in GoodFrame
  BY SameValues DEF SeqAndAir, BagToSet
<1>1. s \in Here /\ f.num \in Nat /\ q \in Packet /\ q = <<s, f.num>>
  BY <1>0, GoodFrameIs
<1>2. q[1] = s /\ q[2] = f.num
  BY <1>1
<1>3. DOMAIN air' \subseteq GoodFrame
  BY <1>0, AirShrinks DEF Receive
<1>4. job[n][t] = Idle /\ UNCHANGED <<seq, sent>>
      /\ heard' = IF f.src = n THEN heard ELSE [heard EXCEPT ![n][q] = @ + 1]
  BY DEF Receive
<1>5. CASE f.src = n /\ UNCHANGED <<log, job, trap, taken>>
  BY <1>3, <1>4, <1>5, PacketIdle
<1>6. /\ net \in Scenarios /\ lg \in [Here -> Seq(Seq(Nat))]
      /\ jb \in [net.threads -> Job] /\ tr \in Seq(Entry) /\ tk \in Seq(Packet)
      /\ hd \in [Packet -> Nat] /\ st \in SUBSET Packet
      /\ \A x \in Here : RingsOK(lg[x], tk, x)
      /\ CountsOK(jb, tr, hd) /\ SilentOK(n, jb, tr, tk, hd, st)
  BY NodeValues DEF NodeOK
<1>7. SeqAndAir'
  BY <1>3, <1>4, SameValues, SameFrames DEF SeqAndAir
<1>8. f.src # n => heard' = [heard EXCEPT ![n] = hd2]
  BY <1>4
<1>9. CASE /\ f.src # n /\ rings = <<>>
           /\ job' = [job EXCEPT ![n][t] = [step |-> "add", f |-> f]]
           /\ UNCHANGED <<log, trap, taken>>
  <2> DEFINE x == [step |-> "add", f |-> f]
             jb2 == [jb EXCEPT ![t] = x]
  <2>1. NodeBecomes(n, lg, jb2, tr, tk, hd2, st)
    <3>1. job' = [job EXCEPT ![n] = jb2]
      BY <1>9
    <3> HIDE DEF jb2, hd2
    <3> QED BY <1>4, <1>8, <1>9, <3>1, SameValues DEF NodeBecomes
  <2>2. x \in Job /\ x # Idle /\ PacketOf(x.f) = q
    BY <1>0 DEF Job, Idle
  <2> HIDE DEF x, q, lg
  <2>3. NodeOK(n, lg, jb2, tr, tk, hd2, st)
    BY <1>1, <1>4, <1>6, <2>2, ReceiveStarts
  <2> HIDE DEF jb2, hd2
  <2> QED BY <1>7, <2>1, <2>3, NodeChange
<1>10. CASE /\ f.src # n /\ trap' = [trap EXCEPT ![n] = Counted(@, f)]
            /\ UNCHANGED <<log, job, taken>>
  <2> DEFINE tr2 == Counted(tr, f)
  <2>1. NodeBecomes(n, lg, jb, tr2, tk, hd2, st)
    <3>1. trap' = [trap EXCEPT ![n] = tr2]
      BY <1>10
    <3> HIDE DEF tr2, hd2
    <3> QED BY <1>4, <1>8, <1>10, <3>1, SameValues DEF NodeBecomes
  <2>2. tr2 \in Seq(Entry) /\ CountsOneMore(tr, tr2, q)
    BY <1>6, CountedIs
  <2>3. Cardinality(Handling(jb, q)) \in Nat
    BY <1>6, HandlingType
  <2> HIDE DEF lg, jb, tr, tk, hd, st, q, tr2
  <2>4. /\ hd2 \in [Packet -> Nat] /\ hd2[q] = hd[q] + 1
        /\ \A p \in Packet \ {q} : hd2[p] = hd[p]
        /\ \A p \in Packet : hd[p] <= hd2[p]
    BY <1>1, <1>6, HeardMore
  <2> HIDE DEF hd2
  <2>5. CountsOK(jb, tr2, hd2)
    <3>1. CountsChange(jb, tr, hd, jb, tr2, hd2, q, 0, 1, 1)
      BY <1>1, <1>6, <2>2, <2>3, <2>4 DEF CountsChange, CountsOneMore
    <3> QED BY <1>6, <3>1, CountsStep
  <2>6. SilentOK(n, jb, tr2, tk, hd2, st)
    <3>1. SilentChange(n, jb, tr, tk, hd, jb, tr2, tk, hd2, st, st, q)
      BY <1>1, <1>6, <2>2, <2>4 DEF SilentChange, CountsOneMore
    <3> QED BY <1>6, <3>1, SilentStep
  <2>7. NodeOK(n, lg, jb, tr2, tk, hd2, st)
    BY <1>6, <2>2, <2>4, <2>5, <2>6 DEF NodeOK
  <2> QED BY <1>7, <2>1, <2>7, NodeChange
<1>11. CASE /\ f.src # n /\ rings # <<>> /\ ~Knows(rings[1], f.num)
            /\ log' = [log EXCEPT ![n][f.src][1] = Inserted(@, f.num)]
            /\ job' = [job EXCEPT ![n][t] = [step |-> "pass", f |-> f]]
            /\ taken' = [taken EXCEPT ![n] = Append(@, PacketOf(f))]
            /\ UNCHANGED trap
  <2> DEFINE x == [step |-> "pass", f |-> f]
             jb2 == [jb EXCEPT ![t] = x]
             rings2 == [rings EXCEPT ![1] = Inserted(@, f.num)]
             lg2 == [lg EXCEPT ![s] = rings2]
             tk2 == Append(tk, q)
  <2>1. NodeBecomes(n, lg2, jb2, tr, tk2, hd2, st)
    <3>1. log' = [log EXCEPT ![n] = lg2]
      BY <1>11
    <3>2. job' = [job EXCEPT ![n] = jb2]
      BY <1>11
    <3>3. taken' = [taken EXCEPT ![n] = tk2]
      BY <1>11
    <3> HIDE DEF lg2, jb2, tk2, hd2
    <3> QED BY <1>4, <1>8, <1>11, <3>1, <3>2, <3>3, SameValues DEF NodeBecomes
  <2>2. x \in Job /\ x # Idle /\ PacketOf(x.f) = q
    BY <1>0 DEF Job, Idle
  <2> HIDE DEF x, q, lg, s, jb, tr, hd, st
  <2>3. rings \in Seq(Seq(Nat)) /\ RingsOK(rings, tk, s)
    BY <1>1, <1>6
  <2>4. Len(rings) > 0 /\ rings[1] \in Seq(Nat) /\ ~Knows(rings[1], f.num)
    BY <1>11, <2>3 DEF s
  <2> HIDE DEF rings
  <2>5. rings2 \in Seq(Seq(Nat))
    <3> DEFINE new == Inserted(rings[1], f.num)
    <3>1. new \in Seq(Nat)
      BY <1>1, <2>4, InsertedType
    <3>2. rings2 = [rings EXCEPT ![1] = new]
      OBVIOUS
    <3> HIDE DEF new, rings2
    <3> QED BY <2>3, <2>4, <3>1, <3>2
  <2>6. RingsOK(rings2, tk2, s)
    <3>1. RingsOK([rings EXCEPT ![1] = Inserted(@, q[2])], Append(tk, q), q[1])
      BY <1>1, <1>2, <1>6, <2>3, <2>4, TakeIntoRing
    <3> QED BY <1>2, <3>1
  <2> HIDE DEF rings2
  <2>7. \A y \in Here \ {s} : RingsOK(lg[y], tk2, y)
    BY <1>1, <1>2, <1>6, OtherSource
  <2>8. tk2 \in Seq(Packet) /\ Range(tk2) \subseteq Range(tk) \cup {q}
    BY <1>1, <1>6, TakenTypes
  <2> HIDE DEF tk2, tk
  <2>9. lg2 \in [Here -> Seq(Seq(Nat))] /\ \A y \in Here : RingsOK(lg2[y], tk2, y)
    BY <1>1, <1>6, <2>5, <2>6, <2>7, LogTypes
  <2> HIDE DEF lg2
  <2>10. NodeOK(n, lg2, jb2, tr, tk2, hd2, st)
    BY <1>1, <1>4, <2>2, <2>8, <2>9, ReceiveStarts DEF jb, tr, tk, hd, st
  <2> HIDE DEF jb2, hd2
  <2> QED BY <1>7, <2>1, <2>10, NodeChange
<1> QED BY <1>5, <1>9, <1>10, <1>11 DEF Receive

LEMMA PacketNextInv == PacketInv /\ [Next]_vars => PacketInv'
<1> SUFFICES ASSUME PacketInv, [Next]_vars PROVE PacketInv'
  OBVIOUS
<1>1. net' = net
  BY DEF Next, vars
<1>2. DOMAIN air \subseteq GoodFrame
  BY DEF PacketInv, PacketTypes
<1>3. CASE UNCHANGED packetVars
  BY <1>1, <1>2, <1>3, PacketIdle DEF packetVars
<1>4. ASSUME NEW n \in Here, Send(n) PROVE PacketInv'
  BY <1>1, <1>4, SendStep
<1>5. ASSUME NEW n \in Here, NEW i \in DOMAIN trap[n], TrapTimer(n, i) PROVE PacketInv'
  BY <1>1, <1>5, TrapTimerStep
<1>6. ASSUME NEW n \in Here, NEW t \in net.threads, AddRing(n, t) PROVE PacketInv'
  BY <1>1, <1>6, AddRingStep
<1>7. ASSUME NEW n \in Here, NEW t \in net.threads, PassOn(n, t) PROVE PacketInv'
  BY <1>1, <1>7, PassOnStep
<1>8. ASSUME NEW n \in Here, NEW t \in net.threads, AddTrap(n, t) PROVE PacketInv'
  BY <1>1, <1>8, AddTrapStep
<1>9. ASSUME NEW n \in Here, NEW t \in net.threads, NEW f \in BagToSet(air),
             Receive(n, t, f)
      PROVE  PacketInv'
  BY <1>1, <1>9, ReceiveStep
<1>10. ASSUME NEW f \in BagToSet(air), LoseFrame(f) PROVE PacketInv'
  <2>1. /\ air' = air (-) SetToBag({f})
        /\ UNCHANGED <<seq, log, job, trap, taken, heard, sent>>
    BY <1>10 DEF LoseFrame
  <2>2. DOMAIN air' \subseteq GoodFrame
    BY <1>2, <2>1, AirShrinks
  <2> QED BY <1>1, <2>1, <2>2, PacketIdle
<1>11. CASE UNCHANGED vars
  BY <1>3, <1>11 DEF vars, packetVars
<1>12. CASE Next
  BY <1>3, <1>4, <1>5, <1>6, <1>7, <1>8, <1>9, <1>10, <1>12 DEF Next, PacketNext
<1> QED BY <1>11, <1>12

\* PacketInv, the inductive invariant of the packets: what the log, the threads,
\* the trap and the histories of a node say of one another.
THEOREM PacketInvariance == Spec => []PacketInv
<1>1. Init => PacketInv
  BY PacketInitInv
<1>2. PacketInv /\ [Next]_vars => PacketInv'
  BY PacketNextInv
<1> QED BY <1>1, <1>2, PTL DEF Spec

\* With any number of nodes, threads and packets and with rings of any size,
\* checkSeq takes a packet a second time only after LOG_SIZE others of its source,
\* or when two threads have each added a ring for the source.
THEOREM OnceUntilForgotten == Spec => []TakenAgainExplained
<1>1. PacketInv => TakenAgainExplained
  <2> SUFFICES ASSUME PacketInv, NEW n \in Here,
                      NEW i \in DOMAIN taken[n], NEW j \in DOMAIN taken[n],
                      i < j, taken[n][i] = taken[n][j]
               PROVE  LET src == taken[n][i][1] IN
                      \/ Len(log[n][src]) > 1
                      \/ Cardinality({k \in i + 1..j - 1 : taken[n][k][1] = src}) >= LogSize
    BY DEF TakenAgainExplained
  <2> DEFINE tk == taken[n]
             src == tk[i][1]
  <2>1. /\ tk \in Seq(Packet) /\ log[n] \in [Here -> Seq(Seq(Nat))]
        /\ \A s \in Here : RingsOK(log[n][s], tk, s)
    BY NodeValues DEF NodeOK
  <2>2. src \in Here
    <3>1. tk[i] \in Packet
      BY <2>1
    <3> QED BY <3>1, PacketIs
  <2>3. log[n][src] \in Seq(Seq(Nat)) /\ RingsOK(log[n][src], tk, src)
    BY <2>1, <2>2
  <2>4. Len(log[n][src]) \in Nat
    BY <2>3
  <2>5. CASE Len(log[n][src]) = 0
    BY <2>3, <2>5 DEF RingsOK
  <2>6. CASE Len(log[n][src]) = 1
    <3>1. Cardinality(Between(tk, i, j, src)) >= LogSize
      BY <2>3, <2>6 DEF RingsOK
    <3> QED BY <3>1 DEF Between
  <2>7. CASE Len(log[n][src]) > 1
    BY <2>7
  <2>8. Len(log[n][src]) = 0 \/ Len(log[n][src]) = 1 \/ Len(log[n][src]) > 1
    <3> DEFINE len == Len(log[n][src])
    <3> HIDE DEF len
    <3>1. len \in Nat => len = 0 \/ len = 1 \/ len > 1
      OBVIOUS
    <3> QED BY <2>4, <3>1 DEF len
  <2> QED BY <2>5, <2>6, <2>7, <2>8
<1> QED BY <1>1, PacketInvariance, PTL

\* With variants 3 and 14, in any network and with any m, a node that has taken
\* somebody else's packet and stays silent has heard more than m copies of it,
\* in whatever order its threads count, trap and time out.
THEOREM SilenceIsEarned == Spec => []SilentHeardEnough
<1>1. PacketInv => SilentHeardEnough
  <2> SUFFICES ASSUME PacketInv, net.g \in {3, 14}, NEW n \in Here,
                      NEW p \in Range(taken[n])
               PROVE  \/ p \in sent[n] \/ Busy(n, p)
                      \/ Destination(p) = n \/ heard[n][p] > M
    BY DEF SilentHeardEnough
  <2>1. \/ p \in sent[n] \/ p \in Packets(trap[n]) \/ Handling(job[n], p) # {}
        \/ Destination(p) = n \/ heard[n][p] > M
    BY DEF PacketInv, SilentOK
  <2>2. p \in Packets(trap[n]) => Busy(n, p)
    BY DEF Packets, Busy, Range
  <2>3. Handling(job[n], p) # {} => Busy(n, p)
    BY DEF Handling, Busy
  <2> QED BY <2>1, <2>2, <2>3
<1> QED BY <1>1, PacketInvariance, PTL
=============================================================================
