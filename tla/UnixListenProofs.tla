-------------------------- MODULE UnixListenProofs --------------------------
(***************************************************************************)
(* Proofs about UnixListen for any set of instances.  What holds of one    *)
(* process (umask, descriptor) holds whatever fails and however the starts *)
(* interleave; what holds of the address needs an undisturbed regime.      *)
(***************************************************************************)
EXTENDS UnixListen, TLAPS

Local == TypeOK /\ UmaskOnlyForBind /\ NoLeak

LEMMA LocalInit == Init => Local
BY SentinelsAssumption
   DEF Init, Local, TypeOK, UmaskOnlyForBind, NoLeak, Starting

LEMMA LocalNext == Local /\ [Next]_vars => Local'
<1> SUFFICES ASSUME Local, [Next]_vars
             PROVE  Local'
  OBVIOUS
<1> USE SentinelsAssumption DEF Local, TypeOK
<1>1. ASSUME NEW i \in Instances, Socket(i), UNCHANGED regime
      PROVE  Local'
  BY <1>1 DEF Socket, UmaskOnlyForBind, NoLeak, Starting
<1>2. ASSUME NEW i \in Instances, TestConnect(i), UNCHANGED regime
      PROVE  Local'
  <2>1. Answering \subseteq Instances
    BY DEF Answering
  <2>2. /\ full' \subseteq Instances
        /\ peer' \in [Instances -> Instances \cup {Nobody}]
    BY <1>2, <2>1 DEF TestConnect
  <2>3. CASE GiveUp(i)
    BY <1>2, <2>2, <2>3
       DEF TestConnect, GiveUp, AfterClose, UmaskOnlyForBind, NoLeak, Starting
  <2>4. CASE UNCHANGED <<file, sock>>
             /\ (UNCHANGED pc \/ pc' = [pc EXCEPT ![i] = "unlink"])
    BY <1>2, <2>2, <2>4 DEF TestConnect, UmaskOnlyForBind, NoLeak, Starting
  <2> QED
    BY <1>2, <2>3, <2>4 DEF TestConnect
<1>3. ASSUME NEW i \in Instances, Unlink(i), UNCHANGED regime
      PROVE  Local'
  BY <1>3 DEF Unlink, UmaskOnlyForBind, NoLeak, Starting
<1>4. ASSUME NEW i \in Instances, Bind(i), UNCHANGED regime
      PROVE  Local'
  BY <1>4 DEF Bind, GiveUp, AfterClose, UmaskOnlyForBind, NoLeak, Starting
<1>5. ASSUME NEW i \in Instances, SetPermissions(i), UNCHANGED regime
      PROVE  Local'
  BY <1>5 DEF SetPermissions, GiveUp, AfterClose, UmaskOnlyForBind, NoLeak, Starting
<1>6. ASSUME NEW i \in Instances, Listen(i), UNCHANGED regime
      PROVE  Local'
  BY <1>6 DEF Listen, GiveUp, AfterClose, UmaskOnlyForBind, NoLeak, Starting
<1>7. ASSUME NEW i \in Instances, Die(i), UNCHANGED regime
      PROVE  Local'
  BY <1>7 DEF Die, AfterClose, UmaskOnlyForBind, NoLeak, Starting
<1>8. CASE UNCHANGED vars
  BY <1>8 DEF vars, UmaskOnlyForBind, NoLeak, Starting
<1>9. CASE Fill
  BY <1>9 DEF Fill, Answering, UmaskOnlyForBind, NoLeak, Starting
<1> QED
  BY <1>1, <1>2, <1>3, <1>4, <1>5, <1>6, <1>7, <1>8, <1>9 DEF Next, Step

LEMMA LocalInvariance == Spec => []Local
BY LocalInit, LocalNext, PTL DEF Spec

\* The types of the variables, for any instances and any faults.
THEOREM TypeCorrect == Spec => []TypeOK
BY LocalInvariance, PTL DEF Local

\* The restricted umask is in force between umask() and the end of bind(),
\* whatever fails and whatever the other instances do.
THEOREM UmaskRestored == Spec => []UmaskOnlyForBind
BY LocalInvariance, PTL DEF Local

\* No way out of a start leaves a descriptor open.
THEOREM DescriptorsClosed == Spec => []NoLeak
BY LocalInvariance, PTL DEF Local

-----------------------------------------------------------------------------
\* One instance starts at a time, nobody serves once its connect test has
\* passed, what it unlinked stays away, and the file it binds is its own
\* until it dies.
AddressInv ==
  /\ \A i, j \in Instances : Starting(i) /\ Starting(j) => i = j
  /\ \A i \in Instances : pc[i] \in {"unlink", "bind", "chown", "listen"} =>
       \A j \in Instances : pc[j] # "up"
  /\ \A i \in Instances : pc[i] \in {"chown", "listen", "up"} => file = i
  /\ "unlink" \notin regime.faults =>
       \A i \in Instances : pc[i] = "bind" => file = NoFile

\* The regime a behaviour began in decides whether AddressInv holds in it.
GuardedInv == Local /\ (Undisturbed => AddressInv)

LEMMA RegimeConstant == [Next]_vars => regime' = regime
BY DEF Next, Step, Fill, vars

LEMMA AddressInit == Init => AddressInv
BY DEF Init, AddressInv, Starting

LEMMA AddressNext ==
  ASSUME Local, Undisturbed, AddressInv, [Next]_vars
  PROVE  AddressInv'
<1> USE SentinelsAssumption DEF Undisturbed, Local, TypeOK
<1>0. regime' = regime
  BY RegimeConstant
<1>1. ASSUME NEW i \in Instances, Socket(i)
      PROVE  AddressInv'
  BY <1>0, <1>1 DEF Socket, AddressInv, Starting
<1>2. ASSUME NEW i \in Instances, TestConnect(i)
      PROVE  AddressInv'
  <2>1. CASE Answering = {} /\ pc' = [pc EXCEPT ![i] = "unlink"] /\ UNCHANGED file
    <3>1. \A j \in Instances : pc[j] # "up"
      BY <2>1 DEF Answering, AddressInv
    <3> QED
      BY <1>0, <1>2, <2>1, <3>1 DEF TestConnect, AddressInv, Starting
  <2>2. CASE GiveUp(i)
    BY <1>0, <1>2, <2>2 DEF TestConnect, GiveUp, AfterClose, AddressInv, Starting
  <2>3. CASE UNCHANGED <<file, pc>>
    BY <1>0, <2>3 DEF AddressInv, Starting
  <2> QED
    BY <1>0, <1>2, <2>1, <2>2, <2>3 DEF TestConnect
<1>3. ASSUME NEW i \in Instances, Unlink(i)
      PROVE  AddressInv'
  BY <1>0, <1>3 DEF Unlink, AddressInv, Starting
<1>4. ASSUME NEW i \in Instances, Bind(i)
      PROVE  AddressInv'
  BY <1>0, <1>4 DEF Bind, GiveUp, AfterClose, AddressInv, Starting
<1>5. ASSUME NEW i \in Instances, SetPermissions(i)
      PROVE  AddressInv'
  BY <1>0, <1>5 DEF SetPermissions, GiveUp, AfterClose, AddressInv, Starting
<1>6. ASSUME NEW i \in Instances, Listen(i)
      PROVE  AddressInv'
  BY <1>0, <1>6 DEF Listen, GiveUp, AfterClose, AddressInv, Starting
<1>7. ASSUME NEW i \in Instances, Die(i)
      PROVE  AddressInv'
  BY <1>0, <1>7 DEF Die, AfterClose, AddressInv, Starting
<1>8. CASE UNCHANGED vars
  BY <1>0, <1>8 DEF vars, AddressInv, Starting
<1>9. CASE Fill
  BY <1>0, <1>9 DEF Fill, AddressInv, Starting
<1> QED
  BY <1>1, <1>2, <1>3, <1>4, <1>5, <1>6, <1>7, <1>8, <1>9 DEF Next, Step

LEMMA GuardedInvariance == Spec => []GuardedInv
<1>1. Init => GuardedInv
  BY LocalInit, AddressInit DEF GuardedInv
<1>2. GuardedInv /\ [Next]_vars => GuardedInv'
  BY LocalNext, AddressNext, RegimeConstant DEF GuardedInv, Undisturbed
<1> QED
  BY <1>1, <1>2, PTL DEF Spec

\* With serialised starts and a connect test that works, the file of a
\* running instance stays its own.
THEOREM StaysReachable == Spec => []Reachable
<1>1. GuardedInv => Reachable
  BY DEF GuardedInv, AddressInv, Reachable
<1> QED
  BY <1>1, GuardedInvariance, PTL

\* Under the same conditions, and when unlink and bind do not fail of their
\* own, a start is refused the address only by an instance that serves it: a
\* leftover file never blocks.
THEOREM RefusalJustified == Spec => RefusedOnlyByAServer
<1>1. ASSUME GuardedInv, [Next]_vars
      PROVE  [Undisturbed /\ regime.faults \cap {"unlink", "bind"} = {} =>
                \A i \in Instances :
                  pc[i] \in {"test", "bind"} /\ pc'[i] = "failed" =>
                    Answering # {}]_vars
  <2> SUFFICES ASSUME Next, Undisturbed,
                      regime.faults \cap {"unlink", "bind"} = {},
                      NEW i \in Instances, pc[i] \in {"test", "bind"},
                      pc'[i] = "failed"
               PROVE  Answering # {}
    BY <1>1
  <2>0. /\ AddressInv
        /\ {"test", "unlink", "bind"} \cap regime.faults = {}
    BY <1>1 DEF GuardedInv, Undisturbed
  <2> USE <2>0, SentinelsAssumption DEF GuardedInv, Local, TypeOK
  <2>1. PICK j \in Instances : Socket(j) \/ Step(j) \/ Die(j)
    BY DEF Next, Fill
  <2>2. j = i /\ pc[i] # "bind"
    BY <1>1, <2>1
       DEF AddressInv, Step, Socket, TestConnect, Unlink, Bind,
           SetPermissions, Listen, Die, GiveUp
  <2> QED
    BY <1>1, <2>1, <2>2
       DEF Step, Socket, TestConnect, Unlink, Bind, SetPermissions, Listen, Die, GiveUp
<1> QED
  BY <1>1, GuardedInvariance, PTL DEF Spec, RefusedOnlyByAServer

\* In an undisturbed regime the instances implement ListenAddress.
THEOREM ServesTheAddress == Spec => ImplementsAddress
<1>1. Init => Address!Init
  BY DEF Init, Address!Init, Serving, Reached, Answering
<1>2. ASSUME GuardedInv, [Next]_vars
      PROVE  [Address!Next]_(Address!vars)
  <2> USE <1>2, SentinelsAssumption DEF GuardedInv, Local, TypeOK
  <2>0. regime' = regime /\ (Undisturbed' <=> Undisturbed)
    BY RegimeConstant DEF Undisturbed
  <2>u. CASE ~Undisturbed
    <3>1. Serving = {} /\ Serving' = {} /\ Reached = Nobody /\ Reached' = Nobody
      BY <2>0, <2>u DEF Serving, Reached
    <3> QED
      BY <3>1 DEF Address!vars
  <2>d. CASE Undisturbed
    <3>1. AddressInv /\ AddressInv'
      BY <2>d, AddressNext
    <3>2. Serving = Answering /\ Serving' = Answering'
      BY <2>0, <2>d, <3>1 DEF Serving, Answering, AddressInv
    <3>3. ASSUME NEW i \in Instances, Listen(i), pc'[i] = "up"
          PROVE  Address!Serve(i)
      <4>1. Serving = {} /\ Serving' = {i}
        BY <2>0, <2>d, <3>1, <3>3 DEF Listen, GiveUp, AddressInv, Serving
      <4>2. Reached' = i
        BY <2>0, <2>d, <3>2, <4>1 DEF Reached
      <4> QED
        BY <4>1, <4>2 DEF Address!Serve
    <3>4. ASSUME NEW i \in Instances, Die(i), pc[i] = "up"
          PROVE  Address!Stop(i)
      <4>1. i \in Serving /\ Serving' = Serving \ {i} /\ Serving' = {}
        BY <2>0, <2>d, <3>1, <3>4 DEF Die, AddressInv, Serving
      <4>2. Reached' = Nobody
        BY <2>0, <3>2, <4>1 DEF Reached
      <4> QED
        BY <4>1, <4>2 DEF Address!Stop
    <3>5. ASSUME Serving' = Serving
          PROVE  UNCHANGED Address!vars
      <4>1. Answering' = Answering
        BY <3>2, <3>5
      <4> QED
        BY <2>0, <3>5, <4>1 DEF Address!vars, Reached
    <3>6. CASE UNCHANGED vars \/ Fill
      BY <2>0, <3>5, <3>6 DEF vars, Fill, Serving
    <3>7. ASSUME NEW i \in Instances,
                 \/ Socket(i) \/ TestConnect(i) \/ Unlink(i) \/ Bind(i)
                 \/ SetPermissions(i) \/ (Listen(i) /\ pc'[i] # "up")
                 \/ (Die(i) /\ pc[i] # "up")
          PROVE  Serving' = Serving
      <4>1. pc[i] # "up" /\ pc'[i] # "up"
        BY <3>7
           DEF Socket, TestConnect, Unlink, Bind, SetPermissions, Listen, Die, GiveUp
      <4>2. \A j \in Instances : j # i => pc'[j] = pc[j]
        BY <3>7
           DEF Socket, TestConnect, Unlink, Bind, SetPermissions, Listen, Die, GiveUp
      <4> QED
        BY <2>0, <4>1, <4>2 DEF Serving
    <3> QED
      BY <3>3, <3>4, <3>5, <3>6, <3>7 DEF Next, Step, Address!Next
  <2> QED
    BY <2>u, <2>d
<1> QED
  BY <1>1, <1>2, GuardedInvariance, PTL DEF Spec, ImplementsAddress, Address!Spec
=============================================================================
