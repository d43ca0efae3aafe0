--------------------------- MODULE SignalsProofs ---------------------------
(***************************************************************************)
(* Proofs about Signals, for every number of VPNs, processes and helpers.  *)
(***************************************************************************)
EXTENDS Signals, TLAPS

Moves == {"name", "signal", "wait", "kill"}

\* Type correctness of the helper's model: a helper that is about to signal has
\* a number to signal (vpnconnect-helper:133-149).
THEOREM TypeCorrect == Spec => []TypeOK
<1>1. Init => TypeOK
  BY DEF Init, TypeOK
<1>2. TypeOK /\ [Next]_vars => TypeOK'
  <2> SUFFICES ASSUME TypeOK, [Next]_vars PROVE TypeOK'
    OBVIOUS
  <2> USE NoneAssumption DEF TypeOK, Run, Steps
  <2>1. ASSUME NEW v \in Vpn, NEW p \in Pid, Connect(v, p) PROVE TypeOK'
    BY <2>1 DEF Connect
  <2>2. ASSUME NEW p \in Pid, ProgramStarts(p) PROVE TypeOK'
    BY <2>2 DEF ProgramStarts
  <2>3. ASSUME NEW p \in Pid, ProcessEnds(p) PROVE TypeOK'
    BY <2>3 DEF ProcessEnds
  <2>4. ASSUME NEW v \in Vpn, ClearFile(v) PROVE TypeOK'
    BY <2>4 DEF ClearFile
  <2>5. ASSUME NEW v \in Vpn, NEW h \in Helper, Disconnect(h, v) PROVE TypeOK'
    BY <2>5 DEF Disconnect
  <2>6. CASE Reboot
    BY <2>6 DEF Reboot
  <2>7. ASSUME NEW h \in Helper, ReadPid(h) PROVE TypeOK'
    BY <2>7 DEF ReadPid, At
  <2>8. ASSUME NEW h \in Helper, CheckName(h) PROVE TypeOK'
    BY <2>8 DEF CheckName, At, Goes
  <2>9. ASSUME NEW h \in Helper, Term(h) PROVE TypeOK'
    BY <2>9 DEF Term, Signals, At, Goes
  <2>10. ASSUME NEW h \in Helper, Wait(h) PROVE TypeOK'
    BY <2>10 DEF Wait, At, Goes
  <2>11. ASSUME NEW h \in Helper, Kill(h) PROVE TypeOK'
    BY <2>11 DEF Kill, Signals, At, Goes
  <2>12. ASSUME NEW h \in Helper, RemoveFiles(h) PROVE TypeOK'
    BY <2>12 DEF RemoveFiles, At
  <2>13. CASE UNCHANGED vars
    BY <2>13 DEF vars
  <2>14. QED
    BY <2>1, <2>2, <2>3, <2>4, <2>5, <2>6, <2>7, <2>8, <2>9, <2>10, <2>11, <2>12,
       <2>13 DEF Next, Runs
<1>3. QED
  BY <1>1, <1>2, PTL DEF Spec

-----------------------------------------------------------------------------
(* The name check stays true for as long as it is relied on.               *)

Checked ==
    \A h \in Helper : helper[h] # None /\ helper[h].pc \in {"signal", "wait", "kill"}
        => proc[helper[h].pid] \in Vpn \union {None}

\* Without a number that is used again under a helper, root signals nothing but
\* openconnect, however old the pid files are (vpnconnect-helper:134-141).
THEOREM SignalsOpenconnect ==
    ASSUME "race" \notin Faults PROVE Spec => []OnlyOpenconnect
<1> DEFINE Inv == TypeOK /\ Checked /\ OnlyOpenconnect
<1>1. Init => Inv
  BY NoneAssumption DEF Init, TypeOK, Checked, OnlyOpenconnect
<1>2. Inv /\ [Next]_vars /\ TypeOK' => Inv'
  <2> SUFFICES ASSUME Inv, [Next]_vars, TypeOK' PROVE Checked' /\ OnlyOpenconnect'
    OBVIOUS
  <2> USE NoneAssumption DEF TypeOK, Run, Steps, Checked, OnlyOpenconnect
  <2>1. ASSUME NEW v \in Vpn, NEW p \in Pid, Connect(v, p)
        PROVE Checked' /\ OnlyOpenconnect'
    BY <2>1 DEF Connect
  <2>2. ASSUME NEW p \in Pid, ProgramStarts(p) PROVE Checked' /\ OnlyOpenconnect'
    BY <2>2 DEF ProgramStarts, Free, Held
  <2>3. ASSUME NEW p \in Pid, ProcessEnds(p) PROVE Checked' /\ OnlyOpenconnect'
    BY <2>3 DEF ProcessEnds
  <2>4. ASSUME NEW v \in Vpn, ClearFile(v) PROVE Checked' /\ OnlyOpenconnect'
    BY <2>4 DEF ClearFile
  <2>5. ASSUME NEW v \in Vpn, NEW h \in Helper, Disconnect(h, v)
        PROVE Checked' /\ OnlyOpenconnect'
    BY <2>5 DEF Disconnect
  <2>6. CASE Reboot
    BY <2>6 DEF Reboot
  <2>7. ASSUME NEW h \in Helper, ReadPid(h) PROVE Checked' /\ OnlyOpenconnect'
    BY <2>7 DEF ReadPid, At
  <2>8. ASSUME NEW h \in Helper, CheckName(h) PROVE Checked' /\ OnlyOpenconnect'
    BY <2>8 DEF CheckName, At, Goes
  <2>9. ASSUME NEW h \in Helper, Term(h) PROVE Checked' /\ OnlyOpenconnect'
    BY <2>9 DEF Term, Signals, At, Goes
  <2>10. ASSUME NEW h \in Helper, Wait(h) PROVE Checked' /\ OnlyOpenconnect'
    BY <2>10 DEF Wait, At, Goes
  <2>11. ASSUME NEW h \in Helper, Kill(h) PROVE Checked' /\ OnlyOpenconnect'
    BY <2>11 DEF Kill, Signals, At, Goes
  <2>12. ASSUME NEW h \in Helper, RemoveFiles(h) PROVE Checked' /\ OnlyOpenconnect'
    BY <2>12 DEF RemoveFiles, At
  <2>13. CASE UNCHANGED vars
    BY <2>13 DEF vars
  <2>14. QED
    BY <2>1, <2>2, <2>3, <2>4, <2>5, <2>6, <2>7, <2>8, <2>9, <2>10, <2>11, <2>12,
       <2>13 DEF Next, Runs
<1>3. Inv => OnlyOpenconnect
  OBVIOUS
<1>4. QED
  BY <1>1, <1>2, <1>3, TypeCorrect, PTL DEF Spec

-----------------------------------------------------------------------------
(* What a helper knows of its VPN.                                         *)

\* One helper at a time, as the rows see to it.
Alone == \A g, h \in Helper : helper[g] # None /\ helper[h] # None
                              /\ helper[g].vpn = helper[h].vpn => g = h

\* Until it is sure, a helper has the number of the file; then nothing runs.
Sure == \A h \in Helper : helper[h] # None =>
    /\ helper[h].pc \in Moves => pidFile[helper[h].vpn] = helper[h].pid
    /\ helper[h].pc = "remove" => \A p \in Pid : proc[p] # helper[h].vpn

\* When no helper is left behind, no stop takes the pid file of a running
\* openconnect away (vpnconnect-helper:129-150, tunnel.py:369-372).
THEOREM HandleIsKept ==
    ASSUME "overrun" \notin Faults PROVE Spec => []FileNamesProcess
<1> DEFINE Inv == TypeOK /\ Alone /\ Sure /\ FileNamesProcess
<1>1. Init => Inv
  BY NoneAssumption DEF Init, TypeOK, Alone, Sure, FileNamesProcess
<1>2. Inv /\ [Next]_vars /\ TypeOK' => Inv'
  <2> SUFFICES ASSUME Inv, [Next]_vars, TypeOK' PROVE (Alone /\ Sure /\ FileNamesProcess)'
    OBVIOUS
  <2> DEFINE Goal == (Alone /\ Sure /\ FileNamesProcess)'
  <2> USE NoneAssumption DEF TypeOK, Run, Steps, Moves, Alone, Sure, FileNamesProcess
  <2>1. ASSUME NEW v \in Vpn, NEW p \in Pid, Connect(v, p) PROVE Goal
    BY <2>1 DEF Connect, Attended, PidAlive, Free
  <2>2. ASSUME NEW p \in Pid, ProgramStarts(p) PROVE Goal
    BY <2>2 DEF ProgramStarts
  <2>3. ASSUME NEW p \in Pid, ProcessEnds(p) PROVE Goal
    BY <2>3 DEF ProcessEnds
  <2>4. ASSUME NEW v \in Vpn, ClearFile(v) PROVE Goal
    BY <2>4 DEF ClearFile, Attended, PidAlive
  <2>5. ASSUME NEW v \in Vpn, NEW h \in Helper, Disconnect(h, v) PROVE Goal
    BY <2>5 DEF Disconnect, Attended
  <2>6. CASE Reboot
    BY <2>6 DEF Reboot
  <2>7. ASSUME NEW h \in Helper, ReadPid(h) PROVE Goal
    <3> DEFINE v == helper[h].vpn
                p == pidFile[v]
                r == [helper[h] EXCEPT !.pid = p, !.pc = IF p = None THEN "remove" ELSE "name"]
    <3>1. helper[h] \in Run /\ v \in Vpn /\ UNCHANGED <<proc, pidFile>>
      BY <2>7 DEF ReadPid, At
    <3>2. helper' = [helper EXCEPT ![h] = r]
      BY <2>7 DEF ReadPid, At
    <3>3. r.vpn = v /\ r.pid = p /\ r.pc = IF p = None THEN "remove" ELSE "name"
      BY <3>1
    <3>4. p = None => \A q \in Pid : proc[q] # v
      BY <3>1
    <3> HIDE DEF r
    <3>5. Alone' /\ FileNamesProcess'
      BY <2>7, <3>1, <3>2, <3>3 DEF At, ReadPid
    <3>6. Sure'
      BY <3>1, <3>2, <3>3, <3>4
    <3>7. QED
      BY <3>5, <3>6
  <2>8. ASSUME NEW h \in Helper, CheckName(h) PROVE Goal
    BY <2>8 DEF CheckName, At, Goes
  <2>9. ASSUME NEW h \in Helper, Term(h) PROVE Goal
    BY <2>9 DEF Term, At, Goes
  <2>10. ASSUME NEW h \in Helper, Wait(h) PROVE Goal
    BY <2>10 DEF Wait, At, Goes
  <2>11. ASSUME NEW h \in Helper, Kill(h) PROVE Goal
    BY <2>11 DEF Kill, At, Goes
  <2>12. ASSUME NEW h \in Helper, RemoveFiles(h) PROVE Goal
    BY <2>12 DEF RemoveFiles, At
  <2>13. CASE UNCHANGED vars
    BY <2>13 DEF vars
  <2>14. QED
    BY <2>1, <2>2, <2>3, <2>4, <2>5, <2>6, <2>7, <2>8, <2>9, <2>10, <2>11, <2>12,
       <2>13 DEF Next, Runs
<1>3. Inv => FileNamesProcess
  OBVIOUS
<1>4. QED
  BY <1>1, <1>2, <1>3, TypeCorrect, PTL DEF Spec
=============================================================================
