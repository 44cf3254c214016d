\* A port is cleared only when no process waits there.
CONSTANTS
  RecvMax = 1
  SendMax = 1
  Messages = {m1}
  NoMessage = NoMessage
  MaxGeneration = 2
  Receivers = {r1, r2}
  Senders = {s1, s2}
  NoProcess = NoProcess
  Priorities <- Prio
  ClearWhileWaiting = FALSE
SPECIFICATION FairPortSpec
INVARIANT WaitersSubscribed
PROPERTIES ServedInOrder NobodyWaitsInVain
