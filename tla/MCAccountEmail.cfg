SPECIFICATION Spec
CONSTANTS
  Mail = {m1, m2}
  Worker = {w1, w2}
  Client = {c1}
  NoWorker = NoWorker
  NoMail = NoMail
  MaxAttempts = 2
  LastRevision = 2
SYMMETRY MCSymmetry
INVARIANTS TypeOK SendsUseCurrentSettings PendingLinksAreServed OneLiveLink 
PROPERTIES SendsAreCounted EndedMailStaysEnded
