\* Two uploads, in the same second or not, and a user who opens two reports.
SPECIFICATION Spec
CONSTANTS
  Uploads = {u1, u2}
  Methods = {m}
  Names = {n1, n2}
  Viewers = {w}
  MaxStarts = 2
  MaxAsks = 2
  MaxMail = 2
  MaxFailures = 1
  None = None
SYMMETRY Symmetry
CHECK_DEADLOCK FALSE
INVARIANTS TypeOK RowMatchesTask ReportTellsResults PageShowsItsReport
