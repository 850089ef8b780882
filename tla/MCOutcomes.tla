----------------------------- MODULE MCOutcomes -----------------------------
(* Every call of the tables, run through both of its sides. *)
EXTENDS Outcomes, Naturals, ImageCalls, ArchiveCalls, SystemCalls, ContainerCalls, AddressCalls, SpecCalls,
  StandIns

MCReturns ==
  ImageCallsReturns @@ ArchiveCallsReturns @@ SystemCallsReturns @@ ContainerCallsReturns @@ AddressCallsReturns
    @@ SpecCallsReturns
MCReads ==
  ImageCallsReads @@ ArchiveCallsReads @@ SystemCallsReads @@ ContainerCallsReads @@ AddressCallsReads
    @@ SpecCallsReads
MCTakes == ImageCallsTakes @@ ArchiveCallsTakes @@ SystemCallsTakes @@ ContainerCallsTakes @@ SpecCallsTakes
MCCasts ==
  ImageCallsCasts @@ ArchiveCallsCasts @@ SystemCallsCasts @@ ContainerCallsCasts @@ AddressCallsCasts
    @@ SpecCallsCasts
MCParts == ImageCallsParts @@ SnmpParts @@ StatisticsParts @@ SpecCallsParts
MCFields == OCIFields @@ SnmpFields @@ StatisticsFields @@ SpecCallsFields
MCCarries == FdOpsErrorCarries @@ SubpathErrorCarries
MCInspects == FdOpsErrorInspects @@ SubpathErrorInspects

\* What each call can give with what is read of it, and all that comes of that.
Begun ==
  UNION {{<<t, r>> : t \in Returns[c[1]][c[2]] \ {Thrown, ThrownPlainly}, r \in Readings(c)} : c \in Calls}

MaxOnward == 12   \* bound: the steps of a reading, into the fields of fields

Fits ==
  LET onward[n \in 0..MaxOnward] ==
        IF n = 0 THEN Begun
        ELSE LET before == onward[n - 1]
             IN  before \cup UNION {Onward(p[1], p[2]) : p \in {q \in before : q[2] # <<>>}}
  IN  onward[MaxOnward]

\* The two sides of every call in the tables agree, as a compiler that saw
\* both would check: this is the hypothesis of the theorems in OutcomesProofs.
SidesAgree == phase = "idle" => Agree(Fits)

=============================================================================
