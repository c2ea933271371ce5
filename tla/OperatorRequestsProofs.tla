------------------------ MODULE OperatorRequestsProofs ------------------------
(* Commands are told the truth, and acted on at most once, for any number of  *)
(* commands and any time to live within the time a command waits.             *)
EXTENDS OperatorRequests, TLAPS

\* Nobody has heard of a command that has not written its request.
Unwritten ==
  \A c \in Clients : at[c] = "start" =>
    file # c /\ read # c /\ runs[c] = 0 /\ report[c] = "none" /\ wait[c] = 0

\* The request in the file has not been acted on, nor has the one the
\* controller holds until it acts, and these two differ once it was removed.
NotActedYet ==
  /\ \A c \in Clients : runs[c] = 0 => outcome[c] = "none"
  /\ file # None => runs[file] = 0
  /\ ctl = "take" => read # None /\ runs[read] = 0
  /\ ctl \in {"accept", "act"} => read # None /\ runs[read] = 0
  /\ ctl \in {"accept", "act", "answer"} => file # read

\* The controller works on the request it has accepted.
WorksOnIt == ctl \in {"act", "answer"} => read # None /\ last.token = read

Terminal == {"applied", "refused"}

\* What the controller and the file say of a request is what it came to.
IsTrue(s) == s.token # None /\ s.result \in Terminal => outcome[s.token] = s.result
StatusIsTrue == IsTrue(status) /\ IsTrue(last)

\* A request in the file is as old as its command has polled.
AgesTogether == \A c \in Clients : file = c /\ at[c] = "poll" => wait[c] <= age

\* A request whose command gave up waiting has outlived its time to live, ...
GivenUpIsExpired ==
  \A c \in Clients : report[c] = "timed-out" =>
    at[c] = "done" /\ (file = c => age >= REQUEST_TTL)

\* ... and the controller knows of those that had when it looked at the clock.
GaveUpIsDue ==
  ctl = "read" => \A c \in gaveUp :
    report[c] = "timed-out" /\ at[c] = "done" /\ (file = c => due = c)

IInv == /\ TypeOK /\ Unwritten /\ NotActedYet /\ WorksOnIt /\ StatusIsTrue
        /\ AgesTogether /\ ReportIsTrue /\ AtMostOnce /\ GivenUpIsExpired /\ GaveUpIsDue

USE DEF Terminal, IsTrue, client, controller, clock, history, Says
-----------------------------------------------------------------------------
LEMMA InitIInv == Init => IInv
<1> SUFFICES ASSUME Init PROVE IInv
  OBVIOUS
<1>1. AtMostOnce
  <2> SUFFICES ASSUME NEW c \in Clients PROVE runs[c] <= 1
    BY DEF AtMostOnce
  <2>1. runs[c] = 0
    BY DEF Init
  <2> QED BY <2>1
<1> USE RequestsAssumption DEF Init, Nobody
<1>2. TypeOK
  BY DEF TypeOK, ClientTypes, FileTypes, ControllerTypes, HistoryTypes, Answers, Reports
<1>3. Unwritten
  BY DEF Unwritten
<1>4. NotActedYet /\ WorksOnIt
  BY DEF NotActedYet, WorksOnIt
<1>5. StatusIsTrue
  BY DEF StatusIsTrue
<1>6. AgesTogether /\ GivenUpIsExpired /\ GaveUpIsDue
  BY DEF AgesTogether, GivenUpIsExpired, GaveUpIsDue
<1>7. ReportIsTrue
  BY DEF ReportIsTrue
<1> QED BY <1>1, <1>2, <1>3, <1>4, <1>5, <1>6, <1>7 DEF IInv, TypeOK

\* The steps of a command.
LEMMA ClientIInv ==
  ASSUME IInv, NEW c \in Clients, Decline(c) \/ WriteRequest(c) \/ Poll(c) \/ GiveUp(c)
  PROVE IInv'
<1>0. /\ ClientTypes /\ FileTypes /\ ControllerTypes /\ HistoryTypes
      /\ Unwritten /\ NotActedYet /\ WorksOnIt /\ StatusIsTrue
      /\ AgesTogether /\ ReportIsTrue /\ AtMostOnce /\ GivenUpIsExpired /\ GaveUpIsDue
  BY DEF IInv, TypeOK
<1>1. CASE Decline(c)
  <2>1. ClientTypes'
    BY <1>0, <1>1 DEF Decline, ClientTypes, Reports
  <2>2. Unwritten'
    BY <1>0, <1>1 DEF Decline, Unwritten, ClientTypes, HistoryTypes
  <2>3. ReportIsTrue'
    BY <1>0, <1>1 DEF Decline, ReportIsTrue, StatusIsTrue, NotActedYet, ClientTypes,
       HistoryTypes
  <2>4. AgesTogether'
    BY RequestsAssumption, <1>0, <1>1 DEF Decline, AgesTogether, Unwritten, ClientTypes,
       FileTypes
  <2>5. GivenUpIsExpired'
    BY RequestsAssumption, <1>0, <1>1 DEF Decline, GivenUpIsExpired, AgesTogether,
       Unwritten, ClientTypes, FileTypes
  <2>6. FileTypes' /\ ControllerTypes' /\ HistoryTypes' /\ NotActedYet' /\ WorksOnIt' /\
     IsTrue(status)' /\ IsTrue(last)' /\ AtMostOnce'
    BY <1>0, <1>1 DEF Decline, FileTypes, ControllerTypes, HistoryTypes, NotActedYet,
       WorksOnIt, StatusIsTrue, AtMostOnce
  <2>7. GaveUpIsDue'
    BY RequestsAssumption, <1>0, <1>1 DEF Decline, GaveUpIsDue, Unwritten, ControllerTypes, ClientTypes
  <2> QED BY <2>1, <2>2, <2>3, <2>4, <2>5, <2>6, <2>7 DEF IInv, TypeOK, StatusIsTrue
<1>2. CASE WriteRequest(c)
  <2>1. ClientTypes'
    BY <1>0, <1>2 DEF WriteRequest, ClientTypes, Reports
  <2>2. FileTypes'
    BY RequestsAssumption, <1>0, <1>2 DEF WriteRequest, FileTypes, Answers
  <2>3. Unwritten'
    BY <1>0, <1>2 DEF WriteRequest, Unwritten, ClientTypes, HistoryTypes
  <2>4. NotActedYet'
    BY <1>0, <1>2 DEF WriteRequest, NotActedYet, Unwritten, HistoryTypes, ControllerTypes,
       FileTypes
  <2>5. ReportIsTrue'
    BY <1>0, <1>2 DEF WriteRequest, ReportIsTrue, StatusIsTrue, NotActedYet, ClientTypes,
       HistoryTypes
  <2>6. AgesTogether'
    BY RequestsAssumption, <1>0, <1>2 DEF WriteRequest, AgesTogether, Unwritten,
       ClientTypes, FileTypes
  <2>7. GivenUpIsExpired'
    BY RequestsAssumption, <1>0, <1>2 DEF WriteRequest, GivenUpIsExpired, AgesTogether,
       Unwritten, ClientTypes, FileTypes
  <2>8. ControllerTypes' /\ HistoryTypes' /\ WorksOnIt' /\ IsTrue(status)' /\ IsTrue(last)'
     /\ AtMostOnce'
    BY <1>0, <1>2 DEF WriteRequest, ControllerTypes, HistoryTypes, WorksOnIt, StatusIsTrue,
       AtMostOnce
  <2>9. GaveUpIsDue'
    BY RequestsAssumption, <1>0, <1>2 DEF WriteRequest, GaveUpIsDue, Unwritten, ControllerTypes, ClientTypes
  <2> QED BY <2>1, <2>2, <2>3, <2>4, <2>5, <2>6, <2>7, <2>8, <2>9 DEF IInv, TypeOK, StatusIsTrue
<1>3. CASE Poll(c)
  <2>1. ClientTypes'
    BY <1>0, <1>3 DEF Poll, ClientTypes, Reports, FileTypes, Answers
  <2>2. Unwritten'
    BY <1>0, <1>3 DEF Poll, Unwritten, ClientTypes, HistoryTypes
  <2>3. ReportIsTrue'
    BY RequestsAssumption, <1>0, <1>3 DEF Poll, ReportIsTrue, StatusIsTrue, NotActedYet,
       ClientTypes, HistoryTypes
  <2>4. AgesTogether'
    BY RequestsAssumption, <1>0, <1>3 DEF Poll, AgesTogether, Unwritten, ClientTypes,
       FileTypes
  <2>5. GivenUpIsExpired'
    BY RequestsAssumption, <1>0, <1>3 DEF Poll, GivenUpIsExpired, ClientTypes, FileTypes,
       Answers
  <2>6. FileTypes' /\ ControllerTypes' /\ HistoryTypes' /\ NotActedYet' /\ WorksOnIt' /\
     IsTrue(status)' /\ IsTrue(last)' /\ AtMostOnce'
    BY <1>0, <1>3 DEF Poll, FileTypes, ControllerTypes, HistoryTypes, NotActedYet,
       WorksOnIt, StatusIsTrue, AtMostOnce
  <2>7. GaveUpIsDue'
    BY RequestsAssumption, <1>0, <1>3 DEF Poll, GaveUpIsDue, Unwritten, ControllerTypes, ClientTypes
  <2> QED BY <2>1, <2>2, <2>3, <2>4, <2>5, <2>6, <2>7 DEF IInv, TypeOK, StatusIsTrue
<1>4. CASE GiveUp(c)
  <2>1. ClientTypes'
    BY <1>0, <1>4 DEF GiveUp, ClientTypes, Reports
  <2>2. Unwritten'
    BY <1>0, <1>4 DEF GiveUp, Unwritten, ClientTypes, HistoryTypes
  <2>3. ReportIsTrue'
    BY <1>0, <1>4 DEF GiveUp, ReportIsTrue, StatusIsTrue, NotActedYet, ClientTypes,
       HistoryTypes
  <2>4. AgesTogether'
    BY RequestsAssumption, <1>0, <1>4 DEF GiveUp, AgesTogether, Unwritten, ClientTypes,
       FileTypes
  <2>5. GivenUpIsExpired'
    BY RequestsAssumption, <1>0, <1>4 DEF GiveUp, GivenUpIsExpired, AgesTogether, Unwritten,
       ClientTypes, FileTypes
  <2>6. FileTypes' /\ ControllerTypes' /\ HistoryTypes' /\ NotActedYet' /\ WorksOnIt' /\
     IsTrue(status)' /\ IsTrue(last)' /\ AtMostOnce'
    BY <1>0, <1>4 DEF GiveUp, FileTypes, ControllerTypes, HistoryTypes, NotActedYet,
       WorksOnIt, StatusIsTrue, AtMostOnce
  <2>7. GaveUpIsDue'
    BY RequestsAssumption, <1>0, <1>4 DEF GiveUp, GaveUpIsDue, Unwritten, ControllerTypes, ClientTypes
  <2> QED BY <2>1, <2>2, <2>3, <2>4, <2>5, <2>6, <2>7 DEF IInv, TypeOK, StatusIsTrue
<1> QED BY <1>1, <1>2, <1>3, <1>4

\* The steps of the controller.
LEMMA ControllerIInv ==
  ASSUME IInv, Controller
  PROVE IInv'
<1>0. /\ ClientTypes /\ FileTypes /\ ControllerTypes /\ HistoryTypes
      /\ Unwritten /\ NotActedYet /\ WorksOnIt /\ StatusIsTrue
      /\ AgesTogether /\ ReportIsTrue /\ AtMostOnce /\ GivenUpIsExpired /\ GaveUpIsDue
  BY DEF IInv, TypeOK
<1>1. CASE ReadRequest
  <2>1. ControllerTypes'
    BY <1>0, <1>1 DEF ReadRequest, ControllerTypes, FileTypes, Answers
  <2>2. Unwritten'
    BY <1>0, <1>1 DEF ReadRequest, Unwritten, ClientTypes, HistoryTypes
  <2>3. NotActedYet'
    BY <1>0, <1>1 DEF ReadRequest, NotActedYet, Unwritten, HistoryTypes, ControllerTypes,
       FileTypes
  <2>4. WorksOnIt'
    BY <1>0, <1>1 DEF ReadRequest, WorksOnIt, NotActedYet, ControllerTypes
  <2>5. ClientTypes' /\ FileTypes' /\ HistoryTypes' /\ IsTrue(status)' /\ IsTrue(last)' /\
     ReportIsTrue' /\ AgesTogether' /\ AtMostOnce' /\ GivenUpIsExpired'
    BY <1>0, <1>1 DEF ReadRequest, ClientTypes, FileTypes, HistoryTypes, StatusIsTrue,
       ReportIsTrue, AgesTogether, AtMostOnce, GivenUpIsExpired
  <2>6. GaveUpIsDue'
    BY RequestsAssumption, <1>0, <1>1 DEF ReadRequest, GaveUpIsDue, Unwritten, ControllerTypes, ClientTypes
  <2> QED BY <2>1, <2>2, <2>3, <2>4, <2>5, <2>6 DEF IInv, TypeOK, StatusIsTrue
<1>2. CASE RemoveRequest
  <2>1. FileTypes'
    BY <1>0, <1>2 DEF RemoveRequest, FileTypes, Answers
  <2>2. ControllerTypes'
    BY <1>0, <1>2 DEF RemoveRequest, ControllerTypes, FileTypes, Answers
  <2>3. Unwritten'
    BY RequestsAssumption, <1>0, <1>2 DEF RemoveRequest, Unwritten, ClientTypes,
       HistoryTypes
  <2>4. NotActedYet'
    BY <1>0, <1>2 DEF RemoveRequest, NotActedYet, Unwritten, HistoryTypes, ControllerTypes,
       FileTypes
  <2>5. WorksOnIt'
    BY <1>0, <1>2 DEF RemoveRequest, WorksOnIt, NotActedYet, ControllerTypes
  <2>6. AgesTogether'
    BY RequestsAssumption, <1>0, <1>2 DEF RemoveRequest, AgesTogether, Unwritten,
       ClientTypes, FileTypes
  <2>7. GivenUpIsExpired'
    BY RequestsAssumption, <1>0, <1>2 DEF RemoveRequest, GivenUpIsExpired, AgesTogether,
       Unwritten, ClientTypes, FileTypes
  <2>8. ClientTypes' /\ HistoryTypes' /\ IsTrue(status)' /\ IsTrue(last)' /\ ReportIsTrue'
     /\ AtMostOnce'
    BY <1>0, <1>2 DEF RemoveRequest, ClientTypes, HistoryTypes, StatusIsTrue, ReportIsTrue,
       AtMostOnce
  <2>9. GaveUpIsDue'
    BY RequestsAssumption, <1>0, <1>2 DEF RemoveRequest, GaveUpIsDue, Unwritten, ControllerTypes, ClientTypes
  <2> QED BY <2>1, <2>2, <2>3, <2>4, <2>5, <2>6, <2>7, <2>8, <2>9 DEF IInv, TypeOK, StatusIsTrue
<1>3. CASE Accept
  <2>1. FileTypes'
    BY <1>0, <1>3 DEF Accept, FileTypes, Answers, ControllerTypes
  <2>2. ControllerTypes'
    BY <1>0, <1>3 DEF Accept, ControllerTypes, FileTypes, Answers
  <2>3. NotActedYet'
    BY <1>0, <1>3 DEF Accept, NotActedYet, Unwritten, HistoryTypes, ControllerTypes,
       FileTypes
  <2>4. WorksOnIt'
    BY <1>0, <1>3 DEF Accept, WorksOnIt, NotActedYet, ControllerTypes
  <2>5. IsTrue(status)'
    BY <1>0, <1>3 DEF Accept, StatusIsTrue, NotActedYet, WorksOnIt, ControllerTypes,
       FileTypes, HistoryTypes, Answers
  <2>6. IsTrue(last)'
    BY <1>0, <1>3 DEF Accept, StatusIsTrue, NotActedYet, WorksOnIt, ControllerTypes,
       FileTypes, HistoryTypes, Answers
  <2>7. ClientTypes' /\ HistoryTypes' /\ Unwritten' /\ ReportIsTrue' /\ AgesTogether' /\
     AtMostOnce' /\ GivenUpIsExpired'
    BY <1>0, <1>3 DEF Accept, ClientTypes, HistoryTypes, Unwritten, ReportIsTrue,
       AgesTogether, AtMostOnce, GivenUpIsExpired
  <2>8. GaveUpIsDue'
    BY RequestsAssumption, <1>0, <1>3 DEF Accept, GaveUpIsDue, Unwritten, ControllerTypes, ClientTypes
  <2> QED BY <2>1, <2>2, <2>3, <2>4, <2>5, <2>6, <2>7, <2>8 DEF IInv, TypeOK, StatusIsTrue
<1>4. CASE Act
  <2>1. ControllerTypes'
    BY <1>0, <1>4 DEF Act, ControllerTypes, FileTypes, Answers
  <2>2. HistoryTypes'
    BY RequestsAssumption, <1>0, <1>4 DEF Act, HistoryTypes, ControllerTypes, NotActedYet
  <2>3. Unwritten'
    BY <1>0, <1>4 DEF Act, Unwritten, ClientTypes, HistoryTypes
  <2>4. NotActedYet'
    BY <1>0, <1>4 DEF Act, NotActedYet, Unwritten, HistoryTypes, ControllerTypes, FileTypes
  <2>5. WorksOnIt'
    BY <1>0, <1>4 DEF Act, WorksOnIt, NotActedYet, ControllerTypes
  <2>6. IsTrue(status)'
    BY <1>0, <1>4 DEF Act, StatusIsTrue, NotActedYet, WorksOnIt, ControllerTypes, FileTypes,
       HistoryTypes, Answers
  <2>7. IsTrue(last)'
    BY <1>0, <1>4 DEF Act, StatusIsTrue, NotActedYet, WorksOnIt, ControllerTypes, FileTypes,
       HistoryTypes, Answers
  <2>8. ReportIsTrue'
    BY <1>0, <1>4 DEF Act, ReportIsTrue, StatusIsTrue, NotActedYet, ClientTypes,
       HistoryTypes
  <2>9. AtMostOnce'
    BY <1>0, <1>4 DEF Act, AtMostOnce, NotActedYet, HistoryTypes
  <2>10. ClientTypes' /\ FileTypes' /\ AgesTogether' /\ GivenUpIsExpired'
    BY <1>0, <1>4 DEF Act, ClientTypes, FileTypes, AgesTogether, GivenUpIsExpired
  <2>11. GaveUpIsDue'
    BY RequestsAssumption, <1>0, <1>4 DEF Act, GaveUpIsDue, Unwritten, ControllerTypes, ClientTypes
  <2> QED BY <2>1, <2>2, <2>3, <2>4, <2>5, <2>6, <2>7, <2>8, <2>9, <2>10, <2>11 DEF IInv, TypeOK,
     StatusIsTrue
<1>5. CASE Answer
  <2>1. FileTypes'
    BY <1>0, <1>5 DEF Answer, FileTypes, Answers, ControllerTypes
  <2>2. ControllerTypes'
    BY <1>0, <1>5 DEF Answer, ControllerTypes, FileTypes, Answers
  <2>3. NotActedYet'
    BY <1>0, <1>5 DEF Answer, NotActedYet, Unwritten, HistoryTypes, ControllerTypes,
       FileTypes
  <2>4. WorksOnIt'
    BY <1>0, <1>5 DEF Answer, WorksOnIt, NotActedYet, ControllerTypes
  <2>5. IsTrue(status)'
    BY <1>0, <1>5 DEF Answer, StatusIsTrue, NotActedYet, WorksOnIt, ControllerTypes,
       FileTypes, HistoryTypes, Answers
  <2>6. ClientTypes' /\ HistoryTypes' /\ Unwritten' /\ IsTrue(last)' /\ ReportIsTrue' /\
     AgesTogether' /\ AtMostOnce' /\ GivenUpIsExpired'
    BY <1>0, <1>5 DEF Answer, ClientTypes, HistoryTypes, Unwritten, StatusIsTrue,
       ReportIsTrue, AgesTogether, AtMostOnce, GivenUpIsExpired
  <2>7. GaveUpIsDue'
    BY RequestsAssumption, <1>0, <1>5 DEF Answer, GaveUpIsDue, Unwritten, ControllerTypes, ClientTypes
  <2> QED BY <2>1, <2>2, <2>3, <2>4, <2>5, <2>6, <2>7 DEF IInv, TypeOK, StatusIsTrue
<1>6. CASE ControllerEnds
  <2>1. FileTypes'
    BY <1>0, <1>6 DEF ControllerEnds, FileTypes, Answers, ControllerTypes
  <2>2. ControllerTypes'
    BY <1>0, <1>6 DEF ControllerEnds, ControllerTypes, FileTypes, Answers
  <2>3. NotActedYet'
    BY <1>0, <1>6 DEF ControllerEnds, NotActedYet, Unwritten, HistoryTypes, ControllerTypes,
       FileTypes
  <2>4. WorksOnIt'
    BY <1>0, <1>6 DEF ControllerEnds, WorksOnIt, NotActedYet, ControllerTypes
  <2>5. IsTrue(status)'
    BY <1>0, <1>6 DEF ControllerEnds, StatusIsTrue, NotActedYet, WorksOnIt, ControllerTypes,
       FileTypes, HistoryTypes, Answers
  <2>6. ClientTypes' /\ HistoryTypes' /\ Unwritten' /\ IsTrue(last)' /\ ReportIsTrue' /\
     AgesTogether' /\ AtMostOnce' /\ GivenUpIsExpired'
    BY <1>0, <1>6 DEF ControllerEnds, ClientTypes, HistoryTypes, Unwritten, StatusIsTrue,
       ReportIsTrue, AgesTogether, AtMostOnce, GivenUpIsExpired
  <2>7. GaveUpIsDue'
    BY RequestsAssumption, <1>0, <1>6 DEF ControllerEnds, GaveUpIsDue, Unwritten, ControllerTypes, ClientTypes
  <2> QED BY <2>1, <2>2, <2>3, <2>4, <2>5, <2>6, <2>7 DEF IInv, TypeOK, StatusIsTrue
<1>7. CASE ReadClock
  <2>1. ControllerTypes'
    BY <1>0, <1>7 DEF ReadClock, ControllerTypes, FileTypes, Answers
  <2>2. Unwritten' /\ NotActedYet' /\ WorksOnIt'
    BY <1>0, <1>7 DEF ReadClock, Unwritten, NotActedYet, WorksOnIt
  <2>3. ClientTypes' /\ FileTypes' /\ HistoryTypes' /\ IsTrue(status)' /\ IsTrue(last)' /\
     ReportIsTrue' /\ AgesTogether' /\ AtMostOnce' /\ GivenUpIsExpired'
    BY <1>0, <1>7 DEF ReadClock, ClientTypes, FileTypes, HistoryTypes, StatusIsTrue,
       ReportIsTrue, AgesTogether, AtMostOnce, GivenUpIsExpired
  <2>4. GaveUpIsDue'
    BY RequestsAssumption, <1>0, <1>7 DEF ReadClock, GaveUpIsDue, GivenUpIsExpired
  <2> QED BY <2>1, <2>2, <2>3, <2>4 DEF IInv, TypeOK, StatusIsTrue
<1> QED BY <1>1, <1>2, <1>3, <1>4, <1>5, <1>6, <1>7 DEF Controller

\* Time passes for the request and for the command that waits.
LEMMA TickIInv ==
  ASSUME IInv, Tick
  PROVE IInv'
<1>0. /\ ClientTypes /\ FileTypes /\ ControllerTypes /\ HistoryTypes
      /\ Unwritten /\ NotActedYet /\ WorksOnIt /\ StatusIsTrue
      /\ AgesTogether /\ ReportIsTrue /\ AtMostOnce /\ GivenUpIsExpired /\ GaveUpIsDue
  BY DEF IInv, TypeOK
<1>1. CASE Tick
  <2>1. ClientTypes'
    BY RequestsAssumption, <1>0, <1>1 DEF Tick, ClientTypes, Reports
  <2>2. FileTypes'
    BY RequestsAssumption, <1>0, <1>1 DEF Tick, FileTypes, Answers
  <2>3. Unwritten'
    BY <1>0, <1>1 DEF Tick, Unwritten, ClientTypes, HistoryTypes
  <2>4. AgesTogether'
    BY RequestsAssumption, <1>0, <1>1 DEF Tick, AgesTogether, Unwritten, ClientTypes,
       FileTypes
  <2>5. GivenUpIsExpired'
    BY RequestsAssumption, <1>0, <1>1 DEF Tick, GivenUpIsExpired, AgesTogether, Unwritten,
       ClientTypes, FileTypes
  <2>6. ControllerTypes' /\ HistoryTypes' /\ NotActedYet' /\ WorksOnIt' /\ IsTrue(status)'
     /\ IsTrue(last)' /\ ReportIsTrue' /\ AtMostOnce'
    BY <1>0, <1>1 DEF Tick, ControllerTypes, HistoryTypes, NotActedYet, WorksOnIt,
       StatusIsTrue, ReportIsTrue, AtMostOnce
  <2>7. GaveUpIsDue'
    BY RequestsAssumption, <1>0, <1>1 DEF Tick, GaveUpIsDue, Unwritten, ControllerTypes, ClientTypes
  <2> QED BY <2>1, <2>2, <2>3, <2>4, <2>5, <2>6, <2>7 DEF IInv, TypeOK, StatusIsTrue
<1> QED BY <1>1

\* A stutter.
LEMMA StutterIInv == ASSUME IInv, UNCHANGED vars PROVE IInv'
  BY DEF vars, IInv, TypeOK, ClientTypes, FileTypes, ControllerTypes, HistoryTypes, Unwritten,
     NotActedYet, WorksOnIt, StatusIsTrue, AgesTogether, ReportIsTrue, AtMostOnce, GivenUpIsExpired,
     GaveUpIsDue

\* The invariant: one part per line of the story of a request.
THEOREM RequestsInvariant == Spec => []IInv
<1>1. IInv /\ [Next]_vars => IInv'
  BY ClientIInv, ControllerIInv, TickIInv, StutterIInv DEF Next
<1> QED BY InitIInv, <1>1, PTL DEF Spec

\* "applied" and "refused" are what the controller did with this very request.
THEOREM CommandsReportTheTruth == Spec => []ReportIsTrue
<1>1. IInv => ReportIsTrue
  BY DEF IInv, TypeOK
<1> QED BY RequestsInvariant, <1>1, PTL

\* No request is acted on twice.
THEOREM RequestsActOnce == Spec => []AtMostOnce
<1>1. IInv => AtMostOnce
  BY DEF IInv, TypeOK
<1> QED BY RequestsInvariant, <1>1, PTL

\* No request is taken whose command had given up when the controller looked at
\* the clock.
THEOREM NoLateAction == Spec => GivenUpIsNotTaken
<1>1. ASSUME IInv, [Next]_vars, ctl = "read", ctl' = "take"
      PROVE  read' \notin gaveUp
  <2>1. ReadRequest
    BY <1>1 DEF Next, Controller, Decline, WriteRequest, Poll, GiveUp, ReadClock, RemoveRequest,
       Accept, Act, Answer, ControllerEnds, Tick, vars
  <2>2. read' = file /\ file # due
    BY <1>1, <2>1 DEF ReadRequest
  <2> QED BY <1>1, <2>2 DEF IInv, GaveUpIsDue
<1>2. IInv /\ [Next]_vars => [ctl = "read" /\ ctl' = "take" => read' \notin gaveUp]_vars
  BY <1>1
<1> QED BY RequestsInvariant, <1>2, PTL DEF Spec, GivenUpIsNotTaken
=============================================================================
