---------------------------- MODULE Reports_proofs ----------------------------
(***************************************************************************)
(* Proofs about Reports.  A report's parts agree because what a statement  *)
(* selects stays selected: posts keep their place in the period while the  *)
(* report runs, labels are never taken back, analyses are only added.      *)
(***************************************************************************)
EXTENDS Reports, SequenceTheorems, FiniteSetTheorems, TLAPS

\* What is to be read when the report comes to a statement.
AfterAlerts == {"timeline", "done"}
AfterAlertCount == {"alerts"} \cup AfterAlerts
AfterClassified == {"alertCount"} \cup AfterAlertCount
AfterTopics == {"classified"} \cup AfterClassified
AfterByPlatform == {"topics"} \cup AfterTopics
AfterSummary == {"byPlatform"} \cup AfterByPlatform

\* A label comes from an analysis.
LabelsComeFromAnalyses ==
  \A p \in DOMAIN given :
    /\ shown[p] # None => shown[p] \in given[p]
    /\ given[p] # {} => \E a \in DOMAIN analyses : analyses[a].post = p

\* What was read is selected still.
ReadIsSelected ==
  /\ at \in AfterSummary => summary \subseteq Labelled
  /\ at \in AfterByPlatform => byPlatform \subseteq Labelled
  /\ at \in AfterTopics => \A t \in Topics : topics[t] \subseteq About(t)
  /\ at \in AfterAlertCount => alertCount \subseteq Labelled
  /\ at \in AfterAlerts => alerts \subseteq Labelled

\* The parts read so far contain each other.
ReadAgrees ==
  /\ at \in AfterByPlatform => summary \subseteq byPlatform
  /\ at \in AfterClassified => \A t \in Topics : topics[t] \subseteq classified
  /\ at \in AfterClassified => \A p \in summary : \E a \in classified : analyses[a].post = p
  /\ at = "done" => byPlatform \cup alertCount \cup alerts \subseteq timeline

IInv == TypeOK /\ LabelsComeFromAnalyses /\ ReadIsSelected /\ ReadAgrees

-----------------------------------------------------------------------------
\* The queries select rows of the tables.
LEMMA SelectedRows ==
  ASSUME TableTypes
  PROVE  /\ Labelled \subseteq DOMAIN given
         /\ Alerts \subseteq Labelled
         /\ Classified \subseteq DOMAIN analyses
         /\ \A t \in Topics : About(t) \subseteq Classified
  BY DEF TableTypes, Labelled, Alerts, Classified, About

\* Nothing is stored and nothing read.
LEMMA InitIInv == Init => IInv
  <1> SUFFICES ASSUME Init PROVE IInv
    OBVIOUS
  <1>1. TableTypes
    BY DEF Init, Lifecycle!Init, TableTypes
  <1>2. ReportTypes
    BY FS_EmptySet, ReportsAssumption DEF Init, ReportTypes, Statements
  <1>3. LabelsComeFromAnalyses
    BY DEF Init, Lifecycle!Init, LabelsComeFromAnalyses
  <1>4. ReadIsSelected /\ ReadAgrees
    BY DEF Init, ReadIsSelected, ReadAgrees, AfterSummary, AfterByPlatform, AfterTopics,
           AfterClassified, AfterAlertCount, AfterAlerts
  <1> QED
    BY <1>1, <1>2, <1>3, <1>4 DEF IInv, TypeOK

\* What a step of a worker keeps: everything that was there, and every label.
TablesGrow ==
  /\ DOMAIN given \subseteq DOMAIN given'
  /\ DOMAIN analyses \subseteq DOMAIN analyses'
  /\ \A a \in DOMAIN analyses : analyses'[a] = analyses[a]
  /\ \A p \in DOMAIN given :
       /\ inPeriod'[p] = inPeriod[p]
       /\ shown[p] # None => shown'[p] # None

\* A worker's step keeps the parts that were read, and what they select.
LEMMA ReadsSurvive ==
  ASSUME IInv, TableTypes', TablesGrow, UNCHANGED <<at, counts>>
  PROVE  ReportTypes' /\ ReadIsSelected' /\ ReadAgrees'
  <1>1. Labelled \subseteq Labelled'
    <2> SUFFICES ASSUME NEW p \in Labelled PROVE p \in Labelled'
      OBVIOUS
    <2>1. p \in DOMAIN given /\ inPeriod[p] /\ shown[p] # None
      BY DEF IInv, TypeOK, TableTypes, Labelled
    <2>2. p \in DOMAIN given' /\ DOMAIN shown' = DOMAIN given'
      BY <2>1 DEF TableTypes, TablesGrow
    <2>3. inPeriod'[p] /\ shown'[p] # None
      BY <2>1, Zenon DEF TablesGrow
    <2> QED
      BY <2>2, <2>3 DEF Labelled
  <1>2. \A t \in Topics : About(t) \subseteq About(t)'
    BY DEF IInv, TypeOK, TableTypes, TablesGrow, About, Classified
  <1>3. ReportTypes'
    BY DEF IInv, TypeOK, ReportTypes, TablesGrow, counts
  <1>4. ReadIsSelected'
    BY <1>1, <1>2 DEF IInv, ReadIsSelected, counts
  <1>5. ReadAgrees'
    BY DEF IInv, TypeOK, ReportTypes, ReadAgrees, TablesGrow, counts
  <1> QED
    BY <1>3, <1>4, <1>5

\* Storing a post keeps the invariant: the new post has no label yet.
LEMMA StoreStep == IInv /\ StorePost => IInv'
  <1> SUFFICES ASSUME IInv, StorePost PROVE IInv'
    OBVIOUS
  <1> USE DEF StorePost, Lifecycle!Store
  <1>1. PICK b \in BOOLEAN : inPeriod' = Append(inPeriod, b)
    OBVIOUS
  <1>2. TableTypes'
    BY <1>1 DEF IInv, TypeOK, TableTypes
  <1>3. TablesGrow
    BY <1>1 DEF IInv, TypeOK, TableTypes, TablesGrow
  <1>4. LabelsComeFromAnalyses'
    <2> SUFFICES ASSUME NEW p \in DOMAIN given'
                 PROVE  /\ shown'[p] # None => shown'[p] \in given'[p]
                        /\ given'[p] # {} => \E a \in DOMAIN analyses' : analyses'[a].post = p
      BY DEF LabelsComeFromAnalyses
    <2>1. CASE p \in DOMAIN given
      <3>1. given'[p] = given[p] /\ shown'[p] = shown[p]
        BY <2>1 DEF IInv, TypeOK, TableTypes
      <3> QED
        BY <2>1, <3>1 DEF IInv, LabelsComeFromAnalyses
    <2>2. CASE p = Len(given) + 1
      BY <2>2 DEF IInv, TypeOK, TableTypes
    <2> QED
      BY <2>1, <2>2 DEF IInv, TypeOK, TableTypes
  <1>5. ReportTypes' /\ ReadIsSelected' /\ ReadAgrees'
    BY <1>2, <1>3, ReadsSurvive
  <1> QED
    BY <1>2, <1>4, <1>5 DEF IInv, TypeOK

\* Saving an analysis keeps it: the verdict comes with the row it is from.
LEMMA SaveStep ==
  ASSUME IInv, NEW p \in DOMAIN given, NEW v \in Verdicts, SaveAnalysis(p, v)
  PROVE  IInv'
  <1> USE DEF SaveAnalysis, Lifecycle!Analyse
  <1>1. PICK t \in Topics \cup {None} : analyses' = Append(analyses, [post |-> p, topic |-> t])
    <2>1. PICK t \in (IF seeded THEN Topics ELSE {None}) :
            analyses' = Append(analyses, [post |-> p, topic |-> t])
      OBVIOUS
    <2> QED
      BY <2>1
  <1>2. TableTypes'
    BY <1>1 DEF IInv, TypeOK, TableTypes
  <1>3. TablesGrow
    BY <1>1 DEF IInv, TypeOK, TableTypes, TablesGrow
  <1>4. LabelsComeFromAnalyses'
    <2> SUFFICES ASSUME NEW q \in DOMAIN given'
                 PROVE  /\ shown'[q] # None => shown'[q] \in given'[q]
                        /\ given'[q] # {} => \E a \in DOMAIN analyses' : analyses'[a].post = q
      BY DEF LabelsComeFromAnalyses
    <2>1. CASE q = p
      <3>1. Len(analyses) + 1 \in DOMAIN analyses' /\ analyses'[Len(analyses) + 1].post = p
        BY <1>1 DEF IInv, TypeOK, TableTypes
      <3> QED
        BY <2>1, <3>1 DEF IInv, TypeOK, TableTypes, LabelsComeFromAnalyses
    <2>2. CASE q # p
      <3>1. given'[q] = given[q] /\ q \in DOMAIN given
        BY <2>2 DEF IInv, TypeOK, TableTypes
      <3> QED
        BY <3>1, <1>3 DEF IInv, LabelsComeFromAnalyses, TablesGrow
    <2> QED
      BY <2>1, <2>2
  <1>5. ReportTypes' /\ ReadIsSelected' /\ ReadAgrees'
    BY <1>2, <1>3, ReadsSurvive
  <1> QED
    BY <1>2, <1>4, <1>5 DEF IInv, TypeOK

\* Writing a label keeps it: it was given before.
LEMMA ShowStep ==
  ASSUME IInv, NEW p \in DOMAIN given, NEW v \in Verdicts, ShowLabel(p, v)
  PROVE  IInv'
  <1> USE DEF ShowLabel, Lifecycle!Show
  <1>1. TableTypes'
    BY DEF IInv, TypeOK, TableTypes
  <1>2. TablesGrow
    BY ReportsAssumption DEF IInv, TypeOK, TableTypes, TablesGrow
  <1>3. LabelsComeFromAnalyses'
    <2> SUFFICES ASSUME NEW q \in DOMAIN given
                 PROVE  /\ shown'[q] # None => shown'[q] \in given[q]
                        /\ given[q] # {} => \E a \in DOMAIN analyses : analyses[a].post = q
      BY DEF LabelsComeFromAnalyses
    <2>1. given[q] # {} => \E a \in DOMAIN analyses : analyses[a].post = q
      BY DEF IInv, LabelsComeFromAnalyses
    <2>2. shown'[q] # None => shown'[q] \in given[q]
      <3>1. CASE q = p
        <4>1. shown'[q] = v
          BY <3>1 DEF IInv, TypeOK, TableTypes
        <4> QED
          BY <3>1, <4>1
      <3>2. CASE q # p
        <4>1. shown'[q] = shown[q]
          BY <3>2 DEF IInv, TypeOK, TableTypes
        <4> QED
          BY <4>1 DEF IInv, LabelsComeFromAnalyses
      <3> QED
        BY <3>1, <3>2
    <2> QED
      BY <2>1, <2>2
  <1>4. ReportTypes' /\ ReadIsSelected' /\ ReadAgrees'
    BY <1>1, <1>2, ReadsSurvive
  <1> QED
    BY <1>1, <1>3, <1>4 DEF IInv, TypeOK

\* Seeding adds no row that a report reads.
LEMMA SeedStep == IInv /\ SeedLookupTables => IInv'
  <1> SUFFICES ASSUME IInv, SeedLookupTables PROVE IInv'
    OBVIOUS
  <1> USE DEF SeedLookupTables
  <1>1. TableTypes'
    BY DEF IInv, TypeOK, TableTypes
  <1>2. TablesGrow
    BY DEF TablesGrow
  <1>3. LabelsComeFromAnalyses'
    BY DEF IInv, LabelsComeFromAnalyses
  <1>4. ReportTypes' /\ ReadIsSelected' /\ ReadAgrees'
    BY <1>1, <1>2, ReadsSurvive
  <1> QED
    BY <1>1, <1>3, <1>4 DEF IInv, TypeOK

-----------------------------------------------------------------------------
\* The statements of a report, one by one.
LEMMA ReportStep == IInv /\ Report => IInv'
  <1> SUFFICES ASSUME IInv, Report PROVE IInv'
    OBVIOUS
  <1> USE DEF IInv, TypeOK, ReportTypes, Statements, ReadIsSelected, ReadAgrees
  <1> USE DEF AfterSummary, AfterByPlatform, AfterTopics, AfterClassified, AfterAlertCount,
              AfterAlerts, tables, counts
  <1>s. /\ Labelled \subseteq DOMAIN given
        /\ Alerts \subseteq Labelled
        /\ Classified \subseteq DOMAIN analyses
        /\ \A t \in Topics : About(t) \subseteq Classified
    BY SelectedRows
  <1>1. CASE BeginReport
    <2>1. TableTypes'
      <3>1. inPeriod' \in Seq(BOOLEAN) /\ Len(inPeriod') = Len(given)
        <4>1. DOMAIN given = 1 .. Len(given) /\ Len(given) \in Nat
          BY DEF TableTypes
        <4>2. inPeriod' \in [1 .. Len(given) -> BOOLEAN]
          BY <1>1, <4>1 DEF BeginReport
        <4> QED
          BY <4>1, <4>2, SeqDef, LenProperties
      <3> QED
        BY <1>1, <3>1 DEF BeginReport, TableTypes
    <2>2. LabelsComeFromAnalyses'
      BY <1>1 DEF BeginReport, LabelsComeFromAnalyses
    <2>3. ReportTypes'
      BY <1>1, FS_EmptySet, ReportsAssumption DEF BeginReport
    <2> QED
      BY <1>1, <2>1, <2>2, <2>3 DEF BeginReport
  <1>k. ASSUME UNCHANGED tables
        PROVE  /\ TableTypes' /\ LabelsComeFromAnalyses'
               /\ Labelled' = Labelled
               /\ Classified' = Classified
               /\ \A t \in Topics : About(t)' = About(t)
    BY <1>k DEF TableTypes, LabelsComeFromAnalyses, Labelled, Classified, About
  <1>2. CASE GetSentimentSummary
    BY <1>2, <1>s, <1>k DEF GetSentimentSummary
  <1>3. CASE GetSummaryByPlatform
    BY <1>3, <1>s, <1>k DEF GetSummaryByPlatform
  <1>4. CASE GetTrendingTopics
    BY <1>4, <1>s, <1>k DEF GetTrendingTopics
  <1>5. CASE CountClassified
    <2>1. \A p \in summary : \E a \in Classified : analyses[a].post = p
      <3> SUFFICES ASSUME NEW p \in summary PROVE \E a \in Classified : analyses[a].post = p
        OBVIOUS
      <3>1. p \in Labelled /\ p \in DOMAIN given
        BY <1>5, <1>s DEF CountClassified
      <3>2. inPeriod[p] /\ given[p] # {}
        BY <3>1 DEF Labelled, LabelsComeFromAnalyses
      <3>3. PICK a \in DOMAIN analyses : analyses[a].post = p
        BY <3>1, <3>2 DEF LabelsComeFromAnalyses
      <3> QED
        BY <3>2, <3>3 DEF Classified
    <2> QED
      BY <1>5, <1>s, <1>k, <2>1 DEF CountClassified
  <1>6. CASE CountAlerts
    BY <1>6, <1>s, <1>k DEF CountAlerts
  <1>7. CASE ListAlerts
    <2>1. PICK page \in SUBSET Alerts : alerts' = page /\ Cardinality(page) <= AlertLimit
      BY <1>7 DEF ListAlerts
    <2> QED
      BY <1>7, <1>s, <1>k, <2>1 DEF ListAlerts
  <1>8. CASE GetTimeline
    BY <1>8, <1>s, <1>k DEF GetTimeline
  <1>9. CASE ReportFails
    BY <1>9, <1>k DEF ReportFails
  <1> QED
    BY <1>1, <1>2, <1>3, <1>4, <1>5, <1>6, <1>7, <1>8, <1>9 DEF Report

\* The invariant of every behaviour.
LEMMA Invariance == Spec => []IInv
  <1>1. IInv /\ [Next]_vars => IInv'
    <2> SUFFICES ASSUME IInv, [Next]_vars PROVE IInv'
      OBVIOUS
    <2>1. CASE StorePost
      BY <2>1, StoreStep
    <2>2. CASE \E p \in DOMAIN given, v \in Verdicts : SaveAnalysis(p, v) \/ ShowLabel(p, v)
      BY <2>2, SaveStep, ShowStep
    <2>3. CASE Report
      BY <2>3, ReportStep
    <2>4. CASE UNCHANGED vars
      BY <2>4 DEF vars, IInv, TypeOK, TableTypes, ReportTypes, LabelsComeFromAnalyses,
                  ReadIsSelected, ReadAgrees, Labelled, About, Classified
    <2>5. CASE SeedLookupTables
      BY <2>5, SeedStep
    <2> QED
      BY <2>1, <2>2, <2>3, <2>4, <2>5 DEF Next
  <1> QED
    BY InitIInv, <1>1, PTL DEF Spec

-----------------------------------------------------------------------------
\* The tables and the parts of a report keep their types.
THEOREM ReportsTypeCorrect == Spec => []TypeOK
  BY Invariance, PTL DEF IInv

\* The parts of a finished report contain each other in the order they are read,
\* whatever the workers write meanwhile.
THEOREM PartsAgree == Spec => []LaterPartsCoverEarlier
  <1>1. IInv => LaterPartsCoverEarlier
    BY DEF IInv, ReadAgrees, LaterPartsCoverEarlier, AfterByPlatform, AfterTopics,
           AfterClassified, AfterAlertCount, AfterAlerts
  <1> QED
    BY Invariance, <1>1, PTL

\* The shares of the topics add up to the whole at most.
THEOREM SharesBounded == Spec => []SharesAddUp
  <1>1. IInv => SharesAddUp
    BY DEF IInv, ReadAgrees, ReadIsSelected, SharesAddUp, About, AfterTopics, AfterClassified,
           AfterAlertCount, AfterAlerts
  <1> QED
    BY Invariance, <1>1, PTL

\* Every post of the summary is among the classified ones.
THEOREM SummaryClassified == Spec => []SummaryIsClassified
  <1>1. IInv => SummaryIsClassified
    BY DEF IInv, ReadAgrees, SummaryIsClassified, AfterClassified, AfterAlertCount, AfterAlerts
  <1> QED
    BY Invariance, <1>1, PTL

-----------------------------------------------------------------------------
\* The workers write what PostLifecycle lets them write, and a report writes
\* nothing: its tables are those that TaskPipeline is shown to keep.
THEOREM ReportsReadTheLifecycle == Spec => Lifecycle!Spec
<1>1. Init => Lifecycle!Init
  BY DEF Init
<1>2. [Next]_vars => [Lifecycle!Next]_(Lifecycle!vars)
  <2> SUFFICES ASSUME Next PROVE Lifecycle!Next \/ UNCHANGED <<given, shown>>
    BY DEF vars, Lifecycle!vars
  <2>1. CASE StorePost
    BY <2>1 DEF StorePost, Lifecycle!Next
  <2>2. ASSUME NEW p \in DOMAIN given, NEW v \in Verdicts, SaveAnalysis(p, v) \/ ShowLabel(p, v)
        PROVE  Lifecycle!Next
    BY <2>2 DEF SaveAnalysis, ShowLabel, Lifecycle!Next
  <2>3. CASE SeedLookupTables \/ Report
    BY <2>3 DEF SeedLookupTables, Report, BeginReport, GetSentimentSummary, GetSummaryByPlatform,
       GetTrendingTopics, CountClassified, CountAlerts, ListAlerts, GetTimeline, ReportFails, tables
  <2> QED
    BY <2>1, <2>2, <2>3 DEF Next
<1> QED
  BY <1>1, <1>2, PTL DEF Spec, Lifecycle!Spec

=============================================================================
