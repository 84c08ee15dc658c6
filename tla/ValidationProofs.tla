-------------------------- MODULE ValidationProofs --------------------------
(***************************************************************************)
(* What Validation's operators promise for every playbook: codes that the  *)
(* validator accepts tell assertions apart, and what Preprocess returns    *)
(* names no external script and satisfies an agent's rules as well.        *)
(***************************************************************************)
EXTENDS Validation, FiniteSetTheorems, SequenceTheorems, TLAPS

-----------------------------------------------------------------------------
(* Positions.                                                              *)

\* A position is a pair of natural numbers, and its assertion is there.
LEMMA PositionType ==
    ASSUME NEW pb \in AllPlaybooks, NEW p \in Positions(pb)
    PROVE  /\ p = <<p[1], p[2]>>
           /\ p[1] \in 1..Len(pb.sections)
           /\ pb.sections[p[1]] \in Sections
           /\ p[2] \in 1..Len(pb.sections[p[1]].assertions)
           /\ At(pb, p) \in Assertions
  <1>1. PICK i \in 1..Len(pb.sections) : p \in {i} \X (1..Len(pb.sections[i].assertions))
    BY DEF Positions
  <1>2. p = <<p[1], p[2]>> /\ p[1] = i /\ p[2] \in 1..Len(pb.sections[i].assertions)
    BY <1>1
  <1>3. pb.sections \in Seq(Sections)
    BY DEF AllPlaybooks
  <1>4. pb.sections[i] \in Sections
    BY <1>3, ElementOfSeq
  <1>5. pb.sections[i].assertions \in Seq(Assertions)
    BY <1>4 DEF Sections
  <1>6. pb.sections[i].assertions[p[2]] \in Assertions
    BY <1>2, <1>5, ElementOfSeq
  <1> QED
    BY <1>2, <1>4, <1>6 DEF At

\* Of two positions one comes before the other.
LEMMA BeforeIsTotal ==
    ASSUME NEW pb \in AllPlaybooks, NEW p \in Positions(pb), NEW q \in Positions(pb), p # q
    PROVE  Before(p, q) \/ Before(q, p)
  <1>1. /\ p = <<p[1], p[2]>> /\ p[1] \in Nat /\ p[2] \in Nat
        /\ q = <<q[1], q[2]>> /\ q[1] \in Nat /\ q[2] \in Nat
    BY PositionType, SMTT(20)
  <1>2. p[1] # q[1] \/ p[2] # q[2]
    BY <1>1, Zenon
  <1> QED
    BY <1>1, <1>2 DEF Before

\* A playbook has finitely many positions.
LEMMA PositionsFinite ==
    ASSUME NEW pb \in AllPlaybooks
    PROVE  IsFiniteSet(Positions(pb))
  <1> DEFINE n == Len(pb.sections)
             row(i) == {i} \X (1..Len(pb.sections[i].assertions))
             rows == {row(i) : i \in 1..n}
  <1>1. pb.sections \in Seq(Sections)
    BY DEF AllPlaybooks
  <1>0. n \in Nat
    BY <1>1, LenProperties
  <1>2. ASSUME NEW i \in 1..n
        PROVE  IsFiniteSet(row(i))
    <2> DEFINE k == Len(pb.sections[i].assertions)
    <2>1. pb.sections[i] \in Sections
      BY <1>1, ElementOfSeq
    <2>2. pb.sections[i].assertions \in Seq(Assertions)
      BY <2>1 DEF Sections
    <2>3. k \in Int
      BY <2>2, LenProperties
    <2>4. IsFiniteSet({i})
      BY FS_Singleton, Zenon
    <2>5. IsFiniteSet(1..k)
      <3> HIDE DEF k
      <3> QED
        BY <2>3, FS_Interval
    <2> QED
      BY <2>4, <2>5, FS_Product
  <1>3. IsFiniteSet(1..n)
    <2> HIDE DEF n
    <2> QED
      BY <1>0, FS_Interval
  <1>4. IsFiniteSet(rows)
    <2> DEFINE f == [i \in 1..n |-> row(i)]
    <2>1. f \in Surjection(1..n, rows)
      BY DEF Surjection
    <2> QED
      BY <2>1, <1>3, FS_Surjection
  <1>5. \A T \in rows : IsFiniteSet(T)
    BY <1>2
  <1>6. IsFiniteSet(UNION rows)
    BY <1>4, <1>5, FS_UNION
  <1> QED
    BY <1>6 DEF Positions

-----------------------------------------------------------------------------
(* What validation promises.                                               *)

\* A playbook that is accepted shows no error at any position.
LEMMA NothingFound ==
    ASSUME NEW pb, NEW isAgent, Validate(pb, isAgent) = {}
    PROVE  \A q \in Positions(pb) :
               CodeErrors(pb, q) = {} /\ FileErrors(pb, q, isAgent) = {}
  <1> DEFINE found ==
                 UNION {CodeErrors(pb, q) \cup FileErrors(pb, q, isAgent) : q \in Positions(pb)}
  <1>1. found = {}
    <2> HIDE DEF found
    <2>1. \A A, B, C, D : A \cup B \cup C \cup D \cup found = {} => found = {}
      OBVIOUS
    <2> USE DEF found
    <2> QED
      BY <2>1, Zenon DEF Validate
  <1> QED
    BY <1>1

DistinctCodes(pb) ==
    \A p, q \in Positions(pb) : At(pb, p).code = At(pb, q).code => p = q

\* In a playbook that the validator accepts, for an agent or not, no two assertions share
\* a code, wherever they are (seenCodes is shared by the sections).
THEOREM ValidCodesAreDistinct ==
    ASSUME NEW pb \in AllPlaybooks, NEW isAgent, Validate(pb, isAgent) = {}
    PROVE  DistinctCodes(pb)
  <1>1. \A q \in Positions(pb) : CodeErrors(pb, q) = {}
    BY NothingFound
  <1>2. ASSUME NEW p \in Positions(pb), NEW q \in Positions(pb),
               At(pb, p).code = At(pb, q).code
        PROVE  ~Before(p, q)
    BY <1>1, <1>2 DEF CodeErrors, Seen
  <1> QED
    BY <1>2, BeforeIsTotal DEF DistinctCodes

\* An agent accepts no reference to an external script but in the gather specifications of
\* pre and post commands.
THEOREM AgentsRefuseScripts ==
    ASSUME NEW pb \in AllPlaybooks, Validate(pb, TRUE) = {},
           NEW r \in References(pb)
    PROVE  r[2] \in {<<"preCmds", "gather">>, <<"postCmds", "gather">>}
  <1>1. PICK q \in Positions(pb) : \E f \in At(pb, q).files : r = <<q, f>>
    BY DEF References
  <1>2. PICK f \in At(pb, q).files : r = <<q, f>>
    BY <1>1
  <1>3. f \in Places
    BY PositionType DEF Assertions
  <1>4. FileErrors(pb, q, TRUE) = {}
    BY NothingFound
  <1>5. f \notin Prohibited
    BY <1>4 DEF FileErrors
  <1> QED
    BY <1>2, <1>3, <1>5 DEF Prohibited

-----------------------------------------------------------------------------
(* What preprocessing promises.                                            *)

\* Preprocess keeps the sections and the assertions of a playbook in their places, their
\* titles, codes and needs, and all the rest of it, and returns a playbook.
LEMMA PreprocessKeeps ==
    ASSUME NEW pb \in AllPlaybooks
    PROVE  /\ Preprocess(pb) \in AllPlaybooks
           /\ Positions(Preprocess(pb)) = Positions(pb)
           /\ \A q \in Positions(pb) :
                 At(Preprocess(pb), q) = [At(pb, q) EXCEPT !.files = @ \ Inlined]
           /\ Preprocess(pb).title = pb.title
           /\ Preprocess(pb).reportDestination = pb.reportDestination
           /\ Preprocess(pb).https = pb.https
           /\ Len(Preprocess(pb).sections) = Len(pb.sections)
           /\ \A i \in 1..Len(pb.sections) :
                 /\ Preprocess(pb).sections[i].title = pb.sections[i].title
                 /\ Len(Preprocess(pb).sections[i].assertions)
                      = Len(pb.sections[i].assertions)
  <1> DEFINE n == Len(pb.sections)
             len(i) == Len(pb.sections[i].assertions)
             assertion(i, j) == [pb.sections[i].assertions[j] EXCEPT !.files = @ \ Inlined]
             assertions(i) == [j \in 1..len(i) |-> assertion(i, j)]
             section(i) == [pb.sections[i] EXCEPT !.assertions = assertions(i)]
             sections == [i \in 1..n |-> section(i)]
             new == [pb EXCEPT !.sections = sections]
  <1>1. Preprocess(pb) = new
    BY DEF Preprocess
  <1>0. pb.sections \in Seq(Sections)
    BY DEF AllPlaybooks
  <1>2. pb.sections \in Seq(Sections) /\ n \in Nat
    BY <1>0, LenProperties
  <1>3. ASSUME NEW i \in 1..n
        PROVE  /\ section(i) \in Sections
               /\ section(i).assertions = assertions(i)
               /\ Len(assertions(i)) = len(i)
    <2>1. pb.sections[i] \in Sections
      BY <1>2, ElementOfSeq
    <2>2. pb.sections[i].assertions \in Seq(Assertions) /\ len(i) \in Nat
      BY <2>1 DEF Sections
    <2>3. ASSUME NEW j \in 1..len(i)
          PROVE  assertion(i, j) \in Assertions
      <3>1. pb.sections[i].assertions[j] \in Assertions
        BY <2>2, ElementOfSeq
      <3> QED
        BY <3>1 DEF Assertions
    <2>4. assertions(i) \in [1..len(i) -> Assertions]
      BY <2>3
    <2>5. assertions(i) \in Seq(Assertions)
      BY <2>2, <2>4, SeqDef
    <2>6. Len(assertions(i)) = len(i)
      BY <2>2, <2>4, <2>5, LenProperties
    <2> QED
      BY <2>1, <2>5, <2>6 DEF Sections
  <1>4. sections \in [1..n -> Sections]
    BY <1>3
  <1>5. sections \in Seq(Sections)
    BY <1>2, <1>4, SeqDef
  <1>6. Len(sections) = n
    BY <1>2, <1>4, <1>5, LenProperties
  <1>7. new \in AllPlaybooks /\ new.sections = sections
    BY <1>5 DEF AllPlaybooks
  <1>10. Len(new.sections) = n
    BY <1>6, <1>7
  <1>11. \A i \in 1..n : new.sections[i].assertions = assertions(i)
    <2> HIDE DEF new, section
    <2>1. \A i \in 1..n : new.sections[i] = section(i)
      BY <1>7
    <2> QED
      BY <2>1, <1>3
  <1>12. \A i \in 1..n : Len(new.sections[i].assertions) = len(i)
    BY <1>3, <1>11, Zenon
  <1>8. Positions(new) = Positions(pb)
    <2> HIDE DEF new
    <2> QED
      BY <1>10, <1>12 DEF Positions
  <1>9. ASSUME NEW q \in Positions(pb)
        PROVE  At(new, q) = [At(pb, q) EXCEPT !.files = @ \ Inlined]
    <2>1. q[1] \in 1..n /\ q[2] \in 1..len(q[1])
      BY PositionType
    <2>2. At(new, q) = assertions(q[1])[q[2]]
      <3> HIDE DEF new, assertions
      <3> QED
        BY <1>11, <2>1 DEF At
    <2> QED
      BY <2>1, <2>2 DEF At
  <1>13. /\ new.title = pb.title /\ new.https = pb.https
         /\ new.reportDestination = pb.reportDestination
    <2> HIDE DEF sections
    <2> QED
      BY DEF AllPlaybooks
  <1>14. \A i \in 1..n : new.sections[i].title = pb.sections[i].title
    <2>1. ASSUME NEW i \in 1..n
          PROVE  new.sections[i].title = pb.sections[i].title
      <3>1. new.sections[i] = section(i)
        <4> HIDE DEF new, section
        <4> QED
          BY <1>7
      <3>2. pb.sections[i] \in Sections
        BY <1>2, ElementOfSeq
      <3>3. section(i).title = pb.sections[i].title
        <4> HIDE DEF assertions
        <4> QED
          BY <3>2 DEF Sections
      <3> QED
        BY <3>1, <3>3
    <2> QED
      BY <2>1
  <1> HIDE DEF new, n, len
  <1>15. \A i \in 1..n : Len(new.sections[i].assertions) = len(i)
    BY <1>12
  <1> QED
    BY <1>1, <1>7, <1>8, <1>9, <1>10, <1>13, <1>14, <1>15 DEF n, len

\* What Preprocess returns names no external script.
THEOREM PreprocessInlines ==
    ASSUME NEW pb \in AllPlaybooks
    PROVE  References(Preprocess(pb)) = {}
  <1>1. ASSUME NEW q \in Positions(pb)
        PROVE  At(Preprocess(pb), q).files = {}
    <2>1. At(pb, q) \in Assertions
      BY PositionType
    <2>2. At(Preprocess(pb), q) = [At(pb, q) EXCEPT !.files = @ \ Inlined]
      BY PreprocessKeeps
    <2>3. At(Preprocess(pb), q).files = At(pb, q).files \ Inlined
      BY <2>1, <2>2 DEF Assertions
    <2> QED
      BY <2>1, <2>3 DEF Assertions, Inlined
  <1> QED
    BY <1>1, PreprocessKeeps DEF References

\* What crobe-builder accepts once it is preprocessed crobe accepts.
THEOREM BakedIsAccepted ==
    ASSUME NEW pb \in AllPlaybooks, Validate(Preprocess(pb), FALSE) = {}
    PROVE  Validate(Preprocess(pb), TRUE) = {}
  <1> DEFINE new == Preprocess(pb)
  <1>0. References(new) = {}
    BY PreprocessInlines
  <1>1. ASSUME NEW q \in Positions(new)
        PROVE  At(new, q).files = {}
    <2> HIDE DEF new
    <2>1. \A f \in At(new, q).files : <<q, f>> \in References(new)
      BY DEF References
    <2>2. At(new, q).files \subseteq {}
      BY <1>0, <2>1
    <2> QED
      BY <2>2
  <1>2. \A q \in Positions(new) : FileErrors(new, q, TRUE) = FileErrors(new, q, FALSE)
    BY <1>1 DEF FileErrors
  <1>3. Validate(new, TRUE) = Validate(new, FALSE)
    BY <1>2 DEF Validate
  <1> QED
    BY <1>3

\* Preprocess leaves the codes as they are, and so as distinct as they were.
LEMMA PreprocessKeepsCodes ==
    ASSUME NEW pb \in AllPlaybooks, DistinctCodes(pb)
    PROVE  DistinctCodes(Preprocess(pb))
  <1>1. ASSUME NEW q \in Positions(pb)
        PROVE  At(Preprocess(pb), q).code = At(pb, q).code
    BY PositionType, PreprocessKeeps DEF Assertions
  <1> QED
    BY <1>1, PreprocessKeeps DEF DistinctCodes

-----------------------------------------------------------------------------
(* The two modes of validation, before and after preprocessing.            *)

\* Preprocessing neither mends nor breaks anything else: what the builder finds in the
\* source is what either of the two finds in the result.
THEOREM PreprocessKeepsErrors ==
    ASSUME NEW pb \in AllPlaybooks, NEW isAgent \in BOOLEAN
    PROVE  Validate(Preprocess(pb), isAgent) = Validate(pb, FALSE)
  <1> DEFINE new == Preprocess(pb)
  <1>1. /\ new.title = pb.title /\ new.reportDestination = pb.reportDestination
        /\ new.https = pb.https /\ Len(new.sections) = Len(pb.sections)
        /\ Positions(new) = Positions(pb) /\ new \in AllPlaybooks
    BY PreprocessKeeps
  <1>2. new.sections = <<>> <=> pb.sections = <<>>
    <2>1. new.sections \in Seq(Sections) /\ pb.sections \in Seq(Sections)
      BY <1>1 DEF AllPlaybooks
    <2> HIDE DEF new
    <2> QED
      BY <1>1, <2>1, EmptySeq
  <1>3. ASSUME NEW i \in 1..Len(pb.sections)
        PROVE  SectionErrors(new, i) = SectionErrors(pb, i)
    <2>1. /\ new.sections[i].title = pb.sections[i].title
          /\ Len(new.sections[i].assertions) = Len(pb.sections[i].assertions)
      BY PreprocessKeeps
    <2>2. /\ new.sections[i].assertions \in Seq(Assertions)
          /\ pb.sections[i].assertions \in Seq(Assertions)
      <3>1. new.sections[i] \in Sections /\ pb.sections[i] \in Sections
        <4>1. new.sections \in Seq(Sections) /\ pb.sections \in Seq(Sections)
          BY <1>1 DEF AllPlaybooks
        <4> HIDE DEF new
        <4> QED
          BY <1>1, <4>1, ElementOfSeq
      <3> HIDE DEF new
      <3> QED
        BY <3>1 DEF Sections
    <2> HIDE DEF new
    <2>3. new.sections[i].assertions = <<>> <=> pb.sections[i].assertions = <<>>
      BY <2>1, <2>2, EmptySeq
    <2> QED
      BY <2>1, <2>3 DEF SectionErrors
  <1>4. ASSUME NEW q \in Positions(pb)
        PROVE  /\ At(new, q).code = At(pb, q).code
               /\ At(new, q).files = {}
    BY PositionType, PreprocessKeeps DEF Assertions, Inlined
  <1> HIDE DEF new
  <1>5. ASSUME NEW q \in Positions(pb)
        PROVE  /\ CodeErrors(new, q) = CodeErrors(pb, q)
               /\ FileErrors(new, q, isAgent) = {} /\ FileErrors(pb, q, FALSE) = {}
    <2>1. CodeErrors(new, q) = CodeErrors(pb, q)
      BY <1>1, <1>4 DEF CodeErrors, Seen
    <2>2. FileErrors(new, q, isAgent) = {} /\ FileErrors(pb, q, FALSE) = {}
      BY <1>4 DEF FileErrors
    <2> QED
      BY <2>1, <2>2
  <1>6. DestinationErrors(new) = DestinationErrors(pb)
    BY <1>1 DEF DestinationErrors
  <1>7. (UNION {SectionErrors(new, i) : i \in 1..Len(new.sections)})
          = UNION {SectionErrors(pb, i) : i \in 1..Len(pb.sections)}
    BY <1>1, <1>3
  <1>8. (UNION {CodeErrors(new, q) \cup FileErrors(new, q, isAgent) : q \in Positions(new)})
          = UNION {CodeErrors(pb, q) \cup FileErrors(pb, q, FALSE) : q \in Positions(pb)}
    BY <1>1, <1>5
  <1> QED
    BY <1>1, <1>2, <1>6, <1>7, <1>8 DEF Validate, new

=============================================================================
