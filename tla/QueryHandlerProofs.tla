------------------------- MODULE QueryHandlerProofs -------------------------
(***************************************************************************)
(* Proofs about QueryHandler, for any names, zones, types, addresses and   *)
(* queries and any number of changes: Inv is inductive.  One lemma per     *)
(* action, with one step per conjunct of Inv.  That no text is lost on its *)
(* way into a response rests on TxtSplitProofs' theorem about the splitter. *)
(***************************************************************************)
EXTENDS QueryHandler, TxtSplitProofs, TLAPS

\* The records of a zone, and the zones of names that have records.
LEMMA RecordsFacts ==
  ASSUME NEW table \in Tables
  PROVE  /\ \A z : RecordsOf(table, z) \in Records
         /\ \A n \in Names : Has(table, n) # {} => ZoneOf[n] \in Zones
<1>1. ASSUME NEW z PROVE RecordsOf(table, z) \in Records
  BY DEF Tables, Records, RecordsOf
<1>2. ASSUME NEW n \in Names, Has(table, n) # {} PROVE ZoneOf[n] \in Zones
  <2>1. <<ZoneOf[n], n>> \in Files
    BY <1>2 DEF Has, RecordsOf
  <2> QED
    BY <2>1, FilesAssumption
<1> QED
  BY <1>1, <1>2

\* No text, and no strings.
LEMMA NoText == <<>> \in Texts /\ <<>> \in Seq(Seq(Bytes))
<1>1. <<>> \in Seq(Bytes) /\ Len(<<>>) = 0 /\ <<>> \in Seq(Seq(Bytes))
  OBVIOUS
<1>2. <<>> \in Texts <=> <<>> \in Seq(Bytes) /\ Len(<<>>) <= MaxText
  BY TextsAreSequences
<1>3. 0 <= MaxText
  BY TxtAssumption
<1> QED
  BY <1>1, <1>2, <1>3

\* The initial states satisfy the invariant.
LEMMA InitInv == Init => Inv
<1> SUFFICES ASSUME Init PROVE Inv
  OBVIOUS
<1> USE NamesAssumption, AnswersAssumption, MaxChangesAssumption DEF Init
<1>1. TypeOK
  BY NoText DEF TypeOK, Records, RCodes, Empty
<1>2. SteadyOK
  BY RecordsFacts DEF SteadyOK, Found
<1>3. ASSUME NEW q \in Queries PROVE WritesOK(q) /\ RecordsOK(q)
  BY DEF WritesOK, RecordsOK
<1>4. SteadyNamesResolve /\ AnswersBelong /\ OnceForZones /\ PromptsAnsweredWhole
  BY DEF SteadyNamesResolve, AnswersBelong, OnceForZones, PromptsAnsweredWhole
<1> QED
  BY <1>1, <1>2, <1>3, <1>4 DEF Inv

\* A response that is not the third keeps the types.
LEMMA WriteMsgType ==
  ASSUME TypeOK, NEW q \in Queries, writes[q] < 2,
         NEW code \in RCodes, NEW answer \in Answers, NEW strings \in Seq(Seq(Bytes)),
         WriteMsg(q, code, answer, strings)
  PROVE  writes' \in [Queries -> 0 .. 2] /\ sent' \in [Queries -> SUBSET Responses]
<1>1. [rcode |-> code, answer |-> answer, txt |-> strings] \in Responses
  BY DEF Responses
<1>2. writes[q] + 1 \in 0 .. 2
  BY DEF TypeOK
<1> QED
  BY <1>1, <1>2 DEF TypeOK, WriteMsg

LEMMA WriteType ==
  ASSUME TypeOK, NEW q \in Queries, writes[q] < 2,
         NEW code \in RCodes, NEW answer \in Answers,
         Write(q, code, answer)
  PROVE  /\ writes' \in [Queries -> 0 .. 2] /\ sent' \in [Queries -> SUBSET Responses]
         /\ responseText' = responseText
BY WriteMsgType, NoText DEF Write

\* A text is kept in the strings that it is sent in.
LEMMA WriteTextType ==
  ASSUME TypeOK, NEW q \in Queries, writes[q] < 2, type[q] \in Types,
         NEW code \in RCodes, NEW text \in Replies,
         WriteText(q, code, text)
  PROVE  /\ writes' \in [Queries -> 0 .. 2] /\ sent' \in [Queries -> SUBSET Responses]
         /\ responseText' \in [Queries -> Texts]
         /\ responseText'[q] = text /\ Kept(text, splitTXTRecord[text])
<1>1. text \in Texts
  BY RepliesAssumption
<1>2. Kept(text, splitTXTRecord[text])
  BY <1>1, SplittingKeepsTexts DEF SplitKeepsTexts
<1>3. splitTXTRecord[text] \in Seq(Seq(Bytes))
  BY <1>2 DEF Kept
<1>4. type[q] \in Answers
  BY DEF Answers
<1>5. WriteMsg(q, code, type[q], splitTXTRecord[text])
  BY DEF WriteText
<1>6. writes' \in [Queries -> 0 .. 2] /\ sent' \in [Queries -> SUBSET Responses]
  BY <1>3, <1>4, <1>5, WriteMsgType
<1>7. responseText' \in [Queries -> Texts] /\ responseText'[q] = text
  BY <1>1 DEF TypeOK, WriteText
<1> QED
  BY <1>2, <1>6, <1>7

\* Changes of the records only take names away from the steady ones.
LEMMA ChangeInv ==
  ASSUME Inv, NEW f \in Files, Change(f)
  PROVE  Inv'
<1> USE MaxChangesAssumption DEF Inv, Change, question, progress, responses
<1>1. TypeOK'
  <2>1. db' \in Tables
    BY DEF TypeOK, Tables
  <2>2. steady' = {m \in steady : Has(db', m) # {}}
    OBVIOUS
  <2>3. steady' \subseteq Names
    BY <2>2 DEF TypeOK
  <2>4. past' \subseteq Tables
    BY <2>1 DEF TypeOK
  <2>5. changes' \in 0 .. MaxChanges
    BY DEF TypeOK
  <2> QED
    BY <2>1, <2>3, <2>4, <2>5 DEF TypeOK
<1>2. SteadyOK'
  BY DEF SteadyOK, TypeOK, Found
<1>3. ASSUME NEW q \in Queries PROVE WritesOK(q)'
  BY DEF WritesOK, IsPrompt
<1>4. ASSUME NEW q \in Queries PROVE RecordsOK(q)'
  BY DEF RecordsOK
<1>5. SteadyNamesResolve'
  BY DEF SteadyNamesResolve
<1>6. AnswersBelong'
  BY DEF AnswersBelong
<1>7. OnceForZones'
  BY DEF OnceForZones
<1>8. PromptsAnsweredWhole'
  BY DEF PromptsAnsweredWhole, IsPrompt
<1> QED
  BY <1>1, <1>2, <1>3, <1>4, <1>5, <1>6, <1>7, <1>8

\* Changes of the filter only take names away from the steady ones, too.
LEMMA RefilterInv ==
  ASSUME Inv, Refilter
  PROVE  Inv'
<1> USE MaxChangesAssumption DEF Inv, Refilter, question, progress, responses
<1>1. TypeOK'
  BY DEF TypeOK
<1>2. SteadyOK'
  BY DEF SteadyOK, TypeOK, Found
<1>3. ASSUME NEW q \in Queries PROVE WritesOK(q)'
  BY DEF WritesOK, IsPrompt
<1>4. ASSUME NEW q \in Queries PROVE RecordsOK(q)'
  BY DEF RecordsOK
<1>5. SteadyNamesResolve'
  BY DEF SteadyNamesResolve
<1>6. AnswersBelong'
  BY DEF AnswersBelong
<1>7. OnceForZones'
  BY DEF OnceForZones
<1>8. PromptsAnsweredWhole'
  BY DEF PromptsAnsweredWhole, IsPrompt
<1> QED
  BY <1>1, <1>2, <1>3, <1>4, <1>5, <1>6, <1>7, <1>8

\* A query that arrives has written nothing.
LEMMA ArriveInv ==
  ASSUME Inv, NEW q \in Queries, NEW n \in Names, NEW t \in Types, Arrive(q, n, t)
  PROVE  Inv'
<1> USE NamesAssumption, AnswersAssumption
    DEF Inv, Arrive, Go, Write, WriteMsg, world, question, progress, responses
<1>1. TypeOK'
  BY DEF TypeOK, Tables, Records, RCodes, Responses, WritesOK, Empty
<1>2. SteadyOK'
  BY DEF SteadyOK, Found
<1>3. ASSUME NEW p \in Queries PROVE WritesOK(p)'
  BY DEF WritesOK, TypeOK, Found, IsPrompt
<1>4. ASSUME NEW p \in Queries PROVE RecordsOK(p)'
  BY DEF RecordsOK, TypeOK, WritesOK
<1>5. SteadyNamesResolve'
  BY DEF SteadyNamesResolve, TypeOK, SteadyOK, WritesOK, RecordsOK, Found
<1>6. AnswersBelong'
  BY DEF AnswersBelong, TypeOK, WritesOK, RecordsOK
<1>7. OnceForZones'
  BY DEF OnceForZones, TypeOK, WritesOK
<1>8. PromptsAnsweredWhole'
  BY DEF PromptsAnsweredWhole, IsPrompt, TypeOK, WritesOK
<1> QED
  BY <1>1, <1>2, <1>3, <1>4, <1>5, <1>6, <1>7, <1>8

\* A zone on the blacklist is not the empty one: one response.
LEMMA RefuseBlacklistedInv ==
  ASSUME Inv, NEW q \in Queries, RefuseBlacklisted(q)
  PROVE  Inv'
<1> USE NamesAssumption, AnswersAssumption
    DEF Inv, RefuseBlacklisted, Go, Write, WriteMsg, world, question, progress, responses
<1>1. TypeOK'
  <2>1. writes[q] < 2 /\ "nxdomain" \in RCodes /\ None \in Answers
    BY DEF WritesOK, RCodes, Answers
  <2>2. /\ writes' \in [Queries -> 0 .. 2] /\ sent' \in [Queries -> SUBSET Responses]
        /\ responseText' = responseText
    BY <2>1, WriteType
  <2> QED
    BY <2>2 DEF TypeOK
<1>2. SteadyOK'
  BY DEF SteadyOK, Found
<1>3. ASSUME NEW p \in Queries PROVE WritesOK(p)'
  BY DEF WritesOK, TypeOK, Found, IsPrompt
<1>4. ASSUME NEW p \in Queries PROVE RecordsOK(p)'
  BY DEF RecordsOK, TypeOK, WritesOK
<1>5. SteadyNamesResolve'
  BY DEF SteadyNamesResolve, TypeOK, SteadyOK, WritesOK, RecordsOK, Found
<1>6. AnswersBelong'
  BY DEF AnswersBelong, TypeOK, WritesOK, RecordsOK
<1>7. OnceForZones'
  BY DEF OnceForZones, TypeOK, WritesOK
<1>8. PromptsAnsweredWhole'
  BY DEF PromptsAnsweredWhole, IsPrompt, TypeOK, WritesOK
<1> QED
  BY <1>1, <1>2, <1>3, <1>4, <1>5, <1>6, <1>7, <1>8

\* A name without a zone is not steady, so it may be denied.
LEMMA DenyNoZoneInv ==
  ASSUME Inv, NEW q \in Queries, DenyNoZone(q)
  PROVE  Inv'
<1> USE NamesAssumption, AnswersAssumption
    DEF Inv, DenyNoZone, Go, Write, WriteMsg, world, question, progress, responses
<1>1. TypeOK'
  <2>1. writes[q] < 2 /\ "nxdomain" \in RCodes /\ None \in Answers
    BY DEF WritesOK, RCodes, Answers
  <2>2. /\ writes' \in [Queries -> 0 .. 2] /\ sent' \in [Queries -> SUBSET Responses]
        /\ responseText' = responseText
    BY <2>1, WriteType
  <2>3. rcode' \in [Queries -> RCodes]
    BY DEF TypeOK, RCodes
  <2> QED
    BY <2>2, <2>3 DEF TypeOK
<1>2. SteadyOK'
  BY DEF SteadyOK, Found
<1>3. ASSUME NEW p \in Queries PROVE WritesOK(p)'
  BY DEF WritesOK, TypeOK, Found, IsPrompt
<1>4. ASSUME NEW p \in Queries PROVE RecordsOK(p)'
  BY DEF RecordsOK, TypeOK, WritesOK
<1>5. SteadyNamesResolve'
  BY DEF SteadyNamesResolve, TypeOK, SteadyOK, WritesOK, RecordsOK, Found
<1>6. AnswersBelong'
  BY DEF AnswersBelong, TypeOK, WritesOK, RecordsOK
<1>7. OnceForZones'
  BY DEF OnceForZones, TypeOK, WritesOK
<1>8. PromptsAnsweredWhole'
  BY DEF PromptsAnsweredWhole, IsPrompt, TypeOK, WritesOK
<1> QED
  BY <1>1, <1>2, <1>3, <1>4, <1>5, <1>6, <1>7, <1>8

\* A prompt is asked about, or refused with the only response.
LEMMA TakeAsPromptInv ==
  ASSUME Inv, NEW q \in Queries, TakeAsPrompt(q)
  PROVE  Inv'
<1> USE NamesAssumption, AnswersAssumption
    DEF Inv, TakeAsPrompt, Go, Write, WriteMsg, world, question, progress, responses
<1>1. TypeOK'
  <2>1. CASE Go(q, "ask") /\ UNCHANGED responses
    BY <2>1 DEF TypeOK, responses
  <2>2. CASE Go(q, "done") /\ Write(q, "servfail", None)
    <3>1. writes[q] < 2 /\ "servfail" \in RCodes /\ None \in Answers
      BY DEF WritesOK, RCodes, Answers
    <3>2. /\ writes' \in [Queries -> 0 .. 2] /\ sent' \in [Queries -> SUBSET Responses]
          /\ responseText' = responseText
      BY <2>2, <3>1, WriteType
    <3> QED
      BY <2>2, <3>2 DEF TypeOK
  <2> QED
    BY <2>1, <2>2
<1>2. SteadyOK'
  BY DEF SteadyOK, Found
<1>3. ASSUME NEW p \in Queries PROVE WritesOK(p)'
  BY DEF WritesOK, TypeOK, Found, IsPrompt
<1>4. ASSUME NEW p \in Queries PROVE RecordsOK(p)'
  BY DEF RecordsOK, TypeOK, WritesOK
<1>5. SteadyNamesResolve'
  BY DEF SteadyNamesResolve, TypeOK, SteadyOK, WritesOK, RecordsOK, Found
<1>6. AnswersBelong'
  BY DEF AnswersBelong, TypeOK, WritesOK, RecordsOK
<1>7. OnceForZones'
  BY DEF OnceForZones, TypeOK, WritesOK
<1>8. PromptsAnsweredWhole'
  BY DEF PromptsAnsweredWhole, IsPrompt, TypeOK, WritesOK
<1> QED
  BY <1>1, <1>2, <1>3, <1>4, <1>5, <1>6, <1>7, <1>8

\* A text that is sent keeps what is known of the responses: it goes to a query
\* without a zone, is no address, and is whole.
LEMMA TextInv ==
  ASSUME Inv, NEW q \in Queries, pc[q] \in {"ask", "broken"}, NEW text \in Replies,
         NEW code \in RCodes, WriteText(q, code, text), pc' = [pc EXCEPT ![q] = "done"],
         UNCHANGED <<world, question, progress>>
  PROVE  Inv'
<1> USE NamesAssumption, AnswersAssumption DEF Inv, world, question, progress
<1>0. /\ writes[q] < 2 /\ type[q] \in Types /\ IsPrompt(q) /\ type[q] = "TXT"
      /\ type[q] # None /\ type[q] \notin Addresses
  BY DEF WritesOK, TypeOK, IsPrompt
<1>a. /\ writes' \in [Queries -> 0 .. 2] /\ sent' \in [Queries -> SUBSET Responses]
      /\ responseText' \in [Queries -> Texts]
      /\ responseText'[q] = text /\ Kept(text, splitTXTRecord[text])
  BY <1>0, WriteTextType
<1> DEFINE response == [rcode |-> code, answer |-> type[q], txt |-> splitTXTRecord[text]]
<1>b. /\ writes' = [writes EXCEPT ![q] = @ + 1]
      /\ sent' = [sent EXCEPT ![q] = @ \cup {response}]
      /\ responseText' = [responseText EXCEPT ![q] = text]
  BY DEF WriteText, WriteMsg
<1>c. response.answer = type[q] /\ response.txt = splitTXTRecord[text] /\ response.rcode = code
  OBVIOUS
<1> HIDE DEF response
<1>d. /\ \A p \in Queries : p # q => sent'[p] = sent[p] /\ writes'[p] = writes[p]
                                     /\ responseText'[p] = responseText[p]
      /\ sent'[q] = sent[q] \cup {response} /\ writes'[q] = writes[q] + 1
      /\ pc'[q] = "done"
  BY <1>b DEF TypeOK
<1>1. TypeOK'
  BY <1>a DEF TypeOK
<1>2. SteadyOK'
  BY DEF SteadyOK, Found
<1>3. ASSUME NEW p \in Queries PROVE WritesOK(p)'
  BY <1>d DEF WritesOK, TypeOK, IsPrompt
<1>4. ASSUME NEW p \in Queries PROVE RecordsOK(p)'
  BY DEF RecordsOK, TypeOK
<1>5. SteadyNamesResolve'
  BY <1>0, <1>d DEF SteadyNamesResolve
<1>6. AnswersBelong'
  BY <1>0, <1>c, <1>d DEF AnswersBelong
<1>7. OnceForZones'
  BY <1>0, <1>d DEF OnceForZones, IsPrompt
<1>8. PromptsAnsweredWhole'
  <2> SUFFICES ASSUME NEW p \in Queries, IsPrompt(p)', NEW r \in sent'[p]
               PROVE  \/ r.answer = "TXT" /\ Kept(responseText'[p], r.txt)
                      \/ r.answer = None /\ r.rcode = "servfail"
    BY DEF PromptsAnsweredWhole
  <2>1. CASE p = q /\ r = response
    BY <1>0, <1>a, <1>c, <2>1
  <2>2. CASE p = q /\ r \in sent[q]
    <3>1. r.answer = None /\ r.rcode = "servfail"
      BY <2>2 DEF WritesOK
    <3> QED
      BY <3>1
  <2>3. CASE p # q
    BY <1>d, <2>3 DEF PromptsAnsweredWhole, IsPrompt
  <2> QED
    BY <1>d, <2>1, <2>2, <2>3
<1> QED
  BY <1>1, <1>2, <1>3, <1>4, <1>5, <1>6, <1>7, <1>8

\* The model's answer is sent, or SERVFAIL as the first response.
LEMMA AskInv ==
  ASSUME Inv, NEW q \in Queries, Ask(q)
  PROVE  Inv'
<1>1. CASE pc' = [pc EXCEPT ![q] = "done"]
  <2>1. PICK text \in Replies : WriteText(q, "ok", text)
    BY <1>1 DEF Inv, TypeOK, Ask, Go
  <2>2. "ok" \in RCodes /\ UNCHANGED <<world, question, progress>>
    BY <1>1 DEF Inv, TypeOK, Ask, Go, RCodes, progress
  <2>3. pc[q] \in {"ask", "broken"}
    BY DEF Ask
  <2> QED
    BY <1>1, <2>1, <2>2, <2>3, TextInv
<1>2. CASE /\ pc' = [pc EXCEPT ![q] = "broken"] /\ Write(q, "servfail", None)
           /\ rcode' = [rcode EXCEPT ![q] = "servfail"]
  <2> USE NamesAssumption, AnswersAssumption, <1>2
      DEF Inv, Ask, Write, WriteMsg, world, question, progress, responses
  <2>1. TypeOK'
    <3>1. writes[q] < 2 /\ "servfail" \in RCodes /\ None \in Answers
      BY DEF WritesOK, RCodes, Answers
    <3>2. /\ writes' \in [Queries -> 0 .. 2] /\ sent' \in [Queries -> SUBSET Responses]
          /\ responseText' = responseText
      BY <3>1, WriteType
    <3>3. rcode' \in [Queries -> RCodes]
      BY DEF TypeOK, RCodes
    <3> QED
      BY <3>2, <3>3 DEF TypeOK
  <2>2. SteadyOK'
    BY DEF SteadyOK, Found
  <2>3. ASSUME NEW p \in Queries PROVE WritesOK(p)'
    BY DEF WritesOK, TypeOK, Found, IsPrompt
  <2>4. ASSUME NEW p \in Queries PROVE RecordsOK(p)'
    BY DEF RecordsOK, TypeOK, WritesOK
  <2>5. SteadyNamesResolve'
    BY DEF SteadyNamesResolve, TypeOK, SteadyOK, WritesOK, RecordsOK, Found
  <2>6. AnswersBelong'
    BY DEF AnswersBelong, TypeOK, WritesOK, RecordsOK
  <2>7. OnceForZones'
    BY DEF OnceForZones, TypeOK, WritesOK
  <2>8. PromptsAnsweredWhole'
    BY DEF PromptsAnsweredWhole, IsPrompt, TypeOK, WritesOK
  <2> QED
    BY <2>1, <2>2, <2>3, <2>4, <2>5, <2>6, <2>7, <2>8
<1> QED
  BY <1>1, <1>2 DEF Ask, Go

\* A second answer is for a name without a zone, and whole.
LEMMA SendBrokenInv ==
  ASSUME Inv, NEW q \in Queries, SendBroken(q)
  PROVE  Inv'
<1>1. PICK text \in Replies : WriteText(q, rcode[q], text)
  BY DEF SendBroken
<1>2. /\ pc[q] \in {"ask", "broken"} /\ pc' = [pc EXCEPT ![q] = "done"]
      /\ UNCHANGED <<world, question, progress>>
  BY DEF SendBroken, Go
<1>3. rcode[q] \in RCodes
  BY DEF Inv, TypeOK
<1> QED
  BY <1>1, <1>2, <1>3, TextInv

\* A new process starts with no query and no steady name.
LEMMA PanicInv ==
  ASSUME Inv, NEW q \in Queries, Panic(q)
  PROVE  Inv'
<1> USE NamesAssumption, AnswersAssumption, FilesAssumption
    DEF Inv, Panic, Go, Write, WriteMsg, world, question, progress, responses
<1>1. TypeOK'
  BY NoText DEF TypeOK, Records, RCodes, WritesOK, Empty
<1>2. SteadyOK'
  BY DEF SteadyOK, Found
<1>3. ASSUME NEW p \in Queries PROVE WritesOK(p)'
  BY DEF WritesOK, TypeOK, Found, IsPrompt
<1>4. ASSUME NEW p \in Queries PROVE RecordsOK(p)'
  BY DEF RecordsOK, TypeOK, WritesOK
<1>5. SteadyNamesResolve'
  BY DEF SteadyNamesResolve, TypeOK, SteadyOK, WritesOK, RecordsOK, Found
<1>6. AnswersBelong'
  BY DEF AnswersBelong, TypeOK, WritesOK, RecordsOK
<1>7. OnceForZones'
  BY DEF OnceForZones, TypeOK, WritesOK
<1>8. PromptsAnsweredWhole'
  BY DEF PromptsAnsweredWhole, IsPrompt, TypeOK, WritesOK
<1> QED
  BY <1>1, <1>2, <1>3, <1>4, <1>5, <1>6, <1>7, <1>8

\* The zone of a steady name is found.
LEMMA DenyUnknownInv ==
  ASSUME Inv, NEW q \in Queries, DenyUnknown(q)
  PROVE  Inv'
<1> USE NamesAssumption, AnswersAssumption
    DEF Inv, DenyUnknown, Go, Write, WriteMsg, AtFilter, world, question, progress, responses
<1>1. TypeOK'
  <2>1. writes[q] < 2 /\ "nxdomain" \in RCodes /\ None \in Answers
    BY DEF WritesOK, RCodes, Answers
  <2>2. /\ writes' \in [Queries -> 0 .. 2] /\ sent' \in [Queries -> SUBSET Responses]
        /\ responseText' = responseText
    BY <2>1, WriteType
  <2> QED
    BY <2>2 DEF TypeOK
<1>2. SteadyOK'
  BY DEF SteadyOK, Found
<1>3. ASSUME NEW p \in Queries PROVE WritesOK(p)'
  BY DEF WritesOK, TypeOK, Found, IsPrompt
<1>4. ASSUME NEW p \in Queries PROVE RecordsOK(p)'
  BY DEF RecordsOK, TypeOK, WritesOK
<1>5. SteadyNamesResolve'
  BY DEF SteadyNamesResolve, TypeOK, SteadyOK, WritesOK, RecordsOK, Found
<1>6. AnswersBelong'
  BY DEF AnswersBelong, TypeOK, WritesOK, RecordsOK
<1>7. OnceForZones'
  BY DEF OnceForZones, TypeOK, WritesOK
<1>8. PromptsAnsweredWhole'
  BY DEF PromptsAnsweredWhole, IsPrompt, TypeOK, WritesOK
<1> QED
  BY <1>1, <1>2, <1>3, <1>4, <1>5, <1>6, <1>7, <1>8

\* A query that passes has written nothing, or has no zone.
LEMMA PassFilterInv ==
  ASSUME Inv, NEW q \in Queries, PassFilter(q)
  PROVE  Inv'
<1> USE NamesAssumption, AnswersAssumption
    DEF Inv, PassFilter, Go, Write, WriteMsg, AtFilter, world, question, progress, responses
<1>1. TypeOK'
  BY DEF TypeOK, Tables, Records, RCodes, Responses, WritesOK, Empty
<1>2. SteadyOK'
  BY DEF SteadyOK, Found
<1>3. ASSUME NEW p \in Queries PROVE WritesOK(p)'
  BY DEF WritesOK, TypeOK, Found, IsPrompt
<1>4. ASSUME NEW p \in Queries PROVE RecordsOK(p)'
  BY DEF RecordsOK, TypeOK, WritesOK, Empty
<1>5. SteadyNamesResolve'
  BY DEF SteadyNamesResolve, TypeOK, SteadyOK, WritesOK, RecordsOK, Found
<1>6. AnswersBelong'
  BY DEF AnswersBelong, TypeOK, WritesOK, RecordsOK
<1>7. OnceForZones'
  BY DEF OnceForZones, TypeOK, WritesOK
<1>8. PromptsAnsweredWhole'
  BY DEF PromptsAnsweredWhole, IsPrompt, TypeOK, WritesOK
<1> QED
  BY <1>1, <1>2, <1>3, <1>4, <1>5, <1>6, <1>7, <1>8

\* A steady name had a record at any moment.
LEMMA ReadInv ==
  ASSUME Inv, NEW q \in Queries, Read(q)
  PROVE  Inv'
<1> USE NamesAssumption, AnswersAssumption
    DEF Inv, Read, Go, Write, WriteMsg, world, question, progress, responses
<1>1. TypeOK'
  <2>1. ASSUME NEW table \in past PROVE RecordsOf(table, ZoneOf[name[q]]) \in Records
    BY RecordsFacts DEF TypeOK
  <2>2. records' = records \/ \E r \in Records : records' = [records EXCEPT ![q] = r]
    BY <2>1
  <2>3. failed' = failed \/ failed' = [failed EXCEPT ![q] = TRUE]
    OBVIOUS
  <2>4. records' \in [Queries -> Records]
    BY <2>2 DEF TypeOK
  <2>5. failed' \in [Queries -> BOOLEAN]
    BY <2>3 DEF TypeOK
  <2>6. pc' = [pc EXCEPT ![q] = "reply"]
    OBVIOUS
  <2> QED
    BY <2>4, <2>5, <2>6 DEF TypeOK
<1>2. SteadyOK'
  BY DEF SteadyOK, Found
<1>3. ASSUME NEW p \in Queries PROVE WritesOK(p)'
  BY DEF WritesOK, TypeOK, Found, IsPrompt
<1>4. ASSUME NEW p \in Queries PROVE RecordsOK(p)'
  <2>1. CASE p # q
    BY <2>1 DEF RecordsOK, TypeOK
  <2>2. ASSUME p = q, NEW table \in past,
               records' = [records EXCEPT ![q] = RecordsOf(table, ZoneOf[name[q]])]
        PROVE  RecordsOK(q)'
    <3>1. pc'[q] = "reply" /\ name[q] \in Names
      BY DEF TypeOK, WritesOK
    <3>2. records'[q][name[q]] = Has(table, name[q])
      BY <2>2, <3>1 DEF TypeOK, Has
    <3> QED
      BY <2>2, <3>1, <3>2 DEF RecordsOK, SteadyOK
  <2>3. CASE p = q /\ UNCHANGED records /\ failed' = [failed EXCEPT ![q] = TRUE]
    <3>1. pc'[q] = "reply" /\ failed'[q] /\ name[q] \in Names
      BY <2>3 DEF TypeOK, WritesOK
    <3>2. records'[q] = Empty
      BY <2>3 DEF RecordsOK
    <3> QED
      BY <2>3, <3>1, <3>2 DEF RecordsOK, Empty
  <2> QED
    BY <2>1, <2>2, <2>3
<1>5. SteadyNamesResolve'
  BY DEF SteadyNamesResolve, TypeOK, SteadyOK, WritesOK, RecordsOK, Found
<1>6. AnswersBelong'
  BY DEF AnswersBelong, TypeOK, WritesOK, RecordsOK
<1>7. OnceForZones'
  BY DEF OnceForZones, TypeOK, WritesOK
<1>8. PromptsAnsweredWhole'
  BY DEF PromptsAnsweredWhole, IsPrompt, TypeOK, WritesOK
<1> QED
  BY <1>1, <1>2, <1>3, <1>4, <1>5, <1>6, <1>7, <1>8

\* What is sent is in what was read.
LEMMA ReplyInv ==
  ASSUME Inv, NEW q \in Queries, Reply(q)
  PROVE  Inv'
<1> USE NamesAssumption, AnswersAssumption
    DEF Inv, Reply, Go, Write, WriteMsg, AnswerA, AnswerFixed, AnswerOther, world, question, progress, responses
<1>1. TypeOK'
  <2>1. writes[q] < 2 /\ type[q] \in Types \cup {None} /\ rcode[q] \in RCodes
    BY DEF WritesOK, TypeOK
  <2>2. records[q][name[q]] \subseteq Addresses
    BY DEF TypeOK, Records, WritesOK
  <2>3. /\ writes' \in [Queries -> 0 .. 2] /\ sent' \in [Queries -> SUBSET Responses]
        /\ responseText' = responseText
    <3>1. PICK code \in RCodes, answer \in Answers : Write(q, code, answer)
      <4>1. Addresses \subseteq Answers /\ None \in Answers /\ {"nxdomain", "notimp"} \subseteq RCodes
        BY DEF Answers, RCodes
      <4>2. type[q] \in Answers
        BY <2>1 DEF Answers
      <4>3. CASE AnswerA(q)
        BY <2>1, <2>2, <4>1, <4>3 DEF AnswerA
      <4>4. CASE AnswerFixed(q)
        BY <2>1, <4>2, <4>4 DEF AnswerFixed
      <4>5. CASE AnswerOther(q)
        BY <4>1, <4>5 DEF AnswerOther
      <4> QED
        BY <4>3, <4>4, <4>5
    <3> QED
      BY <2>1, <3>1, WriteType
  <2>4. records' \in [Queries -> Records]
    BY DEF TypeOK, Records, Empty
  <2> QED
    BY <2>3, <2>4 DEF TypeOK
<1>2. SteadyOK'
  BY DEF SteadyOK, Found
<1>3. ASSUME NEW p \in Queries PROVE WritesOK(p)'
  BY DEF WritesOK, TypeOK, Found, IsPrompt
<1>4. ASSUME NEW p \in Queries PROVE RecordsOK(p)'
  BY DEF RecordsOK, TypeOK, WritesOK
<1>5. SteadyNamesResolve'
  BY DEF SteadyNamesResolve, TypeOK, SteadyOK, WritesOK, RecordsOK, Found
<1>6. AnswersBelong'
  BY DEF AnswersBelong, TypeOK, WritesOK, RecordsOK
<1>7. OnceForZones'
  BY DEF OnceForZones, TypeOK, WritesOK
<1>8. PromptsAnsweredWhole'
  BY DEF PromptsAnsweredWhole, IsPrompt, TypeOK, WritesOK
<1> QED
  BY <1>1, <1>2, <1>3, <1>4, <1>5, <1>6, <1>7, <1>8

\* A query that ends leaves nothing behind.
LEMMA FinishInv ==
  ASSUME Inv, NEW q \in Queries, Finish(q)
  PROVE  Inv'
<1> USE NamesAssumption, AnswersAssumption
    DEF Inv, Finish, Go, Write, WriteMsg, world, question, progress, responses
<1>1. TypeOK'
  BY NoText DEF TypeOK, Records, RCodes, WritesOK, Empty
<1>2. SteadyOK'
  BY DEF SteadyOK, Found
<1>3. ASSUME NEW p \in Queries PROVE WritesOK(p)'
  BY DEF WritesOK, TypeOK, Found, IsPrompt
<1>4. ASSUME NEW p \in Queries PROVE RecordsOK(p)'
  BY DEF RecordsOK, TypeOK, WritesOK
<1>5. SteadyNamesResolve'
  BY DEF SteadyNamesResolve, TypeOK, SteadyOK, WritesOK, RecordsOK, Found
<1>6. AnswersBelong'
  BY DEF AnswersBelong, TypeOK, WritesOK, RecordsOK
<1>7. OnceForZones'
  BY DEF OnceForZones, TypeOK, WritesOK
<1>8. PromptsAnsweredWhole'
  BY DEF PromptsAnsweredWhole, IsPrompt, TypeOK, WritesOK
<1> QED
  BY <1>1, <1>2, <1>3, <1>4, <1>5, <1>6, <1>7, <1>8

\* Every step keeps the invariant.
LEMMA NextInv == Inv /\ [Next]_vars => Inv'
<1> SUFFICES ASSUME Inv, [Next]_vars PROVE Inv'
  OBVIOUS
<1>1. CASE \E f \in Files : Change(f)
  BY <1>1, ChangeInv
<1>2. CASE Refilter
  BY <1>2, RefilterInv
<1>3. ASSUME NEW q \in Queries, Handle(q) PROVE Inv'
  BY <1>3, RefuseBlacklistedInv, DenyNoZoneInv, TakeAsPromptInv, AskInv, SendBrokenInv,
     PanicInv, DenyUnknownInv, PassFilterInv, ReadInv, ReplyInv DEF Handle
<1>4. ASSUME NEW q \in Queries, Finish(q) PROVE Inv'
  BY <1>4, FinishInv
<1>5. ASSUME NEW q \in Queries, NEW n \in Names, NEW t \in Types, Arrive(q, n, t) PROVE Inv'
  BY <1>5, ArriveInv
<1>6. CASE UNCHANGED vars
  BY <1>6 DEF vars, world, question, progress, responses, Inv, TypeOK, SteadyOK, WritesOK,
     RecordsOK, Found, IsPrompt, SteadyNamesResolve, AnswersBelong, OnceForZones,
     PromptsAnsweredWhole
<1> QED
  BY <1>1, <1>2, <1>3, <1>4, <1>5, <1>6 DEF Next

-----------------------------------------------------------------------------
\* The invariant of the handler, its queries and what changes around them.
THEOREM Invariance == Spec => []Inv
<1>1. Init => Inv
  BY InitInv
<1>2. Inv /\ [Next]_vars => Inv'
  BY NextInv
<1> QED
  BY <1>1, <1>2, PTL DEF Spec

\* The variables keep their types: no query is answered more than twice.
THEOREM TypeCorrectness == Spec => []TypeOK
<1>1. Inv => TypeOK
  BY DEF Inv
<1> QED
  BY <1>1, Invariance, PTL

\* A name that has had records and a zone in the filter all the time is denied only
\* when its records could not be read.
THEOREM SteadyNamesAreNotDenied == Spec => []SteadyNamesResolve
<1>1. Inv => SteadyNamesResolve
  BY DEF Inv
<1> QED
  BY <1>1, Invariance, PTL

\* An address that is sent belonged to the name asked for.
THEOREM AnswersBelongToNames == Spec => []AnswersBelong
<1>1. Inv => AnswersBelong
  BY DEF Inv
<1> QED
  BY <1>1, Invariance, PTL

\* Queries for names that have a zone get one response.
THEOREM OneResponseForZones == Spec => []OnceForZones
<1>1. Inv => OnceForZones
  BY DEF Inv
<1> QED
  BY <1>1, Invariance, PTL

\* A prompt is answered with the whole of what the model said, in strings fit to be
\* sent and valid if the text is, or with SERVFAIL (dns/server.go:176-210).
THEOREM PromptsAreAnsweredWhole == Spec => []PromptsAnsweredWhole
<1>1. Inv => PromptsAnsweredWhole
  BY DEF Inv
<1> QED
  BY <1>1, Invariance, PTL
=============================================================================
