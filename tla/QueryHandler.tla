---------------------------- MODULE QueryHandler ----------------------------
(***************************************************************************)
(* The query handler of one DNS server process: the function that          *)
(* backend/internal/dns/server.go gives to the mux, with handleA, handleNS,*)
(* handleSOA and handleCAA.  A goroutine per query looks at the zone       *)
(* filter and the record cache, which go on changing meanwhile, or asks a  *)
(* language model, and writes its responses.                               *)
(*                                                                         *)
(* What RecordCache shows of GetRecords is taken over: it returns what a   *)
(* zone's records were at one moment, or an error.  The filter is the set  *)
(* of zone names it finds, also those it finds by mistake.  A message has  *)
(* one question: the DNS library refuses others.  Its name is ASCII, so    *)
(* that idna.ToASCII, whose result tells the zone, leaves the name as it is *)
(* when handleA compares it with those of the records.                     *)
(***************************************************************************)
EXTENDS Naturals, TxtSplit

CONSTANTS
    Names,        \* domain names that queries ask about
    Types,        \* question types
    Zones,        \* names that zones of the service may have
    ZoneOf,       \* ZoneOf[n]: the registrable domain of n, or NoZone
    NoZone,       \* the empty zone name, of names without such a domain
    Blacklist,    \* BLACK_LIST_ZONE
    Addresses,    \* contents of A records
    Files,        \* pairs of a zone and a name: records so named are filed there
    Replies,      \* texts that the model may answer with
    Queries,      \* goroutines that answer queries
    None,         \* no question, no answer
    MaxChanges    \* bound: changes of records and of the filter

ASSUME NamesAssumption ==
    /\ ZoneOf \in [Names -> Zones \cup Blacklist \cup {NoZone}]
    /\ NoZone \notin Zones \cup Blacklist
ASSUME FilesAssumption == Files \subseteq Zones \X Names
ASSUME RepliesAssumption == Replies \subseteq Texts
ASSUME AnswersAssumption ==
    /\ None \notin Names \cup Addresses \cup Types
    /\ Addresses \cap Types = {}
ASSUME MaxChangesAssumption == MaxChanges \in Nat

VARIABLES
    db,           \* db[<<z, n>>]: addresses in the A records of name n filed under zone z
    filter,       \* zone names that the Bloom filter finds
    changes       \* number of changes so far

VARIABLES         \* of query q
    pc,           \* where its goroutine is
    name, type,   \* its question
    rcode,        \* m.Rcode
    records,      \* what GetRecords returned
    responseText, \* what the model answered
    writes,       \* number of its responses
    sent          \* the responses it has written

\* History variables: they record what happened and guard nothing.
VARIABLES
    past,         \* what db was since the process started
    steady,       \* names with a record, and a zone the filter found, ever since
    failed        \* failed[q]: the error of GetRecords was logged

question  == <<name, type>>
progress  == <<rcode, records, failed>>
responses == <<responseText, writes, sent>>
world     == <<db, filter, changes, past, steady>>
vars      == <<world, pc, question, progress, responses>>

Tables    == [Files -> SUBSET Addresses]
Records   == [Names -> SUBSET Addresses]
RCodes    == {"ok", "nxdomain", "servfail", "notimp"}
Answers   == Addresses \cup Types \cup {None}
Responses == [rcode : RCodes, answer : Answers, txt : Seq(Seq(Bytes))]
Empty     == [n \in Names |-> {}]

\* The records that a table has under zone z, by name.
RecordsOf(table, z) == [n \in Names |-> IF <<z, n>> \in Files THEN table[<<z, n>>] ELSE {}]

\* The addresses that a query for n can be given: a record that was renamed out of
\* its zone is not found by queries for its name.
Has(table, n) == RecordsOf(table, ZoneOf[n])[n]

TypeOK ==
    /\ db \in Tables
    /\ filter \in SUBSET (Zones \cup {NoZone})
    /\ changes \in 0 .. MaxChanges
    /\ pc \in [Queries -> {"idle", "arrived", "ask", "broken", "filter", "read", "reply", "done"}]
    /\ name \in [Queries -> Names \cup {None}]
    /\ type \in [Queries -> Types \cup {None}]
    /\ rcode \in [Queries -> RCodes]
    /\ records \in [Queries -> Records]
    /\ responseText \in [Queries -> Texts]
    /\ writes \in [Queries -> 0 .. 2]
    /\ sent \in [Queries -> SUBSET Responses]
    /\ past \in SUBSET Tables
    /\ steady \in SUBSET Names
    /\ failed \in [Queries -> BOOLEAN]

Found(n) == ZoneOf[n] \in filter

\* The server has started, over some records; its filter may be filled by now.
Init ==
    /\ db \in Tables
    /\ filter \in SUBSET (Zones \cup {NoZone})
    /\ changes = 0
    /\ pc = [q \in Queries |-> "idle"]
    /\ name = [q \in Queries |-> None]
    /\ type = [q \in Queries |-> None]
    /\ rcode = [q \in Queries |-> "ok"]
    /\ records = [q \in Queries |-> Empty]
    /\ responseText = [q \in Queries |-> <<>>]
    /\ writes = [q \in Queries |-> 0]
    /\ sent = [q \in Queries |-> {}]
    /\ past = {db}
    /\ steady = {n \in Names : Has(db, n) # {} /\ Found(n)}
    /\ failed = [q \in Queries |-> FALSE]

-----------------------------------------------------------------------------
(* What changes around the handlers.                                       *)

\* The records of a name change, under the zone that they were created in: an update
\* changes a record's name and leaves its zone as it is.
Change(f) ==
    /\ changes < MaxChanges
    /\ changes' = changes + 1
    /\ \E addresses \in SUBSET Addresses : db' = [db EXCEPT ![f] = addresses]
    /\ past' = past \cup {db'}
    /\ steady' = {m \in steady : Has(db', m) # {}}
    /\ UNCHANGED <<filter, pc, question, progress, responses>>

\* A zone is added to the filter, or a rebuild replaces the filter.
Refilter ==
    /\ changes < MaxChanges
    /\ changes' = changes + 1
    /\ filter' \in SUBSET (Zones \cup {NoZone})
    /\ steady' = {m \in steady : ZoneOf[m] \in filter'}
    /\ UNCHANGED <<db, past, pc, question, progress, responses>>

-----------------------------------------------------------------------------
(* The handler.                                                            *)

\* A response of q is written; strings are those of its TXT record.
WriteMsg(q, code, answer, strings) ==
    /\ writes' = [writes EXCEPT ![q] = @ + 1]
    /\ sent' = [sent EXCEPT ![q] = @ \cup {[rcode |-> code, answer |-> answer, txt |-> strings]}]

\* A response without a TXT record.
Write(q, code, answer) ==
    /\ WriteMsg(q, code, answer, <<>>)
    /\ UNCHANGED responseText

\* The text that the model gave, cut into the strings of a TXT record.
WriteText(q, code, text) ==
    /\ responseText' = [responseText EXCEPT ![q] = text]
    /\ WriteMsg(q, code, type[q], splitTXTRecord[text])

Go(q, next) == pc' = [pc EXCEPT ![q] = next]

\* A query arrives, and a goroutine starts.
Arrive(q, n, t) ==
    /\ pc[q] = "idle"
    /\ Go(q, "arrived")
    /\ name' = [name EXCEPT ![q] = n]
    /\ type' = [type EXCEPT ![q] = t]
    /\ UNCHANGED <<world, progress, responses>>

\* Mutant: the handler does not return after this response.
RefuseAndGoOn(q) ==
    /\ pc[q] = "arrived"
    /\ ZoneOf[name[q]] \in Blacklist
    /\ Write(q, "nxdomain", None)
    /\ Go(q, "filter")
    /\ UNCHANGED <<world, question, progress>>

\* The zone is on the blacklist.
RefuseBlacklisted(q) ==
    /\ pc[q] = "arrived"
    /\ ZoneOf[name[q]] \in Blacklist
    /\ Write(q, "nxdomain", None)
    /\ Go(q, "done")
    /\ UNCHANGED <<world, question, progress>>

\* The name has no zone: the query is denied, and the handler goes on.
DenyNoZone(q) ==
    /\ pc[q] = "arrived"
    /\ ZoneOf[name[q]] = NoZone
    /\ type[q] # "TXT"
    /\ Write(q, "nxdomain", None)
    /\ rcode' = [rcode EXCEPT ![q] = "nxdomain"]
    /\ Go(q, "filter")
    /\ UNCHANGED <<world, question, records, failed>>

\* A query of this kind is a prompt for the model.
IsPrompt(q) == type[q] = "TXT" /\ ZoneOf[name[q]] = NoZone

\* The model is asked, if the name can be converted to Unicode.
TakeAsPrompt(q) ==
    /\ pc[q] = "arrived"
    /\ IsPrompt(q)
    /\ \/ Go(q, "ask") /\ UNCHANGED responses
       \/ Go(q, "done") /\ Write(q, "servfail", None)
    /\ UNCHANGED <<world, question, progress>>

\* The model's answer is sent; or the error is answered, and the handler goes on.
Ask(q) ==
    /\ pc[q] = "ask"
    /\ \/ Go(q, "done") /\ (\E text \in Replies : WriteText(q, "ok", text)) /\ UNCHANGED rcode
       \/ /\ Go(q, "broken") /\ Write(q, "servfail", None)
          /\ rcode' = [rcode EXCEPT ![q] = "servfail"]
    /\ UNCHANGED <<world, question, records, failed>>

\* Mutant: the model is asked again after an error, and again.
SendBrokenAndRetry(q) ==
    /\ pc[q] = "broken"
    /\ \E text \in Replies : WriteText(q, rcode[q], text)
    /\ Go(q, "ask")
    /\ UNCHANGED <<world, question, progress>>

\* The response that came with the error is read.  If there is one, a second
\* answer is written.
SendBroken(q) ==
    /\ pc[q] = "broken"
    /\ \E text \in Replies : WriteText(q, rcode[q], text)
    /\ Go(q, "done")
    /\ UNCHANGED <<world, question, progress>>

\* If there is none, the process dies with all its queries, and starts again.
Panic(q) ==
    /\ pc[q] = "broken"
    /\ pc' = [p \in Queries |-> "idle"]
    /\ name' = [p \in Queries |-> None]
    /\ type' = [p \in Queries |-> None]
    /\ rcode' = [p \in Queries |-> "ok"]
    /\ records' = [p \in Queries |-> Empty]
    /\ failed' = [p \in Queries |-> FALSE]
    /\ responseText' = [p \in Queries |-> <<>>]
    /\ writes' = [p \in Queries |-> 0]
    /\ sent' = [p \in Queries |-> {}]
    /\ filter' = {}
    /\ past' = {db}
    /\ steady' = {}
    /\ UNCHANGED <<db, changes>>

\* The filter is asked for the zone, also for the empty one.
AtFilter(q) ==
    \/ pc[q] = "filter"
    \/ pc[q] = "arrived" /\ ZoneOf[name[q]] \in Zones \ Blacklist

DenyUnknown(q) ==
    /\ AtFilter(q)
    /\ ~Found(name[q])
    /\ Write(q, "nxdomain", None)
    /\ Go(q, "done")
    /\ UNCHANGED <<world, question, progress>>

\* Records are needed for questions of type A only.
PassFilter(q) ==
    /\ AtFilter(q)
    /\ Found(name[q])
    /\ Go(q, IF type[q] = "A" THEN "read" ELSE "reply")
    /\ UNCHANGED <<world, question, progress, responses>>

\* Mutant: on an error the handler returns without a response.
ReadOrReturn(q) ==
    /\ pc[q] = "read"
    /\ \/ \E table \in past :
             /\ records' = [records EXCEPT ![q] = RecordsOf(table, ZoneOf[name[q]])]
             /\ Go(q, "reply")
             /\ UNCHANGED failed
       \/ /\ failed' = [failed EXCEPT ![q] = TRUE]
          /\ Go(q, "done")
          /\ UNCHANGED records
    /\ UNCHANGED <<world, question, rcode, responses>>

\* GetRecords returns the zone's records of some moment, or an error, which is
\* logged: the query goes on with no records.
Read(q) ==
    /\ pc[q] = "read"
    /\ \/ /\ \E table \in past :
                records' = [records EXCEPT ![q] = RecordsOf(table, ZoneOf[name[q]])]
          /\ UNCHANGED failed
       \/ /\ failed' = [failed EXCEPT ![q] = TRUE]
          /\ UNCHANGED records
    /\ Go(q, "reply")
    /\ UNCHANGED <<world, question, rcode, responses>>

\* Mutant: any A record of the zone will do.
AnswerFromZone(q) ==
    LET all == UNION {records[q][n] : n \in Names} IN
    /\ type[q] = "A"
    /\ \/ all = {} /\ Write(q, "nxdomain", None)
       \/ \E address \in all : Write(q, rcode[q], address)

\* Mutant: an answer is sent only if all records of the zone have the name.
AnswerSole(q) ==
    /\ type[q] = "A"
    /\ IF \E n \in Names \ {name[q]} : records[q][n] # {}
       THEN Write(q, "nxdomain", None)
       ELSE \/ records[q][name[q]] = {} /\ Write(q, "nxdomain", None)
            \/ \E address \in records[q][name[q]] : Write(q, rcode[q], address)

\* handleA: one of the records of the name, at random.
AnswerA(q) ==
    /\ type[q] = "A"
    /\ \/ records[q][name[q]] = {} /\ Write(q, "nxdomain", None)
       \/ \E address \in records[q][name[q]] : Write(q, rcode[q], address)

\* handleSOA, handleNS, handleCAA: fixed records, whatever the name.
AnswerFixed(q) ==
    /\ type[q] \in {"SOA", "NS", "CAA"}
    /\ Write(q, rcode[q], type[q])

AnswerOther(q) ==
    /\ type[q] \notin {"A", "SOA", "NS", "CAA"}
    /\ Write(q, "notimp", None)

Reply(q) ==
    /\ pc[q] = "reply"
    /\ AnswerA(q) \/ AnswerFixed(q) \/ AnswerOther(q)
    /\ Go(q, "done")
    /\ records' = [records EXCEPT ![q] = Empty]
    /\ UNCHANGED <<world, question, rcode, failed>>

\* The goroutine ends; another one will answer another query.
Finish(q) ==
    /\ pc[q] = "done"
    /\ Go(q, "idle")
    /\ name' = [name EXCEPT ![q] = None]
    /\ type' = [type EXCEPT ![q] = None]
    /\ rcode' = [rcode EXCEPT ![q] = "ok"]
    /\ failed' = [failed EXCEPT ![q] = FALSE]
    /\ responseText' = [responseText EXCEPT ![q] = <<>>]
    /\ writes' = [writes EXCEPT ![q] = 0]
    /\ sent' = [sent EXCEPT ![q] = {}]
    /\ UNCHANGED <<world, records>>

-----------------------------------------------------------------------------
Handle(q) ==
    \/ RefuseBlacklisted(q) \/ DenyNoZone(q) \/ TakeAsPrompt(q)
    \/ Ask(q) \/ SendBroken(q) \/ Panic(q)
    \/ DenyUnknown(q) \/ PassFilter(q) \/ Read(q) \/ Reply(q)

Next ==
    \/ \E f \in Files : Change(f)
    \/ Refilter
    \/ \E q \in Queries : Handle(q) \/ Finish(q) \/ \E n \in Names, t \in Types : Arrive(q, n, t)

Spec == Init /\ [][Next]_vars

(***************************************************************************)
(* Goroutines run, and calls of GetRecords and of the model end.           *)
(***************************************************************************)
FairSpec == Spec /\ \A q \in Queries : WF_vars(Handle(q))

-----------------------------------------------------------------------------
(* Properties                                                              *)

\* A name that has had an A record ever since the server started, in a zone that
\* the filter has found ever since, is never denied to a query for its address,
\* whatever changes while the query is handled, but for a failed read: the
\* handler answers that one with NXDOMAIN, too (server.go:233-235).
SteadyNamesResolve ==
    \A q \in Queries :
        /\ type[q] = "A"
        /\ name[q] \in steady
        /\ ZoneOf[name[q]] \notin Blacklist
        /\ \E r \in sent[q] : r.rcode = "nxdomain"
        => failed[q]

\* An address that is sent was that of an A record of the very name asked for, filed
\* under that name's own zone.
AnswersBelong ==
    \A q \in Queries : \A r \in sent[q] :
        r.answer \in Addresses => \E table \in past : r.answer \in Has(table, name[q])

\* Only a query for a name that has no zone gets a second response: one that is
\* denied and goes on (server.go:212-217), or whose prompt failed (:186-192).
OnceForZones ==
    \A q \in Queries : writes[q] > 1 => ZoneOf[name[q]] = NoZone

\* A prompt is answered with what the model said, or that there was an error: the
\* strings of the TXT record (server.go 195-206) are the whole text, each fit to be
\* sent, and valid if the text is, also when the text came with the error.
PromptsAnsweredWhole ==
    \A q \in Queries : IsPrompt(q) =>
        \A r \in sent[q] : \/ r.answer = "TXT" /\ Kept(responseText[q], r.txt)
                           \/ r.answer = None /\ r.rcode = "servfail"

\* Every query is answered, also when reads or the model fail, unless the process
\* dies of another query first.
EveryQueryIsAnswered ==
    \A q \in Queries : pc[q] = "arrived" ~> writes[q] > 0 \/ pc[q] = "idle"

-----------------------------------------------------------------------------
(* The inductive invariant behind them.                                    *)

\* Steady names have been so at every moment.
SteadyOK ==
    /\ db \in past
    /\ \A n \in steady : ZoneOf[n] \in Zones /\ Found(n) /\ \A table \in past : Has(table, n) # {}

\* How many responses q has written where it is.
WritesOK(q) ==
    LET zone == ZoneOf[name[q]] IN
    /\ pc[q] = "idle" <=> name[q] = None
    /\ pc[q] = "idle" <=> type[q] = None
    /\ pc[q] \in {"idle", "arrived", "ask"} => writes[q] = 0 /\ sent[q] = {}
    /\ pc[q] \in {"filter", "broken"} => writes[q] = 1 /\ zone = NoZone
    /\ pc[q] \in {"read", "reply"} => writes[q] < 2 /\ (writes[q] = 1 => zone = NoZone)
    /\ pc[q] \in {"read", "reply"} => zone \notin Blacklist
    /\ pc[q] = "ask" => zone = NoZone
    /\ pc[q] \in {"ask", "broken"} => type[q] = "TXT"
    /\ pc[q] = "broken" => \A r \in sent[q] : r.answer = None /\ r.rcode = "servfail"
    /\ pc[q] \in {"filter", "read", "reply"} => ~IsPrompt(q)
    /\ pc[q] = "idle" => rcode[q] = "ok"
    /\ rcode[q] # "ok" => zone = NoZone

\* What q has read is what the name had at one moment.
RecordsOK(q) ==
    /\ pc[q] # "reply" => records[q] = Empty
    /\ pc[q] = "reply" => \A address \in records[q][name[q]] :
                             \E table \in past : address \in Has(table, name[q])
    /\ pc[q] = "reply" /\ type[q] = "A" /\ name[q] \in steady =>
          records[q][name[q]] # {} \/ failed[q]

Inv ==
    /\ TypeOK
    /\ SteadyOK
    /\ \A q \in Queries : WritesOK(q) /\ RecordsOK(q)
    /\ SteadyNamesResolve
    /\ AnswersBelong
    /\ OnceForZones
    /\ PromptsAnsweredWhole
=============================================================================
