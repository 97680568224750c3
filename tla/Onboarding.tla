------------------------------ MODULE Onboarding ------------------------------
(***************************************************************************)
(* From onboarding answers to the contract a pipeline builds from:         *)
(* app/api/v1/sites.py, for one site.  Answers live in _site_onboarding,   *)
(* in the memory of the task (process) that served the request; the        *)
(* contract lives in S3 as contract_final.json, written by the chat agent  *)
(* (schema 1.0.0) or, when there is none, by publish (schema 0.1.0).       *)
(*                                                                         *)
(*   publish   idle -> upload -> start -> idle                             *)
(*             idle -> start -> idle                                       *)
(*                                                                         *)
(* The calls of publish to S3 and Step Functions block the event loop of   *)
(* their task, so a task does nothing else meanwhile; other tasks and the  *)
(* chat agent do.                                                          *)
(***************************************************************************)
EXTENDS Naturals, FiniteSets

CONSTANTS
    Tasks,      \* processes of the service behind the load balancer
    Answers,    \* what a user may answer
    Blank       \* "", or no answer

ASSUME OnboardingAssumption == Blank \notin Answers

VARIABLES
    memory,     \* memory[t]: _site_onboarding of task t, for the site
    restarted,  \* has some task been restarted?
    contract,   \* contract_final.json, or NoContract
    pc,         \* pc[t]: where the publication that task t serves is
    job,        \* job[t]: the contract it uses
    overtaken   \* history: tasks about to start a pipeline after somebody
                \* else has written the contract that they read or wrote

vars == <<memory, restarted, contract, pc, job, overtaken>>

(* What a contract needs, what it has, and what the pages store besides:   *)
(* "services" and "contact".                                               *)
Required == {"business_name", "core_services", "phone"}
Slots == Required \cup {"template_id"}
Fields == Slots \cup {"services", "contact"}

Store == [Fields -> Answers \cup {Blank}]
EmptyStore == [f \in Fields |-> Blank]

Contract == [schema : {"0.1.0", "1.0.0"}, slots : [Slots -> Answers \cup {Blank}]]
NoContract == [schema |-> "none", slots |-> [f \in Slots |-> Blank]]

TypeOK ==
    /\ memory \in [Tasks -> Store]
    /\ restarted \in BOOLEAN
    /\ contract \in Contract \cup {NoContract}
    /\ pc \in [Tasks -> {"idle", "upload", "start"}]
    /\ job \in [Tasks -> Contract \cup {NoContract}]
    /\ \A t \in Tasks : pc[t] = "idle" <=> job[t] = NoContract
    /\ overtaken \subseteq {t \in Tasks : pc[t] = "start"}

Init ==
    /\ memory = [t \in Tasks |-> EmptyStore]
    /\ restarted = FALSE
    /\ contract = NoContract
    /\ pc = [t \in Tasks |-> "idle"]
    /\ job = [t \in Tasks |-> NoContract]
    /\ overtaken = {}

-----------------------------------------------------------------------------
(* gates.generation_ready of _build_contract. *)
Ready(c) == \A f \in Required : c.slots[f] # Blank

(* _build_contract reads the slots, and neither "services" nor "contact". *)
BuildContract(t) == [schema |-> "0.1.0", slots |-> [f \in Slots |-> memory[t][f]]]

(* A handler of task t stores answer a of the user in some fields. *)
Save(t, fields, a) ==
    /\ pc[t] = "idle"
    /\ memory' = [memory EXCEPT ![t] = [f \in Fields |-> IF f \in fields THEN a ELSE @[f]]]
    /\ UNCHANGED <<restarted, contract, pc, job, overtaken>>

(* PATCH .../onboarding/business, .../structure and .../services keep what *)
(* is not empty.                                                           *)
SaveBusiness(t, a) == a # Blank /\ Save(t, {"business_name"}, a)
SaveStructure(t, a) == a # Blank /\ Save(t, {"template_id"}, a)
SaveServices(t, a) == a # Blank /\ Save(t, {"services"}, a)

(* PATCH .../onboarding/contact keeps the phone, empty or not, inside      *)
(* "contact".                                                              *)
SaveContact(t, a) == Save(t, {"contact"}, a)

(* PATCH .../onboarding/slots updates any slots at once. *)
SaveSlots(t, fields, a) == fields # {} /\ Save(t, fields, a)

(* Who is about to start a pipeline when the contract is written. *)
Starting == {t \in Tasks : pc[t] = "start"}

(* The chat agent has what its template asks for.  There are templates     *)
(* without core_services, and publish takes the contract as it is.         *)
ChatCompiles(a, core) ==
    /\ contract' = [schema |-> "1.0.0",
                    slots |-> [f \in Slots |-> IF f = "core_services" THEN core ELSE a]]
    /\ overtaken' = Starting
    /\ UNCHANGED <<memory, restarted, pc, job>>

-----------------------------------------------------------------------------
End(t) ==
    /\ pc' = [pc EXCEPT ![t] = "idle"]
    /\ job' = [job EXCEPT ![t] = NoContract]
    /\ overtaken' = overtaken \ {t}

(* POST .../publish with a pipeline finds a contract in S3 ... *)
BeginPublish(t) ==
    /\ pc[t] = "idle" /\ contract # NoContract
    /\ pc' = [pc EXCEPT ![t] = "start"]
    /\ job' = [job EXCEPT ![t] = contract]
    /\ UNCHANGED <<memory, restarted, contract, overtaken>>

(* ... or none, and builds one of the answers the task has in memory, if   *)
(* they suffice (else 422) ...                                             *)
BuildPublish(t) ==
    /\ pc[t] = "idle" /\ contract = NoContract
    /\ Ready(BuildContract(t))
    /\ pc' = [pc EXCEPT ![t] = "upload"]
    /\ job' = [job EXCEPT ![t] = BuildContract(t)]
    /\ UNCHANGED <<memory, restarted, contract, overtaken>>

(* ... and uploads it, over whatever is there by now. *)
Upload(t) ==
    /\ pc[t] = "upload"
    /\ contract' = job[t]
    /\ pc' = [pc EXCEPT ![t] = "start"]
    /\ overtaken' = Starting
    /\ UNCHANGED <<memory, restarted, job>>

(* The pipeline gets the template of the contract at hand; the rest it     *)
(* reads from S3.                                                          *)
StartPipeline(t) ==
    /\ pc[t] = "start"
    /\ End(t)
    /\ UNCHANGED <<memory, restarted, contract>>

(* Mutant: a failed upload is logged only. *)
FailGoesOn(t) ==
    /\ pc[t] = "upload"
    /\ pc' = [pc EXCEPT ![t] = "start"]
    /\ UNCHANGED <<memory, restarted, contract, job, overtaken>>

(* S3 or Step Functions fails: 503. *)
Fail(t) ==
    /\ pc[t] # "idle"
    /\ End(t)
    /\ UNCHANGED <<memory, restarted, contract>>

(* A deployment, a crash, scaling in and out. *)
Restart(t) ==
    /\ memory' = [memory EXCEPT ![t] = EmptyStore]
    /\ restarted' = TRUE
    /\ End(t)
    /\ UNCHANGED contract

Next ==
    \/ \E t \in Tasks :
          \/ \E a \in Answers \cup {Blank} :
                \/ SaveBusiness(t, a) \/ SaveStructure(t, a)
                \/ SaveServices(t, a) \/ SaveContact(t, a)
                \/ \E fields \in SUBSET Slots : SaveSlots(t, fields, a)
          \/ BeginPublish(t) \/ BuildPublish(t) \/ Upload(t) \/ StartPipeline(t)
          \/ Fail(t) \/ Restart(t)
    \/ \E a \in Answers, core \in Answers \cup {Blank} : ChatCompiles(a, core)

Spec == Init /\ [][Next]_vars

-----------------------------------------------------------------------------
(* Before a pipeline starts there is a contract in S3 for it to read,      *)
(* though uploads fail, tasks restart and others publish: the one whose    *)
(* template it is started with, unless somebody else has written another   *)
(* meanwhile (sites.py:989-1036).                                          *)
PipelineFindsContract ==
    \A t \in Starting :
        /\ contract # NoContract
        /\ t \notin overtaken => contract = job[t]

(* docs/API_FEATURE_DEFINITION.md:570, 578, 624: the pages store the list   *)
(* of services and the contact, and the contract is composed of what was   *)
(* entered: who filled in all pages has a contract that is ready.          *)
PagesMakeReady ==
    \A t \in Tasks :
        (\A f \in {"business_name", "services", "contact"} : memory[t][f] # Blank)
            => Ready(BuildContract(t))

(* docs/API_FEATURE_DEFINITION.md:558: what was answered is there until    *)
(* the server restarts, whichever task is asked.                           *)
AnswersKept == ~restarted => \A s, t \in Tasks : memory[s] = memory[t]

(* sites.py:988: the contract that the chat saved takes precedence:        *)
(* publish does not replace it by one it built from memory.                *)
ChatContractKept ==
    [][contract.schema = "1.0.0" => contract'.schema = "1.0.0"]_vars
=============================================================================
