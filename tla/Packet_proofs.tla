----------------------------- MODULE Packet_proofs -----------------------------
(***************************************************************************)
(* Proofs about Journey and GateRun: the packet that is published, and the *)
(* record that binds it, for every set of sources, rules, facts and edits. *)
(***************************************************************************)
EXTENDS Journey, GateRun, WellFoundedInduction, TLAPS

-----------------------------------------------------------------------------
(* The journey: the files, and the bundle that was made of them.           *)

\* The files that dates are read from.
Dated(tree) ==
    /\ tree.registry \in [Sources -> Stamps]
    /\ tree.workflow.bound \in [Bound -> Stamps]
    /\ tree.packet.on \in Days
    /\ tree.rules \in [Rules -> Contents]
    /\ tree.record.checked \in Days /\ tree.record.due \in Nat

TreeFiles == {"workflow", "packet", "remedies", "journey", "record", "registry", "copies",
              "recorded", "observed", "rules", "ledger", "golden", "pins"}

\* A review that a file carries was a reading.
ReadBySomebody(remedies, history) ==
    remedies.review # NoReview =>
        [read |-> remedies.review.read, on |-> remedies.review.on] \in history

FilesInv ==
    /\ today \in Days
    /\ DOMAIN files = TreeFiles
    /\ DOMAIN files.workflow = {"bound", "inputs", "updated", "items"}
    /\ DOMAIN files.packet = {"facts", "from", "read", "inventory", "on", "synthetic", "same"}
    /\ DOMAIN files.remedies = {"workflow", "items", "copy", "updated", "review"}
    /\ DOMAIN files.record = {"checked", "due", "sound"}
    /\ Dated(files)
    /\ ReadBySomebody(files.remedies, readings)

\* What is published was in order on the day it was built.
SiteInv ==
    site # << >> =>
        /\ \E tree, day : Dated(tree) /\ Buildable(tree, day) /\ site = Bundle(tree)
        /\ ReadBySomebody(site.remedies, readings)

JourneyInv == FilesInv /\ SiteInv

\* A set of numbers that is not empty has a least member.
LEMMA LeastNumber ==
    ASSUME NEW S \in SUBSET Nat, S # {}
    PROVE  \E n \in S : \A m \in S : n <= m
<1>1. PICK x \in S : \A y \in S : ~(<<y, x>> \in OpToRel(<, Nat))
  BY NatLessThanWellFounded, WFMin
<1>2. \A y \in S : ~(y < x)
  BY <1>1 DEF OpToRel
<1>3. QED
  BY <1>2

\* The smallest of a set of days is one of them.
LEMMA MinOfDays ==
    ASSUME NEW S, S \subseteq Nat, S # {}
    PROVE  Min(S) \in S /\ \A y \in S : Min(S) <= y
BY LeastNumber DEF Min

LEMMA DaysOfJourney ==
    FirstDay \in Days /\ JourneyDays \in Days /\ Days \subseteq Nat /\ LastDay \in Nat
BY CalendarAssumption, JourneyAssumption DEF Days

LEMMA DatesAreNumbers ==
    ASSUME NEW tree, Dated(tree)
    PROVE  /\ tree.record.checked \in Int /\ tree.record.due \in Int
           /\ \A r \in Rules : tree.rules[r].verified \in Int
<1>a. \A d \in Days : d \in Int
  BY DaysOfJourney
<1>1. tree.record.checked \in Int /\ tree.record.due \in Int
  BY <1>a DEF Dated
<1>2. ASSUME NEW r \in Rules PROVE tree.rules[r].verified \in Int
  <2>1. tree.rules[r] \in Contents
    BY DEF Dated
  <2>2. tree.rules[r].verified \in {Undated} \cup Days
    BY <2>1 DEF Contents
  <2>3. QED
    BY <1>a, <2>2 DEF Undated, NoDate
<1>3. QED
  BY <1>1, <1>2

-----------------------------------------------------------------------------
(* The invariant is kept.                                                  *)

LEMMA SiteStays ==
    ASSUME SiteInv, site' = site, readings \subseteq readings'
    PROVE  SiteInv'
BY DEF SiteInv, ReadBySomebody

\* A commit that leaves the remedies alone.
LEMMA CommitKeeps ==
    ASSUME JourneyInv, UNCHANGED <<today, site, readings>>,
           NEW name \in TreeFiles \ {"workflow", "packet", "remedies", "registry", "rules", "record"},
           NEW content, files' = [files EXCEPT ![name] = content]
    PROVE  JourneyInv'
<1>1. FilesInv'
  BY DEF JourneyInv, FilesInv, Dated, TreeFiles
<1>2. QED
  BY <1>1, SiteStays DEF JourneyInv

LEMMA RefetchKeeps ==
    ASSUME JourneyInv, NEW s \in Sources, NEW digest \in Digests, Refetch(s, digest)
    PROVE  JourneyInv'
<1>1. UNCHANGED <<today, site, readings>>
  BY DEF Refetch
<1>2. PICK copied \in BOOLEAN :
          files' = [files EXCEPT !.registry[s] = [digest |-> digest, on |-> today],
                                 !.copies[s]   = IF copied THEN digest ELSE @]
  BY DEF Refetch
<1>3. [digest |-> digest, on |-> today] \in Stamps
  BY DEF JourneyInv, FilesInv, Stamps
<1>4. FilesInv'
  BY <1>1, <1>2, <1>3 DEF JourneyInv, FilesInv, Dated, TreeFiles
<1>5. QED
  BY <1>1, <1>4, SiteStays DEF JourneyInv

LEMMA ObserveKeeps ==
    ASSUME JourneyInv, NEW s \in Sources, NEW digest \in Digests, Observe(s, digest)
    PROVE  JourneyInv'
<1>1. UNCHANGED <<today, site, readings>>
  BY DEF Observe
<1>2. FilesInv'
  BY <1>1 DEF Observe, JourneyInv, FilesInv, Dated, TreeFiles
<1>3. QED
  BY <1>1, <1>2, SiteStays DEF JourneyInv

LEMMA ReverifyKeeps ==
    ASSUME JourneyInv, NEW r \in Rules, Reverify(r)
    PROVE  JourneyInv'
<1>1. UNCHANGED <<today, site, readings>>
  BY DEF Reverify
<1>2. PICK rule : files' = [files EXCEPT !.rules[r] = rule]
          /\ \/ \E d \in {Undated, today} : rule = [files.rules[r] EXCEPT !.verified = d]
             \/ \E t \in Texts : rule = [files.rules[r] EXCEPT !.body = t]
  BY DEF Reverify
<1>3. rule \in Contents
  BY <1>2 DEF Contents, JourneyInv, FilesInv, Dated
<1>4. FilesInv'
  BY <1>1, <1>2, <1>3 DEF JourneyInv, FilesInv, Dated, TreeFiles
<1>5. QED
  BY <1>1, <1>4, SiteStays DEF JourneyInv

LEMMA RebindKeeps ==
    ASSUME JourneyInv, Rebind
    PROVE  JourneyInv'
<1>1. UNCHANGED <<today, site, readings>>
  BY DEF Rebind
<1>2. PICK items \in Texts, all \in BOOLEAN :
        LET workflow == [bound |-> [s \in Bound |-> files.registry[s]],
                         inputs |-> [s \in Bound |-> files.registry[s].digest],
                         updated |-> today, items |-> items]
        IN  files' = IF all
                     THEN [files EXCEPT !.workflow = workflow,
                                        !.packet = PacketOf(workflow, today),
                                        !.remedies.workflow = workflow,
                                        !.remedies.items = items]
                     ELSE [files EXCEPT !.workflow = workflow]
  BY DEF Rebind
<1> DEFINE workflow == [bound |-> [s \in Bound |-> files.registry[s]],
                        inputs |-> [s \in Bound |-> files.registry[s].digest],
                        updated |-> today, items |-> items]
<1>3. /\ DOMAIN workflow = {"bound", "inputs", "updated", "items"}
      /\ workflow.bound \in [Bound -> Stamps]
  BY ReadinessAssumption DEF JourneyInv, FilesInv, Dated
<1>4. /\ DOMAIN PacketOf(workflow, today) =
            {"facts", "from", "read", "inventory", "on", "synthetic", "same"}
      /\ PacketOf(workflow, today).on = today
  BY DEF PacketOf
<1>5. files' = IF all
               THEN [files EXCEPT !.workflow = workflow,
                                  !.packet = PacketOf(workflow, today),
                                  !.remedies.workflow = workflow,
                                  !.remedies.items = items]
               ELSE [files EXCEPT !.workflow = workflow]
  BY <1>2
<1> HIDE DEF workflow
<1>6. FilesInv'
  BY <1>1, <1>3, <1>4, <1>5 DEF JourneyInv, FilesInv, Dated, TreeFiles, ReadBySomebody
<1>7. QED
  BY <1>1, <1>6, SiteStays DEF JourneyInv

LEMMA EditPacketKeeps ==
    ASSUME JourneyInv, EditPacket
    PROVE  JourneyInv'
<1>1. UNCHANGED <<today, site, readings>>
  BY DEF EditPacket
<1>2. PICK packet : files' = [files EXCEPT !.packet = packet]
          /\ \/ \E f \in Facts, v \in Tri : packet = [files.packet EXCEPT !.facts[f] = v]
             \/ \E i \in Items_, v \in Inventory :
                   packet = [files.packet EXCEPT !.inventory[i] = v]
             \/ \E f \in Facts :
                   packet = [files.packet EXCEPT !.from[f] = "applicant_assertion"]
             \/ packet = [files.packet EXCEPT !.on = today]
             \/ packet = [files.packet EXCEPT !.synthetic = ~@]
             \/ packet = [files.packet EXCEPT !.same = ~@]
  BY DEF EditPacket
<1>3. DOMAIN packet = DOMAIN files.packet /\ packet.on \in Days
  BY <1>2 DEF JourneyInv, FilesInv, Dated
<1>4. FilesInv'
  BY <1>1, <1>2, <1>3 DEF JourneyInv, FilesInv, Dated, TreeFiles
<1>5. QED
  BY <1>1, <1>4, SiteStays DEF JourneyInv

LEMMA RemediesKeep ==
    ASSUME JourneyInv, EditRemedies \/ ReviewRemedies
    PROVE  JourneyInv'
<1>1. CASE EditRemedies
  <2>1. UNCHANGED <<today, site, readings>>
    BY <1>1 DEF EditRemedies
  <2>2. PICK copy \in Texts, dated \in BOOLEAN :
            files' = [files EXCEPT !.remedies.copy = copy,
                                   !.remedies.updated = IF dated THEN today ELSE @]
    BY <1>1 DEF EditRemedies
  <2>3. FilesInv'
    BY <2>1, <2>2 DEF JourneyInv, FilesInv, Dated, TreeFiles, ReadBySomebody
  <2>4. QED
    BY <2>1, <2>3, SiteStays DEF JourneyInv
<1>2. CASE ReviewRemedies
  <2> DEFINE review == [read |-> RemedyContent(files.remedies), on |-> today]
  <2>1. /\ UNCHANGED <<today, site>> /\ readings' = readings \cup {review}
        /\ files' = [files EXCEPT !.remedies.review = review]
    BY <1>2 DEF ReviewRemedies
  <2>2. [read |-> review.read, on |-> review.on] = review
    OBVIOUS
  <2> HIDE DEF review
  <2>3. FilesInv'
    BY <2>1, <2>2 DEF JourneyInv, FilesInv, Dated, TreeFiles, ReadBySomebody
  <2>4. QED
    BY <2>1, <2>3, SiteStays DEF JourneyInv
<1>3. QED
  BY <1>1, <1>2

LEMMA EditJourneyKeeps ==
    ASSUME JourneyInv, EditJourney
    PROVE  JourneyInv'
<1>1. UNCHANGED <<today, site, readings>>
  BY DEF EditJourney
<1>2. FilesInv'
  BY <1>1 DEF EditJourney, JourneyInv, FilesInv, Dated, TreeFiles
<1>3. QED
  BY <1>1, <1>2, SiteStays DEF JourneyInv

LEMMA RenewRecordKeeps ==
    ASSUME JourneyInv, NEW span \in {0, 1, 3}, RenewRecord(span)
    PROVE  JourneyInv'
<1>1. UNCHANGED <<today, site, readings>>
  BY DEF RenewRecord
<1> DEFINE record == [checked |-> today, due |-> today + span, sound |-> TRUE]
<1>2. /\ DOMAIN record = {"checked", "due", "sound"}
      /\ record.checked \in Days /\ record.due \in Nat
  <2>1. today \in Nat
    BY DaysOfJourney DEF JourneyInv, FilesInv
  <2>2. QED
    BY <2>1 DEF JourneyInv, FilesInv
<1>3. files' = [files EXCEPT !.record = record]
  BY DEF RenewRecord
<1> HIDE DEF record
<1>4. FilesInv'
  BY <1>1, <1>2, <1>3 DEF JourneyInv, FilesInv, Dated, TreeFiles
<1>5. QED
  BY <1>1, <1>4, SiteStays DEF JourneyInv

LEMMA PinKeeps ==
    ASSUME JourneyInv, Pin
    PROVE  JourneyInv'
<1>1. UNCHANGED <<today, site, readings>>
      /\ files' = [files EXCEPT !.pins = [name \in Pinned |-> files[name]]]
  BY DEF Pin
<1>2. FilesInv'
  BY <1>1 DEF JourneyInv, FilesInv, Dated, TreeFiles
<1>3. QED
  BY <1>1, <1>2, SiteStays DEF JourneyInv

LEMMA BuildSiteKeeps ==
    ASSUME JourneyInv, BuildSite
    PROVE  JourneyInv'
<1>1. UNCHANGED <<today, files, readings>> /\ site' = Bundle(files) /\ Buildable(files, today)
  BY DEF BuildSite
<1>2. FilesInv'
  BY <1>1 DEF JourneyInv, FilesInv, Dated, ReadBySomebody
<1>3. Bundle(files).remedies = files.remedies
  BY DEF Bundle
<1>4. Dated(files) /\ ReadBySomebody(site'.remedies, readings')
  BY <1>1, <1>3 DEF JourneyInv, FilesInv
<1>5. SiteInv'
  BY <1>1, <1>4 DEF SiteInv
<1>6. QED
  BY <1>2, <1>5 DEF JourneyInv

LEMMA JourneyDayKeeps ==
    ASSUME JourneyInv, JourneyDay
    PROVE  JourneyInv'
<1>1. UNCHANGED <<files, site, readings>> /\ today < LastDay /\ today' = today + 1
  BY DEF JourneyDay, NextDay
<1>2. today' \in Days
  BY <1>1, DaysOfJourney DEF Days, JourneyInv, FilesInv
<1>3. FilesInv'
  BY <1>1, <1>2 DEF JourneyInv, FilesInv, Dated, ReadBySomebody
<1>4. QED
  BY <1>1, <1>3, SiteStays DEF JourneyInv

LEMMA JourneyInvariant == JourneySpec => []JourneyInv
<1>1. JourneyInit => JourneyInv
  <2> SUFFICES ASSUME JourneyInit PROVE JourneyInv
    OBVIOUS
  <2> DEFINE digest   == CHOOSE d \in Digests : TRUE
             stamp    == [digest |-> digest, on |-> 0]
             workflow == [bound |-> [s \in Bound |-> stamp],
                          inputs |-> [s \in Bound |-> digest],
                          updated |-> today, items |-> FirstText]
             packet   == PacketOf(workflow, today)
             remedies == [workflow |-> workflow, items |-> FirstText,
                          copy |-> FirstText, updated |-> today, review |-> NoReview]
             record   == [checked |-> today, due |-> today + 2, sound |-> TRUE]
             rule     == [cite |-> FirstText, verified |-> today, body |-> FirstText]
  <2>1. /\ DOMAIN files = TreeFiles
        /\ files.workflow = workflow /\ files.packet = packet /\ files.remedies = remedies
        /\ files.record = record /\ files.registry = [s \in Sources |-> stamp]
        /\ files.rules = [r \in Rules |-> rule]
        /\ today = FirstDay /\ site = << >>
    BY DEF JourneyInit, TreeFiles
  <2>2. stamp \in Stamps /\ rule \in Contents
    <3>1. digest \in Digests /\ 0 \in Days /\ today \in Days /\ FirstText \in Texts
      BY <2>1, DaysOfJourney, JourneyAssumption, VerificationAssumption DEF Days
    <3>2. QED
      BY <3>1 DEF Stamps, Contents
  <2>3. /\ DOMAIN workflow = {"bound", "inputs", "updated", "items"}
        /\ workflow.bound \in [Bound -> Stamps]
    BY <2>2
  <2>4. /\ DOMAIN packet = {"facts", "from", "read", "inventory", "on", "synthetic", "same"}
        /\ packet.on = today
    BY DEF PacketOf
  <2>5. /\ DOMAIN remedies = {"workflow", "items", "copy", "updated", "review"}
        /\ remedies.review = NoReview
    OBVIOUS
  <2>6. /\ DOMAIN record = {"checked", "due", "sound"}
        /\ record.checked = today /\ record.due = today + 2
    OBVIOUS
  <2> HIDE DEF stamp, rule, workflow, packet, remedies, record
  <2>7. FilesInv
    BY <2>1, <2>2, <2>3, <2>4, <2>5, <2>6, DaysOfJourney DEF FilesInv, Dated, ReadBySomebody
  <2>8. QED
    BY <2>1, <2>7 DEF JourneyInv, SiteInv
<1>2. JourneyInv /\ [JourneyNext]_journeyVars => JourneyInv'
  <2> SUFFICES ASSUME JourneyInv, [JourneyNext]_journeyVars PROVE JourneyInv'
    OBVIOUS
  <2>1. CASE UNCHANGED journeyVars
    BY <2>1 DEF journeyVars, JourneyInv, FilesInv, SiteInv, Dated, ReadBySomebody
  <2>2. CASE JourneyNext
    BY <2>2, RefetchKeeps, ObserveKeeps, ReverifyKeeps, RebindKeeps, EditPacketKeeps,
       RemediesKeep, EditJourneyKeeps, RenewRecordKeeps, PinKeeps, BuildSiteKeeps,
       JourneyDayKeeps DEF JourneyNext
  <2>3. QED
    BY <2>1, <2>2
<1>3. QED
  BY <1>1, <1>2, PTL DEF JourneySpec

-----------------------------------------------------------------------------
(* The types of the files.                                                 *)

\* A packet by its fields.
PacketWith(facts, from, read, inventory, on, synthetic, same) ==
    [facts |-> facts, from |-> from, read |-> read, inventory |-> inventory,
     on |-> on, synthetic |-> synthetic, same |-> same]

LEMMA PacketFromFields ==
    ASSUME NEW facts \in [Facts -> Tri], NEW from \in [Facts -> Asserted \cup {Fixture}],
           NEW read \in [Facts -> Days \cup {Undated}],
           NEW inventory \in [Items_ -> Inventory], NEW on \in Days,
           NEW synthetic \in BOOLEAN, NEW same \in BOOLEAN
    PROVE  PacketWith(facts, from, read, inventory, on, synthetic, same) \in Packets
BY Zenon DEF PacketWith, Packets

LEMMA FieldsOfPacket ==
    ASSUME NEW packet \in Packets
    PROVE  /\ packet.facts \in [Facts -> Tri]
           /\ packet.from \in [Facts -> Asserted \cup {Fixture}]
           /\ packet.read \in [Facts -> Days \cup {Undated}]
           /\ packet.inventory \in [Items_ -> Inventory]
           /\ packet.on \in Days /\ packet.synthetic \in BOOLEAN /\ packet.same \in BOOLEAN
           /\ packet = PacketWith(packet.facts, packet.from, packet.read, packet.inventory,
                                  packet.on, packet.synthetic, packet.same)
BY DEF PacketWith, Packets

\* The first packet, and the one that a new binding brings along.
LEMMA PacketOfIsPacket ==
    ASSUME NEW workflow \in Workflows, NEW day \in Days
    PROVE  PacketOf(workflow, day) \in Packets
<1> DEFINE packet == PacketOf(workflow, day)
<1>1. ASSUME NEW f \in Facts PROVE packet.facts[f] \in Tri
  <2>1. CASE \E c \in Applicability : c.fact = f
    <3> DEFINE c == CHOOSE x \in Applicability : x.fact = f
    <3>1. c \in Conditions
      BY <2>1, ReadinessAssumption
    <3>2. packet.facts[f] = c.equals
      BY <2>1 DEF PacketOf
    <3>3. QED
      BY <3>1, <3>2 DEF Conditions, Known
  <2>2. CASE ~\E c \in Applicability : c.fact = f
    BY <2>2 DEF PacketOf, Tri
  <2>3. QED
    BY <2>1, <2>2
<1>2. ASSUME NEW f \in Facts
      PROVE  /\ packet.from[f] \in Asserted \cup {Fixture}
             /\ packet.read[f] \in Days \cup {Undated}
  <2>1. CASE FactSource[f] = NoSource
    BY <2>1 DEF PacketOf, Asserted
  <2>2. CASE FactSource[f] # NoSource
    <3>1. FactSource[f] \in Bound
      BY <2>2, ReadinessAssumption
    <3>2. workflow.bound[FactSource[f]].on \in Days
      BY <3>1 DEF Workflows, Stamps
    <3>3. QED
      BY <2>2, <3>2 DEF PacketOf
  <2>3. QED
    BY <2>1, <2>2
<1>3. packet.inventory \in [Items_ -> Inventory]
  BY DEF PacketOf, Inventory
<1>4. /\ packet.facts = [f \in Facts |-> packet.facts[f]]
      /\ packet.from = [f \in Facts |-> packet.from[f]]
      /\ packet.read = [f \in Facts |-> packet.read[f]]
      /\ packet = PacketWith(packet.facts, packet.from, packet.read, packet.inventory,
                             day, TRUE, TRUE)
  BY DEF PacketOf, PacketWith
<1> HIDE DEF packet
<1>5. /\ packet.facts \in [Facts -> Tri]
      /\ packet.from \in [Facts -> Asserted \cup {Fixture}]
      /\ packet.read \in [Facts -> Days \cup {Undated}]
  BY <1>1, <1>2, <1>4
<1>6. PacketWith(packet.facts, packet.from, packet.read, packet.inventory, day, TRUE, TRUE)
         \in Packets
  BY <1>3, <1>5, PacketFromFields, TRUE \in BOOLEAN
<1>7. packet \in Packets
  BY <1>4, <1>6, Zenon
<1>8. QED
  BY <1>7 DEF packet

\* What a person edits in a packet leaves a packet.
LEMMA EditedPacketIsPacket ==
    ASSUME JourneyInv, files.packet \in Packets, EditPacket
    PROVE  files'.packet \in Packets
<1>1. PICK packet : files' = [files EXCEPT !.packet = packet]
          /\ \/ \E f \in Facts, v \in Tri : packet = [files.packet EXCEPT !.facts[f] = v]
             \/ \E i \in Items_, v \in Inventory :
                   packet = [files.packet EXCEPT !.inventory[i] = v]
             \/ \E f \in Facts :
                   packet = [files.packet EXCEPT !.from[f] = "applicant_assertion"]
             \/ packet = [files.packet EXCEPT !.on = today]
             \/ packet = [files.packet EXCEPT !.synthetic = ~@]
             \/ packet = [files.packet EXCEPT !.same = ~@]
  BY DEF EditPacket
<1>2. files'.packet = packet
  BY <1>1 DEF JourneyInv, FilesInv, TreeFiles
<1>3. today \in Days /\ "applicant_assertion" \in Asserted
  BY DEF JourneyInv, FilesInv, Asserted
<1> DEFINE old == files.packet
<1>o. /\ old.facts \in [Facts -> Tri]
      /\ old.from \in [Facts -> Asserted \cup {Fixture}]
      /\ old.read \in [Facts -> Days \cup {Undated}]
      /\ old.inventory \in [Items_ -> Inventory]
      /\ old.on \in Days /\ old.synthetic \in BOOLEAN /\ old.same \in BOOLEAN
      /\ old = PacketWith(old.facts, old.from, old.read, old.inventory,
                          old.on, old.synthetic, old.same)
  BY FieldsOfPacket
<1> HIDE DEF old
<1>4. ASSUME NEW f \in Facts, NEW v \in Tri, packet = [old EXCEPT !.facts[f] = v]
      PROVE  packet \in Packets
  <2>1. packet = PacketWith([old.facts EXCEPT ![f] = v], old.from, old.read, old.inventory,
                            old.on, old.synthetic, old.same)
    BY <1>4, <1>o DEF PacketWith
  <2>2. [old.facts EXCEPT ![f] = v] \in [Facts -> Tri]
    BY <1>o
  <2>3. QED
    BY <1>o, <2>1, <2>2, PacketFromFields
<1>5. ASSUME NEW i \in Items_, NEW v \in Inventory, packet = [old EXCEPT !.inventory[i] = v]
      PROVE  packet \in Packets
  <2>1. packet = PacketWith(old.facts, old.from, old.read, [old.inventory EXCEPT ![i] = v],
                            old.on, old.synthetic, old.same)
    BY <1>5, <1>o DEF PacketWith
  <2>2. [old.inventory EXCEPT ![i] = v] \in [Items_ -> Inventory]
    BY <1>o
  <2>3. QED
    BY <1>o, <2>1, <2>2, PacketFromFields
<1>6. ASSUME NEW f \in Facts, packet = [old EXCEPT !.from[f] = "applicant_assertion"]
      PROVE  packet \in Packets
  <2>1. packet = PacketWith(old.facts, [old.from EXCEPT ![f] = "applicant_assertion"], old.read,
                            old.inventory, old.on, old.synthetic, old.same)
    BY <1>6, <1>o DEF PacketWith
  <2>2. [old.from EXCEPT ![f] = "applicant_assertion"] \in [Facts -> Asserted \cup {Fixture}]
    BY <1>3, <1>o
  <2>3. QED
    BY <1>o, <2>1, <2>2, PacketFromFields
<1>7. ASSUME packet = [old EXCEPT !.on = today] PROVE packet \in Packets
  <2>1. packet = PacketWith(old.facts, old.from, old.read, old.inventory,
                            today, old.synthetic, old.same)
    BY <1>7, <1>o DEF PacketWith
  <2>2. QED
    BY <1>3, <1>o, <2>1, PacketFromFields
<1>8. ASSUME packet = [old EXCEPT !.synthetic = ~@] PROVE packet \in Packets
  <2>1. packet = PacketWith(old.facts, old.from, old.read, old.inventory,
                            old.on, ~old.synthetic, old.same)
    BY <1>8, <1>o DEF PacketWith
  <2>2. (~old.synthetic) \in BOOLEAN
    OBVIOUS
  <2>3. QED
    BY <1>o, <2>1, <2>2, PacketFromFields
<1>9. ASSUME packet = [old EXCEPT !.same = ~@] PROVE packet \in Packets
  <2>1. packet = PacketWith(old.facts, old.from, old.read, old.inventory,
                            old.on, old.synthetic, ~old.same)
    BY <1>9, <1>o DEF PacketWith
  <2>2. (~old.same) \in BOOLEAN
    OBVIOUS
  <2>3. QED
    BY <1>o, <2>1, <2>2, PacketFromFields
<1>10. QED
  BY <1>1, <1>2, <1>4, <1>5, <1>6, <1>7, <1>8, <1>9 DEF old

\* Only the registry, the workflow, the packet and the golden case are typed, and
\* what is published is what the files were.
LEMMA TypesKept ==
    ASSUME JourneyTypeOK, site' = site, changes' \in 0 .. MaxChanges,
           files'.registry \in [Sources -> Stamps], files'.workflow \in Workflows,
           files'.packet \in Packets, files'.golden \in SUBSET Rules
    PROVE  JourneyTypeOK'
BY DEF JourneyTypeOK

LEMMA ChangeCounts ==
    ASSUME JourneyTypeOK, Change
    PROVE  changes' \in 0 .. MaxChanges
BY JourneyAssumption DEF JourneyTypeOK, Change

\* Bindings name sources of the registry, packets answer every fact and list
\* every item, and the golden case is a set of rules, in the files and in what is
\* published (load_workflow_evidence, load_readiness_packet).
THEOREM JourneyTypeCorrect == JourneySpec => []JourneyTypeOK
<1>1. JourneyInit => JourneyTypeOK
  <2> SUFFICES ASSUME JourneyInit PROVE JourneyTypeOK
    OBVIOUS
  <2> DEFINE digest   == CHOOSE d \in Digests : TRUE
             stamp    == [digest |-> digest, on |-> 0]
             workflow == [bound |-> [s \in Bound |-> stamp],
                          inputs |-> [s \in Bound |-> digest],
                          updated |-> today, items |-> FirstText]
  <2>1. /\ files.workflow = workflow /\ files.packet = PacketOf(workflow, today)
        /\ files.registry = [s \in Sources |-> stamp] /\ files.golden = Rules
        /\ today = FirstDay /\ site = << >> /\ changes = 0
    BY DEF JourneyInit
  <2>2. digest \in Digests /\ stamp \in Stamps
    <3>1. digest \in Digests /\ 0 \in Days
      BY DaysOfJourney, JourneyAssumption DEF Days
    <3>2. QED
      BY <3>1 DEF Stamps
  <2>3. today \in Days /\ FirstText \in Texts
    BY <2>1, DaysOfJourney, VerificationAssumption
  <2> HIDE DEF digest, stamp
  <2>4. workflow \in Workflows
    BY <2>2, <2>3 DEF Workflows
  <2> HIDE DEF workflow
  <2>5. files.packet \in Packets
    BY <2>1, <2>3, <2>4, PacketOfIsPacket
  <2>6. QED
    BY <2>1, <2>2, <2>4, <2>5, JourneyAssumption DEF JourneyTypeOK
<1>2. JourneyInv /\ JourneyTypeOK /\ [JourneyNext]_journeyVars => JourneyTypeOK'
  <2> SUFFICES ASSUME JourneyInv, JourneyTypeOK, [JourneyNext]_journeyVars
               PROVE  JourneyTypeOK'
    OBVIOUS
  <2>t. /\ files.registry \in [Sources -> Stamps] /\ files.workflow \in Workflows
        /\ files.packet \in Packets /\ files.golden \in SUBSET Rules
        /\ changes \in 0 .. MaxChanges
    BY DEF JourneyTypeOK
  <2>f. DOMAIN files = TreeFiles /\ today \in Days
    BY DEF JourneyInv, FilesInv
  <2>1. ASSUME NEW s \in Sources, NEW digest \in Digests, Refetch(s, digest)
        PROVE  JourneyTypeOK'
    <3>1. PICK copied \in BOOLEAN :
              files' = [files EXCEPT !.registry[s] = [digest |-> digest, on |-> today],
                                     !.copies[s]   = IF copied THEN digest ELSE @]
      BY <2>1 DEF Refetch
    <3>2. [digest |-> digest, on |-> today] \in Stamps
      BY <2>f DEF Stamps
    <3>3. /\ files'.registry \in [Sources -> Stamps] /\ files'.workflow = files.workflow
          /\ files'.packet = files.packet /\ files'.golden = files.golden
      BY <2>t, <2>f, <3>1, <3>2 DEF TreeFiles
    <3>4. QED
      BY <2>t, <2>1, <3>3, ChangeCounts, TypesKept DEF Refetch
  <2>2. ASSUME NEW s \in Sources, NEW digest \in Digests, Observe(s, digest)
        PROVE  JourneyTypeOK'
    <3>1. /\ files'.registry = files.registry /\ files'.workflow = files.workflow
          /\ files'.packet = files.packet /\ files'.golden = files.golden
      BY <2>f, <2>2 DEF Observe, TreeFiles
    <3>2. QED
      BY <2>t, <2>2, <3>1, ChangeCounts, TypesKept DEF Observe
  <2>3. ASSUME NEW r \in Rules, Reverify(r)
        PROVE  JourneyTypeOK'
    <3>1. /\ files'.registry = files.registry /\ files'.workflow = files.workflow
          /\ files'.packet = files.packet /\ files'.golden = files.golden
      BY <2>f, <2>3 DEF Reverify, TreeFiles
    <3>2. QED
      BY <2>t, <2>3, <3>1, ChangeCounts, TypesKept DEF Reverify
  <2>4. CASE Rebind
    <3>1. PICK items \in Texts, all \in BOOLEAN :
            LET workflow == [bound |-> [s \in Bound |-> files.registry[s]],
                             inputs |-> [s \in Bound |-> files.registry[s].digest],
                             updated |-> today, items |-> items]
            IN  files' = IF all
                         THEN [files EXCEPT !.workflow = workflow,
                                            !.packet = PacketOf(workflow, today),
                                            !.remedies.workflow = workflow,
                                            !.remedies.items = items]
                         ELSE [files EXCEPT !.workflow = workflow]
      BY <2>4 DEF Rebind
    <3> DEFINE workflow == [bound |-> [s \in Bound |-> files.registry[s]],
                            inputs |-> [s \in Bound |-> files.registry[s].digest],
                            updated |-> today, items |-> items]
    <3>2. workflow \in Workflows
      <4>1. \A s \in Bound : files.registry[s] \in Stamps /\ files.registry[s].digest \in Digests
        BY <2>t, ReadinessAssumption DEF Stamps
      <4>2. QED
        BY <2>f, <4>1 DEF Workflows
    <3>3. files' = IF all
                   THEN [files EXCEPT !.workflow = workflow,
                                      !.packet = PacketOf(workflow, today),
                                      !.remedies.workflow = workflow,
                                      !.remedies.items = items]
                   ELSE [files EXCEPT !.workflow = workflow]
      BY <3>1
    <3> HIDE DEF workflow
    <3>4. PacketOf(workflow, today) \in Packets
      BY <2>f, <3>2, PacketOfIsPacket
    <3>5. /\ files'.registry = files.registry /\ files'.golden = files.golden
          /\ files'.workflow = workflow
          /\ files'.packet \in {files.packet, PacketOf(workflow, today)}
      BY <2>f, <3>3 DEF TreeFiles
    <3>6. QED
      BY <2>t, <2>4, <3>2, <3>4, <3>5, ChangeCounts, TypesKept DEF Rebind
  <2>5. CASE EditPacket
    <3>1. /\ files'.registry = files.registry /\ files'.workflow = files.workflow
          /\ files'.golden = files.golden
      BY <2>f, <2>5 DEF EditPacket, TreeFiles
    <3>2. QED
      BY <2>t, <2>5, <3>1, EditedPacketIsPacket, ChangeCounts, TypesKept DEF EditPacket
  <2>6. CASE EditRemedies \/ ReviewRemedies
    <3>1. /\ files'.registry = files.registry /\ files'.workflow = files.workflow
          /\ files'.packet = files.packet /\ files'.golden = files.golden
      BY <2>f, <2>6 DEF EditRemedies, ReviewRemedies, TreeFiles
    <3>2. QED
      BY <2>t, <2>6, <3>1, ChangeCounts, TypesKept DEF EditRemedies, ReviewRemedies
  <2>7. CASE EditJourney
    <3>1. /\ files'.registry = files.registry /\ files'.workflow = files.workflow
          /\ files'.packet = files.packet /\ files'.golden \in SUBSET Rules
      BY <2>t, <2>f, <2>7 DEF EditJourney, TreeFiles
    <3>2. QED
      BY <2>t, <2>7, <3>1, ChangeCounts, TypesKept DEF EditJourney
  <2>8. ASSUME NEW span \in {0, 1, 3}, RenewRecord(span)
        PROVE  JourneyTypeOK'
    <3>1. /\ files'.registry = files.registry /\ files'.workflow = files.workflow
          /\ files'.packet = files.packet /\ files'.golden = files.golden
      BY <2>f, <2>8 DEF RenewRecord, TreeFiles
    <3>2. QED
      BY <2>t, <2>8, <3>1, ChangeCounts, TypesKept DEF RenewRecord
  <2>9. CASE Pin
    <3>1. /\ files'.registry = files.registry /\ files'.workflow = files.workflow
          /\ files'.packet = files.packet /\ files'.golden = files.golden
      BY <2>f, <2>9 DEF Pin, TreeFiles
    <3>2. QED
      BY <2>t, <2>9, <3>1, TypesKept DEF Pin
  <2>10. CASE BuildSite
    <3>1. site'.workflow = files.workflow /\ site'.packet = files.packet
      BY <2>10 DEF BuildSite, Bundle
    <3>2. QED
      BY <2>t, <2>10, <3>1 DEF BuildSite, JourneyTypeOK
  <2>11. CASE JourneyDay
    BY <2>11 DEF JourneyDay, JourneyTypeOK
  <2>12. CASE UNCHANGED journeyVars
    BY <2>12 DEF journeyVars, JourneyTypeOK
  <2>13. QED
    BY <2>1, <2>2, <2>3, <2>4, <2>5, <2>6, <2>7, <2>8, <2>9, <2>10, <2>11, <2>12
       DEF JourneyNext
<1>3. QED
  BY <1>1, <1>2, JourneyInvariant, PTL DEF JourneySpec

-----------------------------------------------------------------------------
(* What is published was read, and still holds when it is handed on.       *)

\* Action copy that is shown as reviewed was read as it is published, on the day
\* it says (load_readiness_remedies).
THEOREM ReviewsWereMade == JourneySpec => []ReviewedCopyWasRead
<1>1. JourneyInv => ReviewedCopyWasRead
  <2> SUFFICES ASSUME JourneyInv, site # << >>, site.remedies.review # NoReview
               PROVE  /\ [read |-> <<site.remedies.copy, site.workflow.items>>,
                          on   |-> site.remedies.review.on] \in readings
                      /\ site.remedies.review.on \in site.remedies.updated .. site.result.on
    BY DEF ReviewedCopyWasRead
  <2>1. PICK tree, day : Buildable(tree, day) /\ site = Bundle(tree)
    BY DEF JourneyInv, SiteInv
  <2>2. /\ site.remedies = tree.remedies /\ site.workflow = tree.workflow
        /\ site.result = Canonical(tree)
    BY <2>1 DEF Bundle
  <2>3. site.result.on = tree.packet.on
    BY <2>2 DEF Canonical, Evaluate
  <2>4. RemediesLoad(tree.remedies, tree.workflow, tree.packet.on)
    BY <2>1 DEF Buildable
  <2>5. /\ site.remedies.items = site.workflow.items
        /\ site.remedies.review.on \in site.remedies.updated .. site.result.on
        /\ site.remedies.review.read = RemedyContent(site.remedies)
    BY <2>2, <2>3, <2>4 DEF RemediesLoad
  <2>6. [read |-> site.remedies.review.read, on |-> site.remedies.review.on] \in readings
    BY DEF JourneyInv, SiteInv, ReadBySomebody
  <2>7. QED
    BY <2>5, <2>6 DEF RemedyContent
<1>2. QED
  BY <1>1, JourneyInvariant, PTL

\* While the sources are current an evaluation depends on the answers alone.
LEMMA EvaluatedWhenCurrent ==
    ASSUME NEW workflow, NEW packet, NEW day, NEW moved,
           SourcesCurrent(workflow, day, moved)
    PROVE  LET result == Evaluate(workflow, packet, day, moved)
               applies == IF packet.same THEN ConditionState(Applicability, packet.facts)
                                         ELSE "does_not_apply"
           IN  /\ result.source = "current" /\ result.applicability = applies
               /\ result.findings = IF applies # "applies" THEN Everywhere("not_evaluated")
                                    ELSE FindingsOf(packet.facts, packet.inventory)
BY DEF Evaluate

\* A bound source is current for as long as the page takes it to be.
LEMMA BoundStaysCurrent ==
    ASSUME NEW tree, NEW clock \in Int, NEW moved, Dated(tree),
           WorkflowLoads(tree.workflow, tree.registry, tree.packet.on),
           Bound \cap moved = {}, tree.packet.on <= clock, clock <= ReviewDue(tree.workflow)
    PROVE  SourcesCurrent(tree.workflow, clock, moved)
<1> DEFINE ons == {tree.workflow.bound[s].on : s \in Bound}
<1>1. \A s \in Bound : s \in Sources /\ tree.workflow.bound[s].on \in Nat
  BY ReadinessAssumption, DaysOfJourney DEF Dated, Stamps
<1>2. ons \subseteq Nat /\ ons # {}
  BY <1>1, ReadinessAssumption
<1>3. Min(ons) \in Nat /\ \A y \in ons : Min(ons) <= y
  BY <1>2, MinOfDays
<1>4. \A s \in Bound : clock - tree.workflow.bound[s].on <= MaxAge
  <2>1. clock <= Min(ons) + MaxAge
    BY DEF ReviewDue
  <2>2. \A s \in Bound : Min(ons) <= tree.workflow.bound[s].on
    BY <1>3
  <2> HIDE DEF ons
  <2>3. QED
    BY <1>1, <1>3, <2>1, <2>2, VerificationAssumption
<1>5. \A s \in Bound : tree.workflow.bound[s].on <= tree.packet.on
  BY <1>1 DEF WorkflowLoads, RegistryLoads
<1>6. tree.packet.on \in Int
  BY DaysOfJourney DEF Dated
<1>7. \A s \in Bound : clock - tree.workflow.bound[s].on \in 0 .. MaxAge
  BY <1>1, <1>4, <1>5, <1>6, VerificationAssumption
<1>8. QED
  BY <1>7 DEF SourcesCurrent, InWindow

\* What the page hands on, Python would decide again in the same way, by
\* whatever clock the page is read (journeyHandoffState, evaluate_readiness).
THEOREM ReadyIsStillReady == JourneySpec => []ReadyMeansReevaluates
<1>1. JourneyInv => ReadyMeansReevaluates
  <2> SUFFICES ASSUME JourneyInv, site # << >>,
                      NEW clock \in 0 .. JourneyDays + MaxAge + 1, NEW answer \in Tri,
                      Handoff(site, clock, answer) = "simulation_ready"
               PROVE  LET again == Evaluate(site.workflow, site.packet, clock, site.changed)
                      IN  /\ again.source = "current" /\ again.applicability = "applies"
                          /\ again.findings = site.result.findings
                          /\ \A r \in site.journey.routes :
                                /\ DependsOn[r] \cap site.changed = {}
                                /\ InWindow(site.rules[r].verified, clock)
                          /\ Counts(site.record, clock)
    BY DEF ReadyMeansReevaluates
  <2>1. PICK tree, day : Dated(tree) /\ Buildable(tree, day) /\ site = Bundle(tree)
    BY DEF JourneyInv, SiteInv
  <2>2. /\ site.workflow = tree.workflow /\ site.packet = tree.packet
        /\ site.result = Canonical(tree) /\ site.rules = tree.rules
        /\ site.record = tree.record
        /\ site.journey = Envelope(tree, Canonical(tree))
    BY <2>1 DEF Bundle
  <2>3. /\ Canonical(tree).on = tree.packet.on
        /\ Canonical(tree).due = ReviewDue(tree.workflow)
        /\ site.journey.asOf = tree.packet.on
        /\ site.journey.routes = tree.journey.routes
    BY <2>2 DEF Canonical, Evaluate, Envelope
  <2>4. JourneyCurrent(site, clock) /\ PageLoads(site.record, clock)
    BY DEF Handoff
  <2>5. /\ Bound \cap site.changed = {} /\ clock <= ReviewDue(tree.workflow)
        /\ tree.packet.on <= clock
        /\ \A r \in tree.journey.routes : RuleStatus(site, r, clock) = "verified"
    BY <2>2, <2>3, <2>4 DEF JourneyCurrent, PageSourceCurrent
  <2>6. clock \in Int /\ MaxAge \in Nat
    BY DaysOfJourney, VerificationAssumption
  <2>7. SourcesCurrent(site.workflow, clock, site.changed)
    BY <2>1, <2>2, <2>5, <2>6, BoundStaysCurrent DEF Buildable
  <2>8. JourneyResolves(tree, Canonical(tree))
    BY <2>1 DEF Buildable
  <2>9. /\ Canonical(tree).applicability = "applies"
        /\ SourcesCurrent(tree.workflow, tree.packet.on, {})
    BY <2>8 DEF JourneyResolves, Canonical, Evaluate
  <2> DEFINE again   == Evaluate(site.workflow, site.packet, clock, site.changed)
             applies == IF tree.packet.same
                        THEN ConditionState(Applicability, tree.packet.facts)
                        ELSE "does_not_apply"
  <2>10. /\ again.source = "current" /\ again.applicability = applies
         /\ again.findings = IF applies # "applies" THEN Everywhere("not_evaluated")
                             ELSE FindingsOf(tree.packet.facts, tree.packet.inventory)
    BY <2>2, <2>7, EvaluatedWhenCurrent
  <2>11. /\ Canonical(tree).applicability = applies
         /\ Canonical(tree).findings =
                IF applies # "applies" THEN Everywhere("not_evaluated")
                ELSE FindingsOf(tree.packet.facts, tree.packet.inventory)
    BY <2>9, EvaluatedWhenCurrent DEF Canonical
  <2>12. ASSUME NEW r \in tree.journey.routes
         PROVE  /\ DependsOn[r] \cap site.changed = {}
                /\ InWindow(site.rules[r].verified, clock)
    <3>1. r \in Rules
      BY <2>8 DEF JourneyResolves, RoutesHold, Matched
    <3>2. site.rules[r].verified \in Int
      BY <2>1, <2>2, <3>1, DatesAreNumbers
    <3>3. RuleStatus(site, r, clock) = "verified"
      BY <2>5
    <3>4. /\ DependsOn[r] \cap site.changed = {}
          /\ ~(clock - site.rules[r].verified < 0)
          /\ ~(clock - site.rules[r].verified > MaxAge)
      BY <3>3 DEF RuleStatus
    <3>5. QED
      BY <2>6, <3>2, <3>4 DEF InWindow
  <2>13. Counts(site.record, clock)
    <3>1. site.record.checked \in Int /\ site.record.due \in Int
      BY <2>1, <2>2, DatesAreNumbers
    <3>2. QED
      BY <2>4, <2>6, <3>1, AvailabilityAssumption DEF PageLoads, Counts, Loads
  <2> HIDE DEF again, applies
  <2>14. QED
    BY <2>2, <2>3, <2>9, <2>10, <2>11, <2>12, <2>13 DEF again
<1>2. QED
  BY <1>1, JourneyInvariant, PTL

-----------------------------------------------------------------------------
(* The findings of a packet.                                               *)

LEMMA ItemsInOrder ==
    /\ Len(Requirements) \in Nat \ {0} /\ Items_ = 1 .. Len(Requirements)
    /\ \A i \in Items_ : /\ Requirements[i].when \subseteq Conditions
                         /\ Requirements[i].parent \in 0 .. i - 1
<1> DEFINE Item == [when : SUBSET Conditions, parent : Nat]
<1>1. Requirements \in Seq(Item) /\ Requirements # << >>
  BY ReadinessAssumption
<1>2. /\ Len(Requirements) \in Nat \ {0} /\ Items_ = 1 .. Len(Requirements)
      /\ \A i \in Items_ : Requirements[i] \in Item
  <2> HIDE DEF Item
  <2>1. QED
    BY <1>1 DEF Items_
<1>3. \A i \in Items_ : Requirements[i].parent < i
  BY ReadinessAssumption
<1>4. QED
  BY <1>2, <1>3

\* What is found of an item depends on the items before it.
LEMMA FindingLooksBack ==
    ASSUME NEW i \in Items_, NEW facts, NEW inventory, NEW f, NEW g,
           \A j \in 1 .. i - 1 : f[j] = g[j]
    PROVE  RequirementFinding(i, facts, inventory, f) = RequirementFinding(i, facts, inventory, g)
<1> DEFINE parent == Requirements[i].parent
<1>1. i \in Nat /\ parent \in 0 .. i - 1
  BY ItemsInOrder
<1>2. parent # 0 => f[parent] = g[parent]
  BY <1>1
<1>3. QED
  BY <1>2 DEF RequirementFinding

\* The loop of _active_findings goes through, and leaves for each item what
\* _requirement_finding makes of those before it.
LEMMA FindingsInTurn ==
    ASSUME NEW facts, NEW inventory
    PROVE  LET found == FindingsOf(facts, inventory)
           IN  found = [i \in Items_ |-> RequirementFinding(i, facts, inventory, found)]
<1> DEFINE F(i, f) == RequirementFinding(i, facts, inventory, f)
           Fits(f, n) == f = [i \in 1 .. n |-> F(i, f)]
           Stuck == {n \in 0 .. Len(Requirements) : ~\E f : Fits(f, n)}
<1>1. Stuck = {}
  <2> SUFFICES ASSUME Stuck # {} PROVE FALSE
    OBVIOUS
  <2>1. Stuck \in SUBSET Nat
    BY ItemsInOrder
  <2>2. PICK n \in Stuck : \A m \in Stuck : n <= m
    BY <2>1, LeastNumber
  <2>3. n \in 0 .. Len(Requirements) /\ Len(Requirements) \in Nat /\ ~\E f : Fits(f, n)
    BY ItemsInOrder
  <2>4. CASE n = 0
    <3>1. \A f : 1 .. 0 = {} /\ [i \in {} |-> F(i, f)] = << >>
      OBVIOUS
    <3>2. Fits(<< >>, 0)
      BY <3>1
    <3>3. QED
      BY <2>3, <2>4, <3>2
  <2>5. CASE n # 0
    <3>1. n - 1 \in 0 .. Len(Requirements) /\ n - 1 \notin Stuck
      BY <2>2, <2>3, <2>5
    <3>2. PICK f : Fits(f, n - 1)
      BY <3>1
    <3> DEFINE g == [i \in 1 .. n |-> IF i < n THEN f[i] ELSE F(n, f)]
    <3>3. \A i \in 1 .. n - 1 : g[i] = f[i] /\ f[i] = F(i, f)
      BY <2>3, <3>2
    <3>4. g[n] = F(n, f)
      BY <2>3, <2>5
    <3>5. ASSUME NEW i \in 1 .. n PROVE F(i, f) = F(i, g)
      <4>1. i \in Items_ /\ i \in Nat
        BY <2>3, ItemsInOrder
      <4>2. \A j \in 1 .. i - 1 : f[j] = g[j]
        BY <2>3, <3>3
      <4>3. QED
        BY <4>1, <4>2, FindingLooksBack
    <3>6. \A i \in 1 .. n : g[i] = F(i, g)
      <4> HIDE DEF g, F
      <4> QED
        BY <2>3, <3>3, <3>4, <3>5
    <3>7. Fits(g, n)
      <4>1. g = [i \in 1 .. n |-> g[i]]
        OBVIOUS
      <4> HIDE DEF g, F
      <4> QED
        BY <3>6, <4>1
    <3>8. QED
      BY <2>3, <3>7
  <2>6. QED
    BY <2>4, <2>5
<1>2. \E f : f = [i \in Items_ |-> F(i, f)]
  BY <1>1, ItemsInOrder
<1>3. FindingsOf(facts, inventory) = CHOOSE f : f = [i \in Items_ |-> F(i, f)]
  BY DEF FindingsOf
<1>4. QED
  BY <1>2, <1>3

\* A condition that is settled stays settled, whatever else is answered.
LEMMA AnswersSettle ==
    ASSUME NEW facts, NEW answers, NEW when \in SUBSET Conditions,
           DOMAIN answers = {f \in Facts : facts[f] = "unknown"},
           ConditionState(when, facts) # "unknown"
    PROVE  ConditionState(when, Answered(facts, answers)) = ConditionState(when, facts)
<1> DEFINE later == Answered(facts, answers)
           known(f) == {c \in when : f[c.fact] # "unknown"}
<1>1. \A c \in when : c.fact \in Facts /\ c.equals # "unknown"
  BY DEF Conditions, Known
<1>2. \A c \in known(facts) : later[c.fact] = facts[c.fact]
  BY <1>1 DEF Answered
<1>3. CASE \E c \in known(facts) : facts[c.fact] # c.equals
  <2>1. \E c \in known(later) : later[c.fact] # c.equals
    BY <1>2, <1>3
  <2>2. QED
    BY <1>3, <2>1 DEF ConditionState
<1>4. CASE ~\E c \in known(facts) : facts[c.fact] # c.equals
  <2>1. known(facts) = when
    BY <1>4 DEF ConditionState
  <2>2. known(later) = when /\ \A c \in when : later[c.fact] = c.equals
    BY <1>2, <1>4, <2>1
  <2>3. QED
    BY <1>4, <2>1, <2>2 DEF ConditionState
<1>5. QED
  BY <1>3, <1>4

\* So does the finding of an item, if what it is a part of was not a question.
LEMMA FindingSettles ==
    ASSUME NEW facts, NEW inventory, NEW answers,
           DOMAIN answers = {f \in Facts : facts[f] = "unknown"}
    PROVE  LET now   == FindingsOf(facts, inventory)
               later == FindingsOf(Answered(facts, answers), inventory)
           IN  \A i \in Items_ : now[i] \notin {"needs_staff_review", "not_evaluated"} =>
                                    later[i] = now[i]
<1> DEFINE now == FindingsOf(facts, inventory)
           later == FindingsOf(Answered(facts, answers), inventory)
           Settled(i) == now[i] \notin {"needs_staff_review", "not_evaluated"}
           Lost == {i \in Items_ : Settled(i) /\ later[i] # now[i]}
<1> SUFFICES ASSUME Lost # {} PROVE FALSE
  OBVIOUS
<1>1. PICK i \in Lost : \A j \in Lost : i <= j
  <2>1. Lost \in SUBSET Nat
    BY ItemsInOrder
  <2>2. QED
    BY <2>1, LeastNumber
<1> DEFINE state == ConditionState(Requirements[i].when, facts)
           parent == Requirements[i].parent
<1>2. /\ now[i] = RequirementFinding(i, facts, inventory, now)
      /\ later[i] = RequirementFinding(i, Answered(facts, answers), inventory, later)
  <2>1. /\ now = [j \in Items_ |-> RequirementFinding(j, facts, inventory, now)]
        /\ later = [j \in Items_ |-> RequirementFinding(j, Answered(facts, answers), inventory, later)]
    BY FindingsInTurn
  <2> HIDE DEF now, later
  <2>2. QED
    BY <2>1
<1>3. i \in Items_ /\ i \in Nat /\ parent \in 0 .. i - 1 /\ Requirements[i].when \in SUBSET Conditions
  BY ItemsInOrder
<1>4. state # "unknown"
  BY <1>1, <1>2 DEF RequirementFinding
<1>5. ConditionState(Requirements[i].when, Answered(facts, answers)) = state
  BY <1>3, <1>4, AnswersSettle
<1>6. CASE state = "does_not_apply"
  BY <1>1, <1>2, <1>5, <1>6 DEF RequirementFinding
<1>7. CASE state # "does_not_apply"
  <2>1. state = "applies"
    BY <1>4, <1>7 DEF ConditionState
  <2>2. parent = 0 \/ now[parent] = "present"
    BY <1>1, <1>2, <2>1 DEF RequirementFinding
  <2>3. parent = 0 \/ later[parent] = "present"
    <3>1. parent # 0 => parent \in Items_ /\ parent < i
      BY <1>3, ItemsInOrder
    <3>2. parent # 0 => parent \notin Lost
      BY <1>1, <1>3, <3>1
    <3>3. QED
      BY <2>2, <3>1, <3>2
  <2>4. now[i] = ItemFinding(inventory[i]) /\ later[i] = ItemFinding(inventory[i])
    BY <1>2, <1>5, <2>1, <2>2, <2>3 DEF RequirementFinding
  <2>5. QED
    BY <1>1, <2>4
<1>8. QED
  BY <1>6, <1>7

\* Whatever staff or the applicant still answer, what readiness.py published of
\* a packet stands, but for the questions: for every workflow, however deep its
\* documents are nested, and every packet.
THEOREM AnswersOnlySettle == JourneySpec => []FindingsSurviveAnswers
<1>1. FindingsSurviveAnswers
  <2> DEFINE packet == site.packet
             open == {f \in Facts : packet.facts[f] = "unknown"}
             now == FindingsOf(packet.facts, packet.inventory)
             later(answers) == FindingsOf(Answered(packet.facts, answers), packet.inventory)
             Favorable == "no_known_gaps_in_bounded_manifest"
  <2>1. ASSUME NEW answers \in [open -> Known]
        PROVE  /\ \A i \in Items_ : now[i] \notin {"needs_staff_review", "not_evaluated"} =>
                                        later(answers)[i] = now[i]
               /\ Overall(now) = Favorable => Overall(later(answers)) = Overall(now)
    <3>1. \A i \in Items_ : now[i] \notin {"needs_staff_review", "not_evaluated"} =>
                               later(answers)[i] = now[i]
      BY FindingSettles
    <3>2. ASSUME Overall(now) = Favorable PROVE Overall(later(answers)) = Overall(now)
      <4>1. \A i \in Items_ : now[i] \notin {"needs_staff_review", "not_evaluated"}
        BY <3>2 DEF Overall
      <4>2. \A i \in Items_ : later(answers)[i] = now[i]
        BY <3>1, <4>1
      <4> HIDE DEF now, later
      <4>3. {later(answers)[i] : i \in Items_} = {now[i] : i \in Items_}
        BY <4>2
      <4>4. QED
        BY <4>3 DEF Overall
    <3>3. QED
      BY <3>1, <3>2
  <2>2. QED
    BY <2>1 DEF FindingsSurviveAnswers
<1>2. QED
  BY <1>1, PTL

-----------------------------------------------------------------------------
(* The gate: what a run and the tree look like at every moment.            *)

\* The files that a run may write.
Outputs == {"profile", "gate"}

\* A profile lists files, and not itself.
ListsFiles(profile) == DOMAIN profile \subseteq DOMAIN GateTree \ {"profile"}

\* A tree has all its files, and a profile that lists files.
WholeTree(tree) ==
    /\ DOMAIN tree = DOMAIN GateTree /\ tree = [name \in DOMAIN tree |-> tree[name]]
    /\ ListsFiles(tree.profile)

GateShape ==
    /\ WholeTree(repo)
    /\ DOMAIN proc = DOMAIN Idle
    /\ proc.at \in Steps
    /\ proc.at # "idle" => proc.exit = "running"
    /\ proc.at \notin {"idle", "capture", "profile"} => ListsFiles(proc.profile)
    /\ "profile" \in DOMAIN proc.originals => ListsFiles(proc.originals.profile)

\* The trees of the model have the two files.
LEMMA OutputsAreFiles == Outputs \subseteq DOMAIN GateTree /\ DOMAIN GateTree # {}
BY DEF Outputs, GateTree

\* The fields of a run.
LEMMA FieldsOfARun ==
    DOMAIN Idle = {"at", "exit", "write", "day", "next", "taken", "draft", "profile", "read",
                   "attempt", "originals", "before", "edited"}
BY DEF Idle

\* What people do to a run: nothing, or its end is forgotten, or it is told of
\* an edit, which is of the inputs unless it is said to be of the outputs.
PeopleEffect ==
    \/ proc' = proc /\ repo' = repo /\ anchor' = anchor
    \/ proc' = Idle /\ repo' = repo
    \/ \E kind \in {"inputs", "outputs"} :
          /\ proc' = Touched(kind) /\ anchor' = anchor
          /\ kind = "inputs" => \A name \in Outputs : repo'[name] = repo[name]

LEMMA EditOfInputs ==
    ASSUME GateShape, NEW contents, Edit(contents, "inputs"), DOMAIN contents \cap Outputs = {}
    PROVE  WholeTree(repo') /\ PeopleEffect
<1>1. repo' = With(repo, contents) /\ proc' = Touched("inputs") /\ anchor' = anchor
  BY DEF Edit
<1>2. \A name \in Outputs : name \in DOMAIN repo /\ name \notin DOMAIN contents
  BY OutputsAreFiles DEF GateShape, WholeTree
<1>3. \A name \in Outputs : repo'[name] = repo[name]
  BY <1>1, <1>2 DEF With
<1>4. WholeTree(repo')
  BY <1>1, <1>3 DEF With, WholeTree, GateShape, Outputs
<1>5. QED
  BY <1>1, <1>3, <1>4 DEF PeopleEffect

LEMMA EditOfOutputs ==
    ASSUME GateShape, NEW contents, Edit(contents, "outputs"),
           "profile" \in DOMAIN contents => ListsFiles(contents.profile)
    PROVE  WholeTree(repo') /\ PeopleEffect
<1>1. repo' = With(repo, contents) /\ proc' = Touched("outputs") /\ anchor' = anchor
  BY DEF Edit
<1>2. "profile" \in DOMAIN repo
  BY OutputsAreFiles DEF GateShape, WholeTree, Outputs
<1>3. ListsFiles(repo'.profile)
  BY <1>1, <1>2 DEF With, GateShape, WholeTree
<1>4. WholeTree(repo')
  BY <1>1, <1>3 DEF With, WholeTree, GateShape
<1>5. QED
  BY <1>1, <1>4 DEF PeopleEffect

LEMMA PeopleDo ==
    ASSUME GateShape, People_
    PROVE  WholeTree(repo') /\ PeopleEffect
<1>1. ASSUME NEW p \in Tampered, FillIn(p[1], p[2]) PROVE WholeTree(repo') /\ PeopleEffect
  <2> DEFINE ledger == [repo[p[1]] EXCEPT !.executed = @ \cup {p[2]}]
             told   == [repo.external_evidence_gate EXCEPT
                          !.summaries = Summaries(With(repo, [name \in {p[1]} |-> ledger])),
                          !.executed = IF p[1] = "external_evidence_gate"
                                       THEN @ \cup {p[2]} ELSE @]
             both   == [name \in {p[1], "external_evidence_gate"} |->
                           IF name = "external_evidence_gate" THEN told ELSE ledger]
             bind   == Bindings(With(repo, both))
             gate   == [repo.gate EXCEPT !.bind = bind, !.aggregate.fingerprint = bind]
             one    == [name \in {p[1]} |-> ledger]
             all    == [name \in {"gate"} \cup DOMAIN both |->
                           IF name = "gate" THEN gate ELSE both[name]]
  <2>1. p[1] \in Frozen
    BY GateRunAssumption
  <2>2. DOMAIN one = {p[1]} /\ DOMAIN all = {"gate", p[1], "external_evidence_gate"}
    OBVIOUS
  <2>3. Edit(one, "inputs") \/ Edit(all, "outputs")
    BY <1>1 DEF FillIn
  <2> HIDE DEF one, all
  <2>4. CASE Edit(one, "inputs")
    BY <2>1, <2>2, <2>4, EditOfInputs DEF Frozen, Outputs
  <2>5. CASE Edit(all, "outputs")
    BY <2>1, <2>2, <2>5, EditOfOutputs DEF Frozen
  <2>6. QED
    BY <2>3, <2>4, <2>5
<1>2. ASSUME NEW seen, NEW reviewed, Edit(Snapshot(seen, reviewed), "inputs")
      PROVE  WholeTree(repo') /\ PeopleEffect
  <2>1. DOMAIN Snapshot(seen, reviewed) = {"source_state"}
    BY DEF Snapshot
  <2>2. QED
    BY <1>2, <2>1, EditOfInputs DEF Outputs
<1>3. CASE (\E s \in Sources : Adopt(s)) \/ AdoptUnreviewed
  BY <1>2, <1>3 DEF Adopt, AdoptUnreviewed
<1>4. ASSUME NEW registry, Edit([registry |-> registry], "inputs")
      PROVE  WholeTree(repo') /\ PeopleEffect
  BY <1>4, EditOfInputs, DOMAIN [registry |-> registry] = {"registry"} DEF Outputs
<1>5. CASE \E s \in Sources : Record(s)
  BY <1>4, <1>5 DEF Record
<1>6. ASSUME NEW rules, Edit([rules |-> rules], "inputs")
      PROVE  WholeTree(repo') /\ PeopleEffect
  BY <1>6, EditOfInputs, DOMAIN [rules |-> rules] = {"rules"} DEF Outputs
<1>7. CASE \E r \in Rules : Verify(r)
  BY <1>6, <1>7 DEF Verify
<1>8. ASSUME NEW lines, Edit([rule_verification |-> lines], "inputs")
      PROVE  WholeTree(repo') /\ PeopleEffect
  BY <1>8, EditOfInputs, DOMAIN [rule_verification |-> lines] = {"rule_verification"}
     DEF Outputs
<1>9. CASE \E r \in Rules : EnterReview(r)
  BY <1>8, <1>9 DEF EnterReview
<1>10. ASSUME NEW record, Edit([record |-> record], "inputs")
       PROVE  WholeTree(repo') /\ PeopleEffect
  BY <1>10, EditOfInputs, DOMAIN [record |-> record] = {"record"} DEF Outputs
<1>11. CASE Reread
  BY <1>10, <1>11 DEF Reread
<1>12. ASSUME NEW docs, Edit([docs |-> docs], "inputs")
       PROVE  WholeTree(repo') /\ PeopleEffect
  BY <1>12, EditOfInputs, DOMAIN [docs |-> docs] = {"docs"} DEF Outputs
<1>13. CASE \E d \in BoundDocs \cup EvidenceDocs : Rewrite(d)
  BY <1>12, <1>13 DEF Rewrite
<1>14. ASSUME NEW packet, NEW pins, NEW output, NEW journey,
              Edit([packet |-> packet, pins |-> pins, reference_packet |-> output,
                    reference_journey |-> journey], "inputs")
       PROVE  WholeTree(repo') /\ PeopleEffect
  <2> DEFINE contents == [packet |-> packet, pins |-> pins, reference_packet |-> output,
                       reference_journey |-> journey]
  <2>1. DOMAIN contents = {"packet", "pins", "reference_packet", "reference_journey"}
    OBVIOUS
  <2>2. Edit(contents, "inputs")
    BY <1>14
  <2> HIDE DEF contents
  <2>3. QED
    BY <2>1, <2>2, EditOfInputs DEF Outputs
<1>15. CASE CloseGap
  BY <1>14, <1>15 DEF CloseGap
<1>16. CASE ListRecord
  <2> DEFINE longer == [name \in DOMAIN repo.profile \cup {"gate"} |->
                           IF name = "gate" THEN FirstGate ELSE repo.profile[name]]
             contents == [profile |-> longer]
  <2>1. ListsFiles(longer)
    BY OutputsAreFiles DEF GateShape, WholeTree, ListsFiles, Outputs
  <2> HIDE DEF longer
  <2>2. contents.profile = longer
    OBVIOUS
  <2>3. Edit(contents, "outputs")
    BY <1>16 DEF ListRecord, longer
  <2> HIDE DEF contents
  <2>4. QED
    BY <2>1, <2>2, <2>3, EditOfOutputs
<1>17. CASE AttestProfile
  BY <1>17 DEF AttestProfile, PeopleEffect, GateShape
<1>18. CASE GateDay
  BY <1>18 DEF GateDay, PeopleEffect, GateShape
<1>19. QED
  BY <1>1, <1>3, <1>5, <1>7, <1>9, <1>11, <1>13, <1>15, <1>16, <1>17, <1>18 DEF People_

-----------------------------------------------------------------------------
(* The shape of a run is kept.                                             *)

\* A step of the tool that only reads, and what it makes of the run.
LEMMA ShapeOfReading ==
    ASSUME GateShape, NEW next, Reads(next), DOMAIN next = DOMAIN Idle,
           next.at \in Steps, next.at # "idle" => next.exit = "running",
           next.at \notin {"idle", "capture", "profile"} =>
               ListsFiles(next.profile),
           "profile" \in DOMAIN next.originals =>
               ListsFiles(next.originals.profile)
    PROVE  GateShape'
BY DEF Reads, Runs, GateShape

\* A run that ends has nothing to take back.
LEMMA EndOfRun ==
    ASSUME NEW exit
    PROVE  /\ DOMAIN Ended(exit) = DOMAIN Idle
           /\ Ended(exit).at = "idle" /\ Ended(exit).exit = exit
           /\ Ended(exit).originals = << >> /\ Ended(exit).draft = << >>
           /\ Ended(exit).edited = proc.edited
           /\ exit = "clean" => /\ Ended(exit).taken = proc.taken
                                /\ Ended(exit).read = proc.read
                                /\ Ended(exit).day = proc.day
           /\ exit = "invalid" => Ended(exit).before = proc.before
BY DEF Ended, Idle

LEMMA ShapeOfEnd ==
    ASSUME GateShape, NEW exit, Exit(exit)
    PROVE  GateShape'
<1>1. Reads(Ended(exit)) /\ Ended(exit).originals = << >> /\ DOMAIN << >> = {}
  BY EndOfRun DEF Exit
<1>2. QED
  BY <1>1, EndOfRun, ShapeOfReading DEF Steps

\* Taking back one of the two files.
LEMMA OneTakenBack ==
    ASSUME GateShape, NEW name \in Outputs, name \in ToRestore, proc.at = "restore",
           TakeBack(name)
    PROVE  /\ proc'.at = "restore" /\ proc'.exit = "running"
           /\ DOMAIN proc' = DOMAIN Idle /\ proc'.profile = proc.profile
           /\ proc'.next = proc.next /\ proc'.taken = proc.taken
           /\ proc'.attempt = proc.attempt /\ proc'.draft = proc.draft
           /\ proc'.before = proc.before /\ proc'.edited = proc.edited
           /\ DOMAIN proc'.originals = DOMAIN proc.originals \ {name}
           /\ \A n \in DOMAIN proc'.originals : proc'.originals[n] = proc.originals[n]
           /\ repo'[name] = proc.originals[name]
           /\ \A n \in DOMAIN repo \ {name} : repo'[n] = repo[n]
           /\ WholeTree(repo')
<1> USE FieldsOfARun
<1> DEFINE originals == [n \in ToRestore \ {name} |-> proc.originals[n]]
<1>1. /\ proc' = [proc EXCEPT !.originals = originals]
      /\ repo' = [repo EXCEPT ![name] = proc.originals[name]]
  BY DEF TakeBack
<1>2. /\ DOMAIN originals = DOMAIN proc.originals \ {name}
      /\ \A n \in DOMAIN originals : originals[n] = proc.originals[n]
  BY DEF ToRestore
<1> HIDE DEF originals
<1>3. name \in DOMAIN repo /\ "profile" \in DOMAIN repo
  BY OutputsAreFiles DEF GateShape, WholeTree, Outputs
<1>4. name = "profile" => ListsFiles(proc.originals.profile)
  BY DEF GateShape, ToRestore
<1>5. WholeTree(repo')
  BY <1>1, <1>3, <1>4 DEF GateShape, WholeTree
<1>6. QED
  BY <1>1, <1>2, <1>3, <1>5 DEF GateShape

\* Restoring takes back one file, or there is none left and the run refuses.
LEMMA StepsOfRestore ==
    ASSUME Restore
    PROVE  /\ proc.at = "restore"
           /\ \/ ToRestore = {} /\ Exit("invalid")
              \/ \E name \in Outputs \cap ToRestore : TakeBack(name)
BY DEF Restore, Outputs

LEMMA ShapeOfTool ==
    ASSUME GateShape, Tool
    PROVE  GateShape'
<1> USE FieldsOfARun
<1>1. CASE StartValidate \/ StartRecompute
  <2>1. PICK at \in {"capture", "profile"}, write \in BOOLEAN : Begin(at, write)
    BY <1>1 DEF StartValidate, StartRecompute
  <2> DEFINE next == [Idle EXCEPT !.at = at, !.exit = "running", !.write = write,
                                  !.day = today, !.before = Written]
  <2>2. Reads(next)
    BY <2>1 DEF Begin
  <2>3. /\ DOMAIN next = DOMAIN Idle /\ next.at = at /\ next.exit = "running"
        /\ next.originals = << >> /\ DOMAIN << >> = {}
    BY DEF Idle
  <2> HIDE DEF next
  <2>4. QED
    BY <2>2, <2>3, ShapeOfReading DEF Steps
<1>2. CASE Capture
  BY <1>2 DEF Capture, Reads, Runs, GateShape
<1>3. CASE Validate
  BY <1>3, ShapeOfEnd DEF Validate
<1>4. CASE ReadProfile
  BY <1>4 DEF ReadProfile, Reads, Runs, GateShape, WholeTree, ListsFiles, Steps
<1>r. CASE Reprofile
  <2>1. DOMAIN Reprofiled(proc.profile, proc.taken) = DOMAIN proc.profile
    BY DEF Reprofiled
  <2>2. QED
    BY <1>r, <2>1 DEF Reprofile, Reads, Runs, GateShape, ListsFiles, Steps
<1>5. CASE ReadPins
  <2>1. CASE Exit("invalid")
    BY <2>1, ShapeOfEnd
  <2>2. CASE ~Exit("invalid")
    <3>1. /\ proc.at = "pins" /\ proc'.at \in {"proposal", "settle"} /\ repo' = repo
          /\ DOMAIN proc' = DOMAIN proc /\ proc'.exit = proc.exit
          /\ proc'.profile = proc.profile /\ proc'.originals = proc.originals
      BY <1>5, <2>2 DEF ReadPins, Reads, GateShape
    <3>2. QED
      BY <3>1 DEF GateShape, Steps
  <2>3. QED
    BY <2>1, <2>2
<1>6. CASE Settle
  <2>1. CASE Exit("invalid")
    BY <2>1, ShapeOfEnd
  <2>2. CASE ~Exit("invalid")
    BY <1>6, <2>2 DEF Settle, Reads, Runs, GateShape, Steps
  <2>3. QED
    BY <2>1, <2>2
<1>7. CASE Propose
  BY <1>7, ShapeOfEnd DEF Propose
<1>8. CASE WriteProfile
  <2>1. "profile" \in DOMAIN repo
    BY OutputsAreFiles DEF GateShape, WholeTree, Outputs
  <2>2. ListsFiles(proc.profile) /\ ListsFiles(repo.profile)
    BY <1>8 DEF WriteProfile, GateShape, WholeTree
  <2>3. WholeTree(repo')
    BY <1>8, <2>1, <2>2 DEF WriteProfile, GateShape, WholeTree
  <2>4. QED
    BY <1>8, <2>2, <2>3 DEF WriteProfile, Runs, GateShape, Steps
<1>9. CASE WriteRecord
  <2>1. WholeTree(repo')
    BY <1>9 DEF WriteRecord, GateShape, WholeTree
  <2>2. QED
    BY <1>9, <2>1 DEF WriteRecord, Runs, GateShape, Steps
<1>10. CASE WriteFails
  <2> DEFINE originals == [name \in Changes |-> repo[name]]
  <2>1. CASE proc.at = "proposal" /\ Reads([proc EXCEPT !.at = "restore", !.originals = originals])
    <3>1. "profile" \in DOMAIN originals => originals.profile = repo.profile
      OBVIOUS
    <3> HIDE DEF originals
    <3>2. QED
      BY <2>1, <3>1 DEF Reads, Runs, GateShape, WholeTree, Steps
  <2>2. CASE (proc.at = "proposal" \/ proc.at = "record") /\ Reads([proc EXCEPT !.at = "restore"])
    BY <2>2 DEF Reads, Runs, GateShape, Steps
  <2>3. CASE Exit("raised")
    BY <2>3, ShapeOfEnd
  <2>4. QED
    BY <1>10, <2>1, <2>2, <2>3 DEF WriteFails
<1>11. CASE Check
  <2>1. CASE \E exit \in {"pending", "clean"} : Exit(exit)
    BY <2>1, ShapeOfEnd
  <2>2. CASE Reads([proc EXCEPT !.at = "restore"])
    BY <1>11, <2>2 DEF Check, Reads, Runs, GateShape, Steps
  <2>3. QED
    BY <1>11, <2>1, <2>2 DEF Check
<1>12. CASE Restore
  <2>1. CASE Exit("invalid")
    BY <2>1, ShapeOfEnd
  <2>2. ASSUME NEW name \in Outputs \cap ToRestore, TakeBack(name) PROVE GateShape'
    <3>1. "profile" \in DOMAIN proc'.originals => ListsFiles(proc'.originals.profile)
      BY <1>12, <2>2, StepsOfRestore, OneTakenBack DEF GateShape
    <3>2. ListsFiles(proc'.profile)
      BY <1>12, <2>2, StepsOfRestore, OneTakenBack DEF GateShape
    <3>3. QED
      BY <1>12, <2>2, <3>1, <3>2, StepsOfRestore, OneTakenBack DEF GateShape, Steps
  <2>3. QED
    BY <1>12, <2>1, <2>2, StepsOfRestore
<1>13. CASE Kill
  BY <1>13, ShapeOfEnd DEF Kill
<1>14. QED
  BY <1>1, <1>2, <1>3, <1>4, <1>r, <1>5, <1>6, <1>7, <1>8, <1>9, <1>10, <1>11, <1>12, <1>13
     DEF Tool

LEMMA ShapeOfEdits ==
    ASSUME GateShape, WholeTree(repo'), PeopleEffect
    PROVE  GateShape'
<1> USE FieldsOfARun
<1>1. CASE proc' = proc
  BY <1>1 DEF GateShape
<1>2. CASE proc' = Idle
  <2>1. Idle.at = "idle" /\ Idle.originals = << >> /\ DOMAIN << >> = {}
    BY DEF Idle
  <2>2. QED
    BY <1>2, <2>1 DEF GateShape, Steps
<1>3. ASSUME NEW kind, proc' = Touched(kind), proc.at # "idle" PROVE GateShape'
  BY <1>3 DEF Touched, GateShape
<1>4. QED
  BY <1>1, <1>2, <1>3 DEF PeopleEffect, Touched

LEMMA GateShapeHolds == GateSpec => []GateShape
<1>1. GateInit => GateShape
  <2> SUFFICES ASSUME GateInit PROVE GateShape
    OBVIOUS
  <2>1. Idle.at = "idle" /\ Idle.originals = << >> /\ DOMAIN << >> = {}
    BY DEF Idle
  <2>2. DOMAIN repo.profile = Exported
    BY DEF GateInit, GateTree, FirstProfile
  <2>3. WholeTree(repo)
    BY <2>2, GateRunAssumption DEF GateInit, WholeTree, ListsFiles, GateTree
  <2>4. QED
    BY <2>1, <2>3 DEF GateInit, GateShape, Steps
<1>2. GateShape /\ [GateNext]_gateVars => GateShape'
  <2> SUFFICES ASSUME GateShape, [GateNext]_gateVars PROVE GateShape'
    OBVIOUS
  <2>1. CASE People_
    BY <2>1, PeopleDo, ShapeOfEdits
  <2>2. CASE Tool
    BY <2>2, ShapeOfTool
  <2>3. CASE UNCHANGED gateVars
    BY <2>3 DEF gateVars, GateShape
  <2>4. QED
    BY <2>1, <2>2, <2>3 DEF GateNext
<1>3. QED
  BY <1>1, <1>2, PTL DEF GateSpec

-----------------------------------------------------------------------------
(* Nobody is believed: the planning ledgers of what was accepted.          *)

FavorInv ==
    /\ NoFavorableSummary
    /\ proc.at \in {"profile", "digests", "pins"} => proc.draft = << >>
    /\ proc.at = "proposal" /\ proc.draft # << >> =>
          \A id \in Frozen : proc.taken[id] = FirstLedgers[id]

\* What is accepted is pinned twice: by the record, and by the code.
LEMMA ValidIsFrozen ==
    ASSUME NEW tree, NEW gate, NEW constant, NEW day, Verdict(tree, gate, constant, day) = "valid"
    PROVE  \A id \in Frozen : tree[id] = FirstLedgers[id]
<1>1. Coherent(tree, gate, constant, day)
  BY DEF Verdict
<1>2. gate.bind = Bindings(tree) /\ FrozenHold(gate)
  BY <1>1 DEF Coherent
<1>3. QED
  BY <1>2 DEF Bindings, FrozenHold, Artifacts

LEMMA FavorOfEnd ==
    ASSUME NEW exit, Exit(exit),
           exit = "clean" => \A id \in Frozen : proc.taken[id] = FirstLedgers[id]
    PROVE  FavorInv'
BY EndOfRun DEF Exit, Reads, FavorInv, NoFavorableSummary

\* A run that finds its pins goes on with what it had.
LEMMA PinsRead ==
    ASSUME GateShape, ReadPins, ~Exit("invalid")
    PROVE  /\ proc.at = "pins" /\ proc'.at \in {"proposal", "settle"} /\ repo' = repo
           /\ proc'.exit = proc.exit /\ proc'.taken = proc.taken
           /\ proc'.before = proc.before /\ proc'.edited = proc.edited
           /\ proc'.at = "proposal" => proc'.draft = proc.draft
<1> DEFINE known == [proc EXCEPT !.read.gate = repo.gate]
<1>1. DOMAIN proc = DOMAIN Idle
  BY DEF GateShape
<1>2. /\ proc.at = "pins"
      /\ \/ Reads([known EXCEPT !.at = "proposal"])
         \/ Reads([known EXCEPT !.at = "settle", !.draft = Repin(repo),
                                !.attempt = 1, !.day = today])
  BY DEF ReadPins
<1>3. /\ DOMAIN known = DOMAIN Idle /\ known.exit = proc.exit /\ known.taken = proc.taken
      /\ known.before = proc.before /\ known.edited = proc.edited /\ known.draft = proc.draft
  BY <1>1, FieldsOfARun
<1> HIDE DEF known
<1>4. CASE Reads([known EXCEPT !.at = "proposal"])
  BY <1>2, <1>3, <1>4, FieldsOfARun DEF Reads
<1>5. CASE Reads([known EXCEPT !.at = "settle", !.draft = Repin(repo),
                              !.attempt = 1, !.day = today])
  BY <1>2, <1>3, <1>5, FieldsOfARun DEF Reads
<1>6. QED
  BY <1>2, <1>4, <1>5

LEMMA FavorOfTool ==
    ASSUME GateShape, FavorInv, Tool
    PROVE  FavorInv'
<1> USE FieldsOfARun
<1>1. CASE StartValidate \/ StartRecompute
  <2>1. PICK at \in {"capture", "profile"}, write \in BOOLEAN : Begin(at, write)
    BY <1>1 DEF StartValidate, StartRecompute
  <2>2. proc'.at \in {"capture", "profile"} /\ proc'.exit = "running" /\ proc'.draft = << >>
    BY <2>1 DEF Begin, Reads, Idle
  <2>3. QED
    BY <2>2 DEF FavorInv, NoFavorableSummary
<1>2. CASE Capture
  BY <1>2 DEF Capture, Reads, GateShape, FavorInv, NoFavorableSummary
<1>3. CASE Validate
  BY <1>3, ValidIsFrozen, FavorOfEnd DEF Validate
<1>4. CASE ReadProfile
  BY <1>4 DEF ReadProfile, Reads, GateShape, FavorInv, NoFavorableSummary
<1>r. CASE Reprofile
  BY <1>r DEF Reprofile, Reads, GateShape, FavorInv, NoFavorableSummary
<1>5. CASE ReadPins
  <2>1. CASE Exit("invalid")
    BY <2>1, FavorOfEnd
  <2>2. CASE ~Exit("invalid")
    BY <1>5, <2>2, PinsRead DEF FavorInv, NoFavorableSummary
  <2>3. QED
    BY <2>1, <2>2
<1>6. CASE Settle
  <2>1. CASE Exit("invalid")
    BY <2>1, FavorOfEnd
  <2>2. CASE /\ Verdict(proc.taken, proc.draft, anchor, proc.day) = "valid"
             /\ Reads([proc EXCEPT !.at = "proposal"])
    <3>1. \A id \in Frozen : proc.taken[id] = FirstLedgers[id]
      BY <2>2, ValidIsFrozen
    <3>2. proc'.at = "proposal" /\ proc'.exit = "running" /\ proc'.taken = proc.taken
      BY <1>6, <2>2 DEF Settle, Reads, GateShape
    <3>3. QED
      BY <3>1, <3>2 DEF FavorInv, NoFavorableSummary
  <2>3. CASE \E aggregate :
               Reads([proc EXCEPT !.draft.aggregate = aggregate, !.attempt = @ + 1,
                                  !.next = 0, !.taken = << >>, !.day = today])
    BY <1>6, <2>3 DEF Settle, Reads, GateShape, FavorInv, NoFavorableSummary
  <2>4. QED
    BY <1>6, <2>1, <2>2, <2>3 DEF Settle
<1>7. CASE Propose
  <2>1. PICK exit \in {"clean", "pending"} : Exit(exit) /\ (exit = "clean" => ~Blocked)
    BY <1>7 DEF Propose
  <2>2. QED
    BY <1>7, <2>1, FavorOfEnd DEF Propose, FavorInv, Blocked
<1>8. CASE WriteProfile \/ WriteRecord
  BY <1>8 DEF WriteProfile, WriteRecord, GateShape, FavorInv, NoFavorableSummary
<1>9. CASE WriteFails
  <2>1. CASE Exit("raised")
    BY <2>1, FavorOfEnd
  <2>2. CASE ~Exit("raised")
    BY <1>9, <2>2 DEF WriteFails, Reads, GateShape, FavorInv, NoFavorableSummary
  <2>3. QED
    BY <2>1, <2>2
<1>10. CASE Check
  <2>1. CASE Exit("pending")
    BY <2>1, FavorOfEnd
  <2>2. CASE Verdict(proc.taken, proc.taken.gate, anchor, proc.day) = "valid" /\ Exit("clean")
    BY <2>2, ValidIsFrozen, FavorOfEnd
  <2>3. CASE Reads([proc EXCEPT !.at = "restore"])
    BY <1>10, <2>3 DEF Check, Reads, GateShape, FavorInv, NoFavorableSummary
  <2>4. QED
    BY <1>10, <2>1, <2>2, <2>3 DEF Check
<1>11. CASE Restore
  <2>1. CASE Exit("invalid")
    BY <2>1, FavorOfEnd
  <2>2. ASSUME NEW name \in Outputs \cap ToRestore, TakeBack(name) PROVE FavorInv'
    BY <1>11, <2>2, StepsOfRestore, OneTakenBack DEF FavorInv, NoFavorableSummary
  <2>3. QED
    BY <1>11, <2>1, <2>2, StepsOfRestore
<1>12. CASE Kill
  BY <1>12, FavorOfEnd DEF Kill
<1>13. QED
  BY <1>1, <1>2, <1>3, <1>4, <1>r, <1>5, <1>6, <1>7, <1>8, <1>9, <1>10, <1>11, <1>12
     DEF Tool

LEMMA FavorOfEdits ==
    ASSUME GateShape, FavorInv, PeopleEffect
    PROVE  FavorInv'
<1> USE FieldsOfARun
<1>1. CASE proc' = proc
  BY <1>1 DEF FavorInv, NoFavorableSummary
<1>2. CASE proc' = Idle
  BY <1>2 DEF FavorInv, NoFavorableSummary, Idle
<1>3. ASSUME NEW kind, proc' = Touched(kind), proc.at # "idle" PROVE FavorInv'
  BY <1>3 DEF Touched, GateShape, FavorInv, NoFavorableSummary
<1>4. QED
  BY <1>1, <1>2, <1>3 DEF PeopleEffect, Touched

LEMMA FavorHolds == GateSpec => []FavorInv
<1>1. GateInit => FavorInv
  BY DEF GateInit, FavorInv, NoFavorableSummary, Idle
<1>2. GateShape /\ FavorInv /\ [GateNext]_gateVars => FavorInv'
  <2> SUFFICES ASSUME GateShape, FavorInv, [GateNext]_gateVars PROVE FavorInv'
    OBVIOUS
  <2>1. CASE People_
    BY <2>1, PeopleDo, FavorOfEdits
  <2>2. CASE Tool
    BY <2>2, FavorOfTool
  <2>3. CASE UNCHANGED gateVars
    BY <2>3 DEF gateVars, FavorInv, NoFavorableSummary
  <2>4. QED
    BY <2>1, <2>2, <2>3 DEF GateNext
<1>3. QED
  BY <1>1, <1>2, GateShapeHolds, PTL DEF GateSpec

\* Whatever is accepted rests on planning ledgers in which nothing has been
\* run, for every set of edits (beta_gate.py, _validate_not_run_pins).
THEOREM NothingFavorable == GateSpec => []NoFavorableSummary
<1>1. FavorInv => NoFavorableSummary
  BY DEF FavorInv
<1>2. QED
  BY <1>1, FavorHolds, PTL

-----------------------------------------------------------------------------
(* A refusal leaves the two files as they were.                               *)

RefusalInv ==
    "outputs" \notin proc.edited =>
        /\ proc.exit = "invalid" => Written = proc.before
        /\ proc.at \in {"capture", "profile", "digests", "pins", "settle", "proposal"} =>
              Written = proc.before
        /\ proc.at \in {"record", "check", "restore"} =>
              /\ DOMAIN proc.originals \subseteq Outputs
              /\ proc.before =
                    [name \in Outputs |-> IF name \in DOMAIN proc.originals
                                          THEN proc.originals[name] ELSE repo[name]]
        /\ proc.at = "record" => DOMAIN proc.originals = Changes

LEMMA RefusalOfEnd ==
    ASSUME NEW exit, Exit(exit),
           "outputs" \notin proc.edited /\ exit = "invalid" => Written = proc.before
    PROVE  RefusalInv'
BY EndOfRun DEF Exit, Reads, RefusalInv, Written

\* What the two files were is what the first write noted, or what they are.
LEMMA Noted ==
    ASSUME NEW names \in SUBSET Outputs, NEW originals,
           originals = [name \in names |-> repo[name]]
    PROVE  /\ DOMAIN originals \subseteq Outputs
           /\ Written = [name \in Outputs |-> IF name \in DOMAIN originals
                                              THEN originals[name] ELSE repo[name]]
BY DEF Written, Outputs

LEMMA ChangesAreOutputs == Changes \subseteq Outputs
BY DEF Changes, Outputs

LEMMA RefusalOfTool ==
    ASSUME GateShape, RefusalInv, Tool
    PROVE  RefusalInv'
<1> USE FieldsOfARun
<1>1. CASE StartValidate \/ StartRecompute
  <2>1. PICK at \in {"capture", "profile"}, write \in BOOLEAN : Begin(at, write)
    BY <1>1 DEF StartValidate, StartRecompute
  <2>2. /\ proc'.at \in {"capture", "profile"} /\ proc'.exit = "running"
        /\ proc'.before = Written /\ repo' = repo
    BY <2>1 DEF Begin, Reads, Idle
  <2>3. QED
    BY <2>2 DEF RefusalInv, Written
<1>2. CASE Capture
  BY <1>2 DEF Capture, Reads, GateShape, RefusalInv, Written
<1>3. CASE Validate
  BY <1>3, RefusalOfEnd DEF Validate, RefusalInv
<1>4. CASE ReadProfile
  BY <1>4 DEF ReadProfile, Reads, GateShape, RefusalInv, Written
<1>r. CASE Reprofile
  BY <1>r DEF Reprofile, Reads, GateShape, RefusalInv, Written
<1>5. CASE ReadPins
  <2>1. CASE Exit("invalid")
    BY <1>5, <2>1, RefusalOfEnd DEF ReadPins, RefusalInv
  <2>2. CASE ~Exit("invalid")
    <3>1. /\ proc.at = "pins" /\ proc'.at \in {"proposal", "settle"} /\ repo' = repo
          /\ proc'.exit = proc.exit /\ proc'.before = proc.before
          /\ proc'.edited = proc.edited
      BY <1>5, <2>2, PinsRead
    <3>2. QED
      BY <3>1 DEF RefusalInv, Written
  <2>3. QED
    BY <2>1, <2>2
<1>6. CASE Settle
  <2>1. CASE Exit("invalid")
    BY <1>6, <2>1, RefusalOfEnd DEF Settle, RefusalInv
  <2>2. CASE ~Exit("invalid")
    <3>1. /\ proc.at = "settle" /\ proc'.at \in {"proposal", "settle"} /\ repo' = repo
          /\ proc'.exit = proc.exit /\ proc'.before = proc.before
          /\ proc'.edited = proc.edited
      BY <1>6, <2>2 DEF Settle, Reads, GateShape
    <3>2. QED
      BY <3>1 DEF RefusalInv, Written
  <2>3. QED
    BY <2>1, <2>2
<1>7. CASE Propose
  BY <1>7, RefusalOfEnd DEF Propose
<1>8. CASE WriteProfile
  <2> DEFINE originals == [name \in Changes |-> repo[name]]
  <2>1. /\ proc' = [proc EXCEPT !.at = "record", !.originals = originals]
        /\ repo' = IF "profile" \in Changes THEN [repo EXCEPT !.profile = proc.profile] ELSE repo
        /\ proc.at = "proposal" /\ proc.exit = "running"
    BY <1>8 DEF WriteProfile, GateShape
  <2>2. /\ DOMAIN originals \subseteq Outputs /\ DOMAIN originals = Changes
        /\ Written = [name \in Outputs |-> IF name \in DOMAIN originals
                                           THEN originals[name] ELSE repo[name]]
    <3>1. originals = [name \in Changes |-> repo[name]]
      OBVIOUS
    <3> HIDE DEF originals
    <3>2. QED
      BY <3>1, ChangesAreOutputs, Noted
  <2> HIDE DEF originals
  <2>3. Changes' = Changes
    BY <2>1 DEF Changes, NewRecord, Blocked, GateShape
  <2>4. \A name \in Outputs \ Changes : repo'[name] = repo[name]
    BY <2>1, OutputsAreFiles DEF GateShape, WholeTree, Outputs
  <2>5. CASE "outputs" \notin proc.edited
    <3>1. proc.before = [name \in Outputs |-> IF name \in DOMAIN originals
                                              THEN originals[name] ELSE repo'[name]]
      BY <2>1, <2>2, <2>4, <2>5 DEF RefusalInv
    <3>2. /\ proc'.at = "record" /\ proc'.originals = originals /\ proc'.exit = "running"
          /\ proc'.before = proc.before
      BY <2>1 DEF GateShape
    <3>3. QED
      BY <2>2, <2>3, <3>1, <3>2 DEF RefusalInv
  <2>6. CASE "outputs" \in proc.edited
    BY <2>1, <2>6 DEF RefusalInv, GateShape
  <2>7. QED
    BY <2>5, <2>6
<1>9. CASE WriteRecord
  <2>1. /\ proc' = [proc EXCEPT !.at = "check", !.next = 0, !.taken = << >>, !.day = today]
        /\ repo' = IF "gate" \in Changes THEN [repo EXCEPT !.gate = proc.draft] ELSE repo
        /\ proc.at = "record" /\ proc.exit = "running"
    BY <1>9 DEF WriteRecord, GateShape
  <2>2. \A name \in Outputs \ Changes : repo'[name] = repo[name]
    BY <2>1, OutputsAreFiles DEF GateShape, WholeTree, Outputs
  <2>3. /\ proc'.at = "check" /\ proc'.exit = "running" /\ proc'.edited = proc.edited
        /\ proc'.before = proc.before /\ proc'.originals = proc.originals
    BY <2>1 DEF GateShape
  <2>4. QED
    BY <2>1, <2>2, <2>3 DEF RefusalInv
<1>10. CASE WriteFails
  <2>1. CASE proc.at = "proposal"
    <3> DEFINE originals == [name \in Changes |-> repo[name]]
    <3>1. Reads([proc EXCEPT !.at = "restore", !.originals = originals])
      BY <1>10, <2>1 DEF WriteFails
    <3>2. /\ DOMAIN originals \subseteq Outputs
          /\ Written = [name \in Outputs |-> IF name \in DOMAIN originals
                                             THEN originals[name] ELSE repo[name]]
      <4>1. originals = [name \in Changes |-> repo[name]]
        OBVIOUS
      <4> HIDE DEF originals
      <4>2. QED
        BY <4>1, ChangesAreOutputs, Noted
    <3> HIDE DEF originals
    <3>3. QED
      BY <2>1, <3>1, <3>2 DEF Reads, GateShape, RefusalInv
  <2>2. CASE proc.at = "record"
    BY <1>10, <2>2 DEF WriteFails, Reads, GateShape, RefusalInv
  <2>3. CASE Exit("raised")
    BY <2>3, RefusalOfEnd
  <2>4. QED
    BY <1>10, <2>1, <2>2, <2>3 DEF WriteFails
<1>11. CASE Check
  <2>1. CASE \E exit \in {"pending", "clean"} : Exit(exit)
    BY <2>1, RefusalOfEnd
  <2>2. CASE Reads([proc EXCEPT !.at = "restore"])
    BY <1>11, <2>2 DEF Check, Reads, GateShape, RefusalInv
  <2>3. QED
    BY <1>11, <2>1, <2>2 DEF Check
<1>12. CASE Restore
  <2>1. CASE ToRestore = {} /\ Exit("invalid")
    <3>1. "outputs" \notin proc.edited => Written = proc.before
      BY <1>12, <2>1, StepsOfRestore DEF RefusalInv, ToRestore, Written, Outputs
    <3>2. QED
      BY <2>1, <3>1, RefusalOfEnd
  <2>2. ASSUME NEW name \in Outputs \cap ToRestore, TakeBack(name) PROVE RefusalInv'
    <3>1. /\ proc'.at = "restore" /\ proc'.exit = "running"
          /\ proc'.before = proc.before /\ proc'.edited = proc.edited
          /\ DOMAIN proc'.originals = DOMAIN proc.originals \ {name}
      BY <1>12, <2>2, StepsOfRestore, OneTakenBack
    <3>2. \A n \in Outputs :
             (IF n \in DOMAIN proc'.originals THEN proc'.originals[n] ELSE repo'[n])
             = (IF n \in DOMAIN proc.originals THEN proc.originals[n] ELSE repo[n])
      BY <1>12, <2>2, StepsOfRestore, OneTakenBack, OutputsAreFiles
         DEF ToRestore, GateShape, WholeTree
    <3>3. [n \in Outputs |-> IF n \in DOMAIN proc'.originals
                              THEN proc'.originals[n] ELSE repo'[n]]
          = [n \in Outputs |-> IF n \in DOMAIN proc.originals
                                THEN proc.originals[n] ELSE repo[n]]
      BY <3>2
    <3>4. CASE "outputs" \notin proc.edited
      <4>1. /\ DOMAIN proc.originals \subseteq Outputs
            /\ proc.before = [n \in Outputs |-> IF n \in DOMAIN proc.originals
                                                THEN proc.originals[n] ELSE repo[n]]
        BY <1>12, <3>4, StepsOfRestore DEF RefusalInv
      <4>2. QED
        BY <3>1, <3>3, <4>1 DEF RefusalInv
    <3>5. QED
      BY <3>1, <3>4 DEF RefusalInv
  <2>3. QED
    BY <1>12, <2>1, <2>2, StepsOfRestore
<1>13. CASE Kill
  BY <1>13, RefusalOfEnd DEF Kill
<1>14. QED
  BY <1>1, <1>2, <1>3, <1>4, <1>r, <1>5, <1>6, <1>7, <1>8, <1>9, <1>10, <1>11, <1>12, <1>13
     DEF Tool

LEMMA RefusalOfEdits ==
    ASSUME GateShape, RefusalInv, PeopleEffect
    PROVE  RefusalInv'
<1> USE FieldsOfARun
<1>1. CASE proc' = proc /\ repo' = repo
  BY <1>1 DEF RefusalInv, Written, Changes, NewRecord, Blocked
<1>2. CASE proc' = Idle
  BY <1>2 DEF RefusalInv, Idle
<1>3. ASSUME NEW kind \in {"inputs", "outputs"}, proc' = Touched(kind), proc.at # "idle",
             kind = "inputs" => \A name \in Outputs : repo'[name] = repo[name]
      PROVE  RefusalInv'
  <2>1. CASE kind = "outputs"
    BY <1>3, <2>1 DEF Touched, GateShape, RefusalInv
  <2>2. CASE kind = "inputs"
    <3>1. Written' = Written
      BY <1>3, <2>2 DEF Written, Outputs
    <3>2. /\ proc'.at = proc.at /\ proc'.before = proc.before
          /\ proc'.originals = proc.originals /\ proc'.exit = proc.exit
          /\ "outputs" \in proc.edited => "outputs" \in proc'.edited
          /\ Changes' = Changes
      BY <1>3 DEF Touched, GateShape, Changes, NewRecord, Blocked
    <3>3. [name \in Outputs |-> IF name \in DOMAIN proc.originals
                                THEN proc.originals[name] ELSE repo'[name]]
          = [name \in Outputs |-> IF name \in DOMAIN proc.originals
                                  THEN proc.originals[name] ELSE repo[name]]
      BY <1>3, <2>2
    <3>4. QED
      BY <3>1, <3>2, <3>3 DEF RefusalInv
  <2>3. QED
    BY <1>3, <2>1, <2>2
<1>4. QED
  BY <1>1, <1>2, <1>3 DEF PeopleEffect, Touched

\* A refusal leaves the profile and the record as the run found them, whichever
\* write failed and whatever else was edited (beta_gate_cli.py, _apply).
THEOREM RefusalRestores == GateSpec => []RefusalLeavesTree
<1>1. GateInit => RefusalInv
  BY DEF GateInit, RefusalInv, Idle
<1>2. GateShape /\ RefusalInv /\ [GateNext]_gateVars => RefusalInv'
  <2> SUFFICES ASSUME GateShape, RefusalInv, [GateNext]_gateVars PROVE RefusalInv'
    OBVIOUS
  <2>1. CASE People_
    BY <2>1, PeopleDo, RefusalOfEdits
  <2>2. CASE Tool
    BY <2>2, RefusalOfTool
  <2>3. CASE UNCHANGED gateVars
    BY <2>3 DEF gateVars, RefusalInv, Written, Changes, NewRecord, Blocked
  <2>4. QED
    BY <2>1, <2>2, <2>3 DEF GateNext
<1>3. RefusalInv => RefusalLeavesTree
  BY DEF RefusalInv, RefusalLeavesTree
<1>4. QED
  BY <1>1, <1>2, <1>3, GateShapeHolds, PTL DEF GateSpec

-----------------------------------------------------------------------------
(* What is accepted is what lies on disk.                                  *)

\* What a run has captured, when nobody has edited since it began.
CapturedExact ==
    /\ proc.next \in 0 .. Len(Places)
    /\ DOMAIN proc.taken = UNION {Places[k] : k \in 1 .. proc.next}
    /\ \A name \in DOMAIN proc.taken : proc.taken[name] = repo[name]
    /\ proc.next > 0 => proc.taken = [name \in DOMAIN proc.taken |-> proc.taken[name]]

\* The profile is true of the tree, except of a record that it may list.
ProfileTrue == \A name \in DOMAIN repo.profile \ {"gate"} : repo.profile[name] = repo[name]

CleanInv ==
    proc.edited = {} =>
        /\ CleanMeansDerived
        /\ proc.at = "capture" => proc.read = << >>
        /\ proc.at \in {"capture", "digests", "settle", "check"} => CapturedExact
        /\ proc.at \in {"digests", "pins", "settle", "proposal"} =>
              /\ proc.profile = IF proc.at = "digests" THEN repo.profile
                                ELSE Reprofiled(repo.profile, repo)
              /\ DOMAIN proc.read = Outputs /\ proc.read.profile = repo.profile
              /\ proc.read.gate = repo.gate
        /\ proc.at \in {"digests", "pins"} => Blocked
        /\ proc.at \in {"profile", "pins"} => proc.next = 0 /\ proc.taken = << >>
        /\ proc.at = "proposal" /\ ~Blocked =>
              Verdict(repo, proc.draft, anchor, proc.day) = "valid"
        /\ proc.at \in {"record", "check"} => ProfileTrue

\* The places are a sequence, and together they are the tree.
LEMMA PlacesOfTree ==
    /\ Len(Places) \in Nat /\ DOMAIN Places = 1 .. Len(Places) /\ Len(Places) > 0
    /\ UNION {Places[k] : k \in 1 .. Len(Places)} = DOMAIN GateTree
<1>1. Places \in Seq(SUBSET DOMAIN GateTree)
      /\ UNION {Places[k] : k \in DOMAIN Places} = DOMAIN GateTree
  BY GateRunAssumption
<1>2. Len(Places) \in Nat /\ DOMAIN Places = 1 .. Len(Places)
  BY <1>1
<1>3. ASSUME Len(Places) = 0 PROVE FALSE
  <2>1. {Places[k] : k \in DOMAIN Places} = {}
    BY <1>2, <1>3
  <2>2. QED
    BY <1>1, <2>1, OutputsAreFiles
<1>4. Len(Places) > 0
  BY <1>2, <1>3
<1>5. QED
  BY <1>1, <1>2, <1>4

LEMMA OneMorePlace ==
    ASSUME NEW n \in Nat
    PROVE  UNION {Places[k] : k \in 1 .. n + 1}
             = (UNION {Places[k] : k \in 1 .. n}) \cup Places[n + 1]
<1>1. \A k : k \in 1 .. n + 1 <=> k \in 1 .. n \/ k = n + 1
  OBVIOUS
<1>2. QED
  BY <1>1

\* A run that begins to capture has captured nothing.
LEMMA CaptureBegins ==
    ASSUME NEW next, NEW taken, next = 0, taken = << >>
    PROVE  /\ next \in 0 .. Len(Places)
           /\ DOMAIN taken = UNION {Places[k] : k \in 1 .. next}
           /\ DOMAIN taken = {} /\ ~(next > 0)
BY PlacesOfTree

\* A run that has captured every place has the tree.
LEMMA CaptureEnds ==
    ASSUME GateShape, CapturedExact, Captured
    PROVE  proc.taken = repo
<1>1. DOMAIN proc.taken = DOMAIN GateTree /\ proc.next > 0
  BY PlacesOfTree DEF CapturedExact, Captured
<1>2. DOMAIN repo = DOMAIN GateTree /\ repo = [name \in DOMAIN repo |-> repo[name]]
  BY DEF GateShape, WholeTree
<1>3. proc.taken = [name \in DOMAIN proc.taken |-> proc.taken[name]]
      /\ \A name \in DOMAIN proc.taken : proc.taken[name] = repo[name]
  BY <1>1 DEF CapturedExact
<1>4. [name \in DOMAIN proc.taken |-> proc.taken[name]] = [name \in DOMAIN repo |-> repo[name]]
  BY <1>1, <1>2, <1>3
<1>5. QED
  BY <1>2, <1>3, <1>4

LEMMA CleanOfEnd ==
    ASSUME NEW exit, Exit(exit),
           /\ exit = "clean" /\ proc.read # << >> /\ proc.edited = {}
           => /\ \A name \in DOMAIN repo.profile : repo.profile[name] = repo[name]
              /\ Verdict(repo, repo.gate, anchor, proc.day) = "valid"
    PROVE  CleanInv'
<1>1. proc' = Ended(exit) /\ repo' = repo /\ anchor' = anchor
  BY DEF Exit, Reads, Runs
<1>2. proc'.at = "idle" /\ proc'.exit = exit /\ proc'.edited = proc.edited
      /\ (exit = "clean" => proc'.read = proc.read /\ proc'.day = proc.day)
  BY <1>1, EndOfRun
<1>3. (proc.edited = {} => CleanMeansDerived)'
  BY <1>1, <1>2 DEF CleanMeansDerived
<1>4. QED
  BY <1>2, <1>3 DEF CleanInv

\* What is accepted does not list the record (_validate_export_boundary).
LEMMA ValidListsNoRecord ==
    ASSUME NEW tree, NEW gate, NEW constant, NEW day, Verdict(tree, gate, constant, day) = "valid"
    PROVE  "gate" \notin DOMAIN tree.profile
<1>1. Coherent(tree, gate, constant, day)
  BY DEF Verdict
<1>2. ExportBounded(tree, constant)
  BY <1>1 DEF Coherent
<1>3. QED
  BY <1>2 DEF ExportBounded, Excluded

LEMMA CleanOfTool ==
    ASSUME GateShape, FavorInv, CleanInv, Tool
    PROVE  CleanInv'
<1> USE FieldsOfARun
<1>1. CASE StartValidate \/ StartRecompute
  <2>1. PICK at \in {"capture", "profile"}, write \in BOOLEAN : Begin(at, write)
    BY <1>1 DEF StartValidate, StartRecompute
  <2>2. /\ proc'.at \in {"capture", "profile"} /\ proc'.exit = "running"
        /\ proc'.read = << >> /\ proc'.next = 0 /\ proc'.taken = << >>
    BY <2>1 DEF Begin, Reads, Idle
  <2>3. CapturedExact'
    BY <2>2, CaptureBegins DEF CapturedExact
  <2>4. QED
    BY <2>2, <2>3 DEF CleanInv, CleanMeansDerived
<1>2. CASE Capture
  <2> DEFINE names == Places[proc.next + 1]
             taken == [name \in DOMAIN proc.taken \cup names |->
                          IF name \in names THEN repo[name] ELSE proc.taken[name]]
  <2>1. /\ proc' = [proc EXCEPT !.next = @ + 1, !.taken = taken]
        /\ repo' = repo /\ anchor' = anchor
        /\ proc.at \in {"capture", "digests", "settle", "check"} /\ proc.next # Len(Places)
    BY <1>2 DEF Capture, Reads, Runs, Captured
  <2>2. /\ proc'.next = proc.next + 1 /\ proc'.taken = taken
        /\ proc'.at = proc.at /\ proc'.exit = "running" /\ proc'.edited = proc.edited
        /\ proc'.read = proc.read /\ proc'.profile = proc.profile /\ proc'.draft = proc.draft
    BY <2>1 DEF GateShape
  <2>3. CASE proc.edited = {}
    <3>1. CapturedExact
      BY <2>1, <2>3 DEF CleanInv
    <3>2. proc.next + 1 \in 0 .. Len(Places)
      BY <2>1, <3>1, PlacesOfTree DEF CapturedExact
    <3>3. UNION {Places[k] : k \in 1 .. proc.next + 1}
            = (UNION {Places[k] : k \in 1 .. proc.next}) \cup names
      <4>1. proc.next \in Nat
        BY <3>1, PlacesOfTree DEF CapturedExact
      <4>2. QED
        BY <4>1, OneMorePlace
    <3>4. DOMAIN taken = UNION {Places[k] : k \in 1 .. proc.next + 1}
      BY <3>1, <3>3 DEF CapturedExact
    <3>5. \A name \in DOMAIN taken : taken[name] = repo[name]
      BY <3>1 DEF CapturedExact
    <3>6. taken = [name \in DOMAIN taken |-> taken[name]]
      OBVIOUS
    <3> HIDE DEF taken
    <3>7. CapturedExact'
      BY <2>1, <2>2, <3>2, <3>4, <3>5, <3>6 DEF CapturedExact
    <3>8. QED
      BY <2>1, <2>2, <2>3, <3>7 DEF CleanInv, CleanMeansDerived, ProfileTrue, Blocked
  <2>4. CASE proc.edited # {}
    BY <2>2, <2>4 DEF CleanInv
  <2>5. QED
    BY <2>3, <2>4
<1>3. CASE Validate
  <2>1. PICK exit \in {"clean", "invalid"} : Exit(exit)
    BY <1>3 DEF Validate
  <2>2. proc.edited = {} => proc.read = << >>
    BY <1>3 DEF Validate, CleanInv
  <2>3. QED
    BY <2>1, <2>2, CleanOfEnd
<1>4. CASE ReadProfile
  <2>1. /\ proc'.at = "digests" /\ proc'.exit = "running" /\ proc'.edited = proc.edited
        /\ proc'.profile = repo.profile /\ proc'.read = Written
        /\ proc'.draft = proc.draft /\ repo' = repo
        /\ proc'.next = proc.next /\ proc'.taken = proc.taken /\ proc.at = "profile"
    BY <1>4 DEF ReadProfile, Reads, GateShape
  <2>2. DOMAIN Written = Outputs /\ Written.profile = repo.profile /\ Written.gate = repo.gate
    BY DEF Written, Outputs
  <2> HIDE DEF Written
  <2>3. proc.draft = << >>
    BY <1>4 DEF ReadProfile, FavorInv
  <2>4. proc.edited = {} => CapturedExact'
    BY <2>1, CaptureBegins DEF CapturedExact, CleanInv
  <2>5. QED
    BY <2>1, <2>2, <2>3, <2>4 DEF CleanInv, CleanMeansDerived, Blocked
<1>r. CASE Reprofile
  <2>1. /\ proc'.at = "pins" /\ proc'.exit = "running" /\ proc'.edited = proc.edited
        /\ proc'.profile = Reprofiled(proc.profile, proc.taken) /\ proc'.read = proc.read
        /\ proc'.draft = proc.draft /\ repo' = repo
        /\ proc'.next = 0 /\ proc'.taken = << >> /\ proc.at = "digests"
    BY <1>r DEF Reprofile, Reads, GateShape
  <2>2. proc.edited = {} => proc.taken = repo /\ proc.profile = repo.profile
    BY <1>r, <2>1, CaptureEnds DEF Reprofile, CleanInv
  <2>3. QED
    BY <2>1, <2>2 DEF CleanInv, CleanMeansDerived, Blocked
<1>5. CASE ReadPins
  <2>1. CASE Exit("invalid")
    BY <2>1, CleanOfEnd
  <2> DEFINE known == [proc EXCEPT !.read.gate = repo.gate]
  <2>2. CASE Reads([known EXCEPT !.at = "proposal"])
    <3>1. /\ proc'.at = "proposal" /\ proc'.exit = "running" /\ proc'.edited = proc.edited
          /\ proc'.profile = proc.profile /\ proc'.draft = proc.draft
          /\ proc'.read = [proc.read EXCEPT !.gate = repo.gate] /\ repo' = repo
      BY <1>5, <2>2 DEF ReadPins, Reads, GateShape
    <3>2. QED
      BY <1>5, <3>1 DEF ReadPins, CleanInv, CleanMeansDerived, Blocked, Outputs
  <2>3. CASE Reads([known EXCEPT !.at = "settle", !.draft = Repin(repo),
                                 !.attempt = 1, !.day = today])
    <3>1. /\ proc'.at = "settle" /\ proc'.exit = "running" /\ proc'.edited = proc.edited
          /\ proc'.profile = proc.profile
          /\ proc'.next = proc.next /\ proc'.taken = proc.taken
          /\ proc'.read = [proc.read EXCEPT !.gate = repo.gate] /\ repo' = repo
      BY <1>5, <2>3 DEF ReadPins, Reads, GateShape
    <3>2. proc.edited = {} => proc.next = 0 /\ proc.taken = << >>
      BY <1>5 DEF ReadPins, CleanInv
    <3>3. proc.edited = {} => CapturedExact'
      BY <3>1, <3>2, CaptureBegins DEF CapturedExact
    <3>4. QED
      BY <1>5, <3>1, <3>3 DEF ReadPins, CleanInv, CleanMeansDerived, Outputs
  <2>4. QED
    BY <1>5, <2>1, <2>2, <2>3 DEF ReadPins
<1>6. CASE Settle
  <2>1. CASE Exit("invalid")
    BY <2>1, CleanOfEnd
  <2>2. CASE /\ Verdict(proc.taken, proc.draft, anchor, proc.day) = "valid"
             /\ Reads([proc EXCEPT !.at = "proposal"])
    <3>1. /\ proc'.at = "proposal" /\ proc'.exit = "running" /\ proc'.edited = proc.edited
          /\ proc'.profile = proc.profile /\ proc'.read = proc.read /\ proc'.day = proc.day
          /\ proc'.draft = proc.draft /\ repo' = repo /\ anchor' = anchor
      BY <1>6, <2>2 DEF Settle, Reads, Runs, GateShape
    <3>2. proc.edited = {} => proc.taken = repo
      BY <1>6, CaptureEnds DEF Settle, CleanInv
    <3>3. proc.edited = {} => Verdict(repo, proc.draft, anchor, proc.day) = "valid"
      BY <2>2, <3>2
    <3>4. QED
      BY <1>6, <3>1, <3>3 DEF Settle, CleanInv, CleanMeansDerived, Blocked
  <2>3. CASE \E aggregate :
               Reads([proc EXCEPT !.draft.aggregate = aggregate, !.attempt = @ + 1,
                                  !.next = 0, !.taken = << >>, !.day = today])
    <3>1. /\ proc'.at = "settle" /\ proc'.exit = "running" /\ proc'.edited = proc.edited
          /\ proc'.profile = proc.profile /\ proc'.read = proc.read
          /\ proc'.next = 0 /\ proc'.taken = << >> /\ repo' = repo
      BY <1>6, <2>3 DEF Settle, Reads, GateShape
    <3>2. CapturedExact'
      BY <3>1, CaptureBegins DEF CapturedExact
    <3>3. QED
      BY <1>6, <3>1, <3>2 DEF Settle, CleanInv, CleanMeansDerived
  <2>4. QED
    BY <1>6, <2>1, <2>2, <2>3 DEF Settle
<1>7. CASE Propose
  <2>1. PICK exit \in {"clean", "pending"} :
            Exit(exit) /\ (exit = "clean" => Changes = {} /\ ~Blocked)
    BY <1>7 DEF Propose
  <2>2. ASSUME exit = "clean", proc.edited = {}
        PROVE  /\ \A name \in DOMAIN repo.profile : repo.profile[name] = repo[name]
               /\ Verdict(repo, repo.gate, anchor, proc.day) = "valid"
    <3>1. /\ proc.profile = Reprofiled(repo.profile, repo) /\ proc.read.profile = repo.profile
          /\ proc.read.gate = repo.gate
          /\ Verdict(repo, proc.draft, anchor, proc.day) = "valid"
      BY <1>7, <2>1, <2>2 DEF Propose, CleanInv
    <3>2. proc.profile = proc.read.profile /\ proc.draft = proc.read.gate
      BY <2>1, <2>2 DEF Changes, NewRecord
    <3>3. \A name \in DOMAIN repo.profile : Reprofiled(repo.profile, repo)[name] = repo[name]
      BY DEF Reprofiled
    <3>4. QED
      BY <3>1, <3>2, <3>3
  <2>3. QED
    BY <2>1, <2>2, CleanOfEnd
<1>8. CASE WriteProfile
  <2>1. /\ proc'.at = "record" /\ proc'.exit = "running" /\ proc'.edited = proc.edited
        /\ repo' = IF "profile" \in Changes THEN [repo EXCEPT !.profile = proc.profile] ELSE repo
        /\ proc.at = "proposal"
    BY <1>8 DEF WriteProfile, GateShape
  <2>2. CASE proc.edited = {}
    <3>1. proc.profile = Reprofiled(repo.profile, repo) /\ proc.read.profile = repo.profile
      BY <2>1, <2>2 DEF CleanInv
    <3>2. "profile" \in DOMAIN repo /\ repo'.profile = proc.profile
          /\ \A name \in DOMAIN repo.profile : repo'[name] = repo[name]
      BY <2>1, <3>1, OutputsAreFiles
         DEF GateShape, WholeTree, ListsFiles, Outputs, Changes
    <3>3. ProfileTrue'
      BY <3>1, <3>2 DEF ProfileTrue, Reprofiled
    <3>4. QED
      BY <2>1, <3>3 DEF CleanInv, CleanMeansDerived
  <2>3. QED
    BY <2>1, <2>2 DEF CleanInv
<1>9. CASE WriteRecord
  <2>1. /\ proc'.at = "check" /\ proc'.exit = "running" /\ proc'.edited = proc.edited
        /\ proc'.next = 0 /\ proc'.taken = << >>
        /\ repo' = IF "gate" \in Changes THEN [repo EXCEPT !.gate = proc.draft] ELSE repo
        /\ proc.at = "record"
    BY <1>9 DEF WriteRecord, GateShape
  <2>2. CapturedExact'
    BY <2>1, CaptureBegins DEF CapturedExact
  <2>3. /\ \A name \in DOMAIN repo \ {"gate"} : repo'[name] = repo[name]
        /\ "profile" \in DOMAIN repo
    BY <2>1, OutputsAreFiles DEF GateShape, WholeTree, Outputs
  <2>4. proc.edited = {} => ProfileTrue'
    BY <2>1, <2>3 DEF CleanInv, ProfileTrue, GateShape, WholeTree, ListsFiles
  <2>5. QED
    BY <2>1, <2>2, <2>4 DEF CleanInv, CleanMeansDerived
<1>10. CASE WriteFails
  <2>1. CASE Exit("raised")
    BY <2>1, CleanOfEnd
  <2>2. CASE ~Exit("raised")
    <3>1. proc'.at = "restore" /\ proc'.exit = "running"
      BY <1>10, <2>2 DEF WriteFails, Reads, GateShape
    <3>2. QED
      BY <3>1 DEF CleanInv, CleanMeansDerived
  <2>3. QED
    BY <2>1, <2>2
<1>11. CASE Check
  <2>1. CASE Exit("pending")
    BY <2>1, CleanOfEnd
  <2>2. CASE Captured /\ Verdict(proc.taken, proc.taken.gate, anchor, proc.day) = "valid"
             /\ Exit("clean")
    <3>1. ASSUME proc.edited = {}
          PROVE  /\ \A name \in DOMAIN repo.profile : repo.profile[name] = repo[name]
                 /\ Verdict(repo, repo.gate, anchor, proc.day) = "valid"
      <4>1. proc.taken = repo /\ ProfileTrue
        BY <1>11, <2>2, <3>1, CaptureEnds DEF Check, CleanInv
      <4>2. Verdict(repo, repo.gate, anchor, proc.day) = "valid"
        BY <2>2, <4>1
      <4>3. "gate" \notin DOMAIN repo.profile
        BY <4>2, ValidListsNoRecord
      <4>4. QED
        BY <4>1, <4>2, <4>3 DEF ProfileTrue
    <3>2. QED
      BY <2>2, <3>1, CleanOfEnd
  <2>3. CASE Reads([proc EXCEPT !.at = "restore"])
    <3>1. proc'.at = "restore" /\ proc'.exit = "running"
      BY <1>11, <2>3 DEF Check, Reads, GateShape
    <3>2. QED
      BY <3>1 DEF CleanInv, CleanMeansDerived
  <2>4. QED
    BY <1>11, <2>1, <2>2, <2>3 DEF Check
<1>12. CASE Restore
  <2>1. CASE Exit("invalid")
    BY <2>1, CleanOfEnd
  <2>2. ASSUME NEW name \in Outputs \cap ToRestore, TakeBack(name) PROVE CleanInv'
    BY <1>12, <2>2, StepsOfRestore, OneTakenBack DEF CleanInv, CleanMeansDerived
  <2>3. QED
    BY <1>12, <2>1, <2>2, StepsOfRestore
<1>13. CASE Kill
  BY <1>13, CleanOfEnd DEF Kill
<1>14. QED
  BY <1>1, <1>2, <1>3, <1>4, <1>r, <1>5, <1>6, <1>7, <1>8, <1>9, <1>10, <1>11, <1>12, <1>13
     DEF Tool

LEMMA CleanOfEdits ==
    ASSUME GateShape, CleanInv, PeopleEffect
    PROVE  CleanInv'
<1> USE FieldsOfARun
<1>1. CASE proc' = proc /\ repo' = repo /\ anchor' = anchor
  BY <1>1 DEF CleanInv, CleanMeansDerived, CapturedExact, ProfileTrue, Blocked
<1>2. CASE proc' = Idle
  BY <1>2 DEF CleanInv, CleanMeansDerived, Idle
<1>3. ASSUME NEW kind, proc' = Touched(kind), proc.at # "idle" PROVE CleanInv'
  <2>1. kind \in proc'.edited
    BY <1>3 DEF Touched, GateShape
  <2>2. QED
    BY <2>1 DEF CleanInv
<1>4. QED
  BY <1>1, <1>2, <1>3 DEF PeopleEffect, Touched

\* When `recompute` leaves with 0 and nobody edited the tree meanwhile, there is
\* nothing left to re-derive and the tree as it lies on disk is accepted
\* (beta_gate_cli.py, _recompute and _apply).
THEOREM CleanIsDerived == GateSpec => []CleanMeansDerived
<1>1. GateInit => CleanInv
  BY DEF GateInit, CleanInv, CleanMeansDerived, Idle
<1>2. GateShape /\ FavorInv /\ CleanInv /\ [GateNext]_gateVars => CleanInv'
  <2> SUFFICES ASSUME GateShape, FavorInv, CleanInv, [GateNext]_gateVars PROVE CleanInv'
    OBVIOUS
  <2>1. CASE People_
    BY <2>1, PeopleDo, CleanOfEdits
  <2>2. CASE Tool
    BY <2>2, CleanOfTool
  <2>3. CASE UNCHANGED gateVars
    BY <2>3 DEF gateVars, CleanInv, CleanMeansDerived, CapturedExact, ProfileTrue, Blocked
  <2>4. QED
    BY <2>1, <2>2, <2>3 DEF GateNext
<1>3. CleanInv => CleanMeansDerived
  BY DEF CleanInv, CleanMeansDerived
<1>4. QED
  BY <1>1, <1>2, <1>3, GateShapeHolds, FavorHolds, PTL DEF GateSpec

-----------------------------------------------------------------------------
(* The types of a run of the gate.                                         *)

RunTyped ==
    /\ proc.exit \in Exits
    /\ (proc.at = "idle") <=> (proc.exit # "running")
    /\ proc.next \in 0 .. Len(Places) /\ proc.attempt \in 0 .. 2
    /\ DOMAIN proc.taken \subseteq DOMAIN GateTree
    /\ proc.edited \in SUBSET {"outputs", "inputs"}

\* What a run holds when it is not there.
LEMMA IdleIsTyped ==
    /\ Idle.at = "idle" /\ Idle.exit = "none" /\ Idle.next = 0 /\ Idle.attempt = 0
    /\ DOMAIN Idle.taken = {} /\ Idle.edited = {}
    /\ 0 \in 0 .. Len(Places) /\ 0 \in 0 .. 2 /\ "none" \in Exits
BY PlacesOfTree DEF Idle, Exits

LEMMA TypedStart ==
    ASSUME GateShape, NEW at \in {"capture", "profile"}, NEW write \in BOOLEAN, Begin(at, write)
    PROVE  RunTyped'
<1> USE FieldsOfARun
<1>1. proc' = [Idle EXCEPT !.at = at, !.exit = "running", !.write = write,
                           !.day = today, !.before = Written]
  BY DEF Begin, Reads
<1>2. /\ proc'.at = at /\ proc'.exit = "running" /\ proc'.next = Idle.next
      /\ proc'.attempt = Idle.attempt /\ proc'.taken = Idle.taken /\ proc'.edited = Idle.edited
  BY <1>1
<1>3. QED
  BY <1>2, IdleIsTyped DEF RunTyped, Exits

LEMMA TypedEnd ==
    ASSUME GateShape, RunTyped, NEW exit \in Exits \ {"running"}, proc' = Ended(exit)
    PROVE  RunTyped'
<1> USE FieldsOfARun
<1>1. /\ proc'.at = Idle.at /\ proc'.exit = exit /\ proc'.next = Idle.next
      /\ proc'.attempt = Idle.attempt /\ proc'.edited = proc.edited
      /\ proc'.taken \in {proc.taken, << >>}
  BY DEF Ended
<1>2. DOMAIN << >> = {}
  OBVIOUS
<1>3. QED
  BY <1>1, <1>2, IdleIsTyped DEF RunTyped

LEMMA TypedByTool ==
    ASSUME GateShape, RunTyped, Tool
    PROVE  RunTyped'
<1> USE FieldsOfARun
<1>e. DOMAIN << >> = {} /\ 0 \in 0 .. Len(Places)
  BY IdleIsTyped
<1>x. ASSUME NEW exit \in Exits \ {"running"}, Exit(exit) PROVE RunTyped'
  BY <1>x, TypedEnd DEF Exit, Reads
<1>1. CASE StartValidate \/ StartRecompute
  BY <1>1, TypedStart DEF StartValidate, StartRecompute
<1>2. CASE Capture
  <2>1. Places[proc.next + 1] \subseteq DOMAIN GateTree
    <3>1. proc.next + 1 \in 1 .. Len(Places)
      BY <1>2, PlacesOfTree DEF Capture, Captured, RunTyped
    <3>2. QED
      BY <3>1, PlacesOfTree
  <2>2. proc'.next \in 0 .. Len(Places)
    BY <1>2, PlacesOfTree DEF Capture, Captured, RunTyped, Reads, GateShape
  <2>3. DOMAIN proc'.taken = DOMAIN proc.taken \cup Places[proc.next + 1]
    BY <1>2 DEF Capture, Reads, GateShape
  <2>4. QED
    BY <1>2, <2>1, <2>2, <2>3 DEF Capture, Reads, GateShape, RunTyped
<1>3. CASE Validate
  BY <1>3, <1>x DEF Validate, Exits
<1>4. CASE ReadProfile
  BY <1>4 DEF ReadProfile, Reads, GateShape, RunTyped
<1>r. CASE Reprofile
  BY <1>r, <1>e DEF Reprofile, Reads, GateShape, RunTyped
<1>5. CASE ReadPins
  <2>1. CASE Exit("invalid")
    BY <2>1, <1>x DEF Exits
  <2>2. CASE ~Exit("invalid")
    <3>1. /\ proc'.at # "idle" /\ proc'.exit = proc.exit /\ proc'.next = proc.next
          /\ proc'.attempt \in {proc.attempt, 1} /\ proc'.taken = proc.taken
          /\ proc'.edited = proc.edited /\ proc.at # "idle"
      BY <1>5, <2>2 DEF ReadPins, Reads, GateShape
    <3>2. QED
      BY <3>1 DEF RunTyped
  <2>3. QED
    BY <2>1, <2>2
<1>6. CASE Settle
  <2>1. CASE Exit("invalid")
    BY <2>1, <1>x DEF Exits
  <2>2. CASE ~Exit("invalid")
    <3>1. /\ proc.at # "idle" /\ proc'.at # "idle" /\ proc'.exit = proc.exit
          /\ proc'.edited = proc.edited
          /\ \/ /\ proc'.next = proc.next /\ proc'.attempt = proc.attempt
                /\ proc'.taken = proc.taken
             \/ /\ proc'.next = 0 /\ proc.attempt < 2 /\ proc'.attempt = proc.attempt + 1
                /\ proc'.taken = << >>
      BY <1>6, <2>2 DEF Settle, MayCorrect, Reads, GateShape
    <3>2. QED
      BY <1>e, <3>1 DEF RunTyped
  <2>3. QED
    BY <2>1, <2>2
<1>7. CASE Propose
  BY <1>7, <1>x DEF Propose, Exits
<1>8. CASE WriteProfile
  BY <1>8 DEF WriteProfile, GateShape, RunTyped
<1>9. CASE WriteRecord
  BY <1>9, <1>e DEF WriteRecord, GateShape, RunTyped
<1>10. CASE WriteFails
  <2>1. CASE Exit("raised")
    BY <2>1, <1>x DEF Exits
  <2>2. CASE ~Exit("raised")
    BY <1>10, <2>2 DEF WriteFails, Reads, GateShape, RunTyped
  <2>3. QED
    BY <2>1, <2>2
<1>11. CASE Check
  <2>1. CASE Exit("pending") \/ Exit("clean")
    BY <2>1, <1>x DEF Exits
  <2>2. CASE Reads([proc EXCEPT !.at = "restore"])
    BY <1>11, <2>2 DEF Check, Reads, GateShape, RunTyped
  <2>3. QED
    BY <1>11, <2>1, <2>2 DEF Check
<1>12. CASE Restore
  <2>1. CASE Exit("invalid")
    BY <2>1, <1>x DEF Exits
  <2>2. ASSUME NEW name \in Outputs \cap ToRestore, TakeBack(name) PROVE RunTyped'
    BY <1>12, <2>2, StepsOfRestore, OneTakenBack DEF RunTyped
  <2>3. QED
    BY <1>12, <2>1, <2>2, StepsOfRestore
<1>13. CASE Kill
  BY <1>13, <1>x DEF Kill, Exits
<1>14. QED
  BY <1>1, <1>2, <1>3, <1>4, <1>r, <1>5, <1>6, <1>7, <1>8, <1>9, <1>10, <1>11, <1>12, <1>13
     DEF Tool

LEMMA TypedByPeople ==
    ASSUME GateShape, RunTyped, PeopleEffect
    PROVE  RunTyped'
<1> USE FieldsOfARun
<1>1. CASE proc' = proc
  BY <1>1 DEF RunTyped
<1>2. CASE proc' = Idle
  BY <1>2, IdleIsTyped DEF RunTyped
<1>3. ASSUME NEW kind \in {"inputs", "outputs"}, proc' = Touched(kind), proc.at # "idle"
      PROVE  RunTyped'
  BY <1>3 DEF Touched, GateShape, RunTyped
<1>4. QED
  BY <1>1, <1>2, <1>3 DEF PeopleEffect, Touched

\* A run is at one of its steps exactly while it has no exit code, it captures no
\* place twice and no file that the tree has not, it settles the aggregate at
\* most twice, and no edit adds or removes a name of the tree.
THEOREM GateTypeCorrect == GateSpec => []GateRunTypeOK
<1>1. GateInit => RunTyped
  BY IdleIsTyped DEF GateInit, RunTyped
<1>2. GateShape /\ RunTyped /\ [GateNext]_gateVars => RunTyped'
  <2> SUFFICES ASSUME GateShape, RunTyped, [GateNext]_gateVars PROVE RunTyped'
    OBVIOUS
  <2>1. CASE People_
    BY <2>1, PeopleDo, TypedByPeople
  <2>2. CASE Tool
    BY <2>2, TypedByTool
  <2>3. CASE UNCHANGED gateVars
    BY <2>3 DEF gateVars, RunTyped
  <2>4. QED
    BY <2>1, <2>2, <2>3 DEF GateNext
<1>3. GateShape /\ RunTyped => GateRunTypeOK
  BY PlacesOfTree DEF GateShape, WholeTree, RunTyped, GateRunTypeOK
<1>4. QED
  BY <1>1, <1>2, <1>3, GateShapeHolds, PTL DEF GateSpec
=============================================================================
