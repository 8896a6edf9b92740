--------------------------- MODULE CatalogAssets ---------------------------
(***************************************************************************)
(* Public images: those of the designs of the catalogue, the icons of the  *)
(* calculator's options and the logo and icon of the studio.  A row keeps  *)
(* the key of an object in MinIO; upload, row, removal and audit record    *)
(* are separate calls, without a transaction or a lock over them.          *)
(***************************************************************************)
EXTENDS Integers, FiniteSets

CONSTANTS
    Designs,
    Icons, Brand,    \* rows with one key: calculator options; logo and icon
    Objects,         \* object keys, each made once
    Requests,
    ImageLimit,      \* five
    MaxFaults,       \* bound: failed statements and crashes
    None

Slots == Icons \union Brand

VARIABLES
    design,    \* designs in catalog_designs
    images,    \* table catalog_design_images
    current,   \* the key in each option's row and in studio_settings
    bucket,    \* objects in MinIO
    used,      \* keys made so far
    proc,      \* what each request is doing
    faults,
    unserved,  \* history: keys whose removal followed a failed audit record
    crowded    \* history: uploads for one design overlapped

vars == <<design, images, current, bucket, used, proc, faults, unserved, crowded>>

Image == [key : Objects, of : Designs, order : Nat]

Stages == {"idle", "storing", "inserting", "auditing", "replacing", "discarding", "removing"}
Proc == [stage : Stages, of : Designs \union Slots \union {None}, count : Nat,
         key : Objects \union {None}, old : SUBSET Objects]
Idle == [stage |-> "idle", of |-> None, count |-> 0, key |-> None, old |-> {}]

TypeOK ==
    /\ design \subseteq Designs
    /\ images \subseteq Image
    /\ current \in [Slots -> Objects \union {None}]
    /\ bucket \subseteq Objects /\ used \subseteq Objects
    /\ proc \in [Requests -> Proc]
    /\ faults \in 0..MaxFaults
    /\ unserved \subseteq Objects
    /\ crowded \subseteq Designs

Init ==
    /\ design = {} /\ images = {}
    /\ current = [s \in Slots |-> None]
    /\ bucket = {} /\ used = {}
    /\ proc = [r \in Requests |-> Idle]
    /\ faults = 0
    /\ unserved = {} /\ crowded = {}

ImagesOf(d) == {i \in images : i.of = d}

End(r) == proc' = [proc EXCEPT ![r] = Idle]

-----------------------------------------------------------------------------
(* Designs and their images.                                               *)

CreateDesign(d) ==
    /\ d \notin design
    /\ design' = design \union {d}
    /\ UNCHANGED <<images, current, bucket, used, proc, faults, unserved, crowded>>

HasRoomForOne(d) == Cardinality(ImagesOf(d)) <= ImageLimit

HasRoom(d) == Cardinality(ImagesOf(d)) < ImageLimit

UploadImageCheck(r, d) ==
    /\ proc[r].stage = "idle"
    /\ d \in design
    /\ HasRoom(d)
    /\ proc' = [proc EXCEPT ![r] = [Idle EXCEPT !.stage = "storing", !.of = d,
                                                !.count = Cardinality(ImagesOf(d))]]
    /\ crowded' = IF \E q \in Requests : proc[q].of = d THEN crowded \union {d} ELSE crowded
    /\ UNCHANGED <<design, images, current, bucket, used, faults, unserved>>

Put(r, key) ==
    /\ proc[r].stage = "storing"
    /\ key \notin used
    /\ bucket' = bucket \union {key} /\ used' = used \union {key}
    /\ proc' = [proc EXCEPT ![r].key = key,
          ![r].stage = IF proc[r].of \in Designs THEN "inserting" ELSE "replacing"]
    /\ UNCHANGED <<design, images, current, faults, unserved, crowded>>

\* The foreign key refuses the image of a design deleted meanwhile.
InsertImage(r) ==
    LET d == proc[r].of IN
    /\ proc[r].stage = "inserting"
    /\ IF d \in design
       THEN /\ images' = images \union {[key |-> proc[r].key, of |-> d, order |-> proc[r].count]}
            /\ proc' = [proc EXCEPT ![r].stage = "auditing"]
       ELSE /\ proc' = [proc EXCEPT ![r].stage = "discarding"]
            /\ UNCHANGED images
    /\ UNCHANGED <<design, current, bucket, used, faults, unserved, crowded>>

Audit(r) ==
    /\ proc[r].stage = "auditing"
    /\ End(r)
    /\ UNCHANGED <<design, images, current, bucket, used, faults, unserved, crowded>>

\* The catch of the upload; an object that cannot be removed stays.
Discard(r) ==
    /\ proc[r].stage = "discarding"
    /\ bucket' \in {bucket, bucket \ {proc[r].key}}
    /\ End(r)
    /\ UNCHANGED <<design, images, current, used, faults, unserved, crowded>>

DeleteImage(r, i) ==
    /\ proc[r].stage = "idle"
    /\ i \in images
    /\ images' = images \ {i}
    /\ proc' = [proc EXCEPT ![r] = [Idle EXCEPT !.stage = "removing", !.old = {i.key}]]
    /\ UNCHANGED <<design, current, bucket, used, faults, unserved, crowded>>

\* The images found with the design; deleting it cascades to all it has.
DeleteDesignRead(r, d) ==
    /\ proc[r].stage = "idle"
    /\ d \in design
    /\ proc' = [proc EXCEPT ![r] = [Idle EXCEPT !.stage = "replacing", !.of = d,
                                                !.old = {i.key : i \in ImagesOf(d)}]]
    /\ UNCHANGED <<design, images, current, bucket, used, faults, unserved, crowded>>

DeleteDesign(r, d) ==
    /\ proc[r].stage = "replacing" /\ proc[r].of = d /\ d \in Designs
    /\ design' = design \ {d}
    /\ images' = images \ ImagesOf(d)
    /\ proc' = [proc EXCEPT ![r] = IF d \in design
                     THEN [proc[r] EXCEPT !.stage = "removing", !.of = None] ELSE Idle]
    /\ UNCHANGED <<current, bucket, used, faults, unserved, crowded>>

SetDesignCover(i) ==
    /\ i \in images
    /\ images' = (images \ ImagesOf(i.of)) \union
          {[j EXCEPT !.order = IF j = i THEN 0 ELSE j.order + 1] : j \in ImagesOf(i.of)}
    /\ \A j \in images' : j.order <= ImageLimit    \* bound
    /\ UNCHANGED <<design, current, bucket, used, proc, faults, unserved, crowded>>

-----------------------------------------------------------------------------
(* uploadOptionIcon and uploadBrandAsset: one key replaces another.        *)

PreviousOrNull(s) == {current[s]}

Previous(s) == {current[s]} \ {None}

ReplaceCheck(r, s) ==
    /\ proc[r].stage = "idle"
    /\ proc' = [proc EXCEPT ![r] = [Idle EXCEPT !.stage = "storing", !.of = s,
                                                !.old = Previous(s)]]
    /\ UNCHANGED <<design, images, current, bucket, used, faults, unserved, crowded>>

SupersededNow(r) == {proc[r].key}

Superseded(r) == proc[r].old

Replace(r) ==
    LET s == proc[r].of IN
    /\ proc[r].stage = "replacing" /\ s \in Slots
    /\ current' = [current EXCEPT ![s] = proc[r].key]
    /\ proc' = [proc EXCEPT ![r] = [Idle EXCEPT !.stage = "removing", !.old = Superseded(r)]]
    /\ UNCHANGED <<design, images, bucket, used, faults, unserved, crowded>>

RemoveOld(r) ==
    /\ proc[r].stage = "removing"
    /\ \E failed \in SUBSET proc[r].old : bucket' = (bucket \ proc[r].old) \union (bucket \intersect failed)
    /\ End(r)
    /\ UNCHANGED <<design, images, current, used, faults, unserved, crowded>>

-----------------------------------------------------------------------------
(* Failures.                                                               *)

\* Whether the handler has a catch around the statement that failed.
Cleans(r) ==
    \/ proc[r].stage \in {"inserting", "auditing"}
    \/ proc[r].stage = "replacing" /\ proc[r].of \in Brand

StatementFails(r) ==
    /\ proc[r].stage \in {"inserting", "auditing", "replacing"} /\ faults < MaxFaults
    /\ faults' = faults + 1
    /\ unserved' = IF proc[r].stage = "auditing" THEN unserved \union {proc[r].key} ELSE unserved
    /\ proc' = [proc EXCEPT ![r] = IF Cleans(r)
                     THEN [proc[r] EXCEPT !.stage = "discarding"] ELSE Idle]
    /\ UNCHANGED <<design, images, current, bucket, used, crowded>>

Crash(r) ==
    /\ proc[r].stage # "idle" /\ faults < MaxFaults
    /\ faults' = faults + 1
    /\ End(r)
    /\ UNCHANGED <<design, images, current, bucket, used, unserved, crowded>>

-----------------------------------------------------------------------------

Next ==
    \/ \E d \in Designs : CreateDesign(d)
    \/ \E i \in images : SetDesignCover(i)
    \/ \E r \in Requests :
        \/ \E d \in Designs :
               UploadImageCheck(r, d) \/ DeleteDesignRead(r, d) \/ DeleteDesign(r, d)
        \/ \E key \in Objects : Put(r, key)
        \/ InsertImage(r) \/ Audit(r) \/ Discard(r)
        \/ \E i \in images : DeleteImage(r, i)
        \/ \E s \in Slots : ReplaceCheck(r, s)
        \/ Replace(r) \/ RemoveOld(r)
        \/ StatementFails(r) \/ Crash(r)

Spec == Init /\ [][Next]_vars

-----------------------------------------------------------------------------
(* Properties.                                                             *)

\* Every key a row refers to is in the bucket, however replacements, uploads
\* and deletions overlap and fail, but for images whose audit record failed.
Served ==
    /\ \A i \in images : i.key \in bucket \union unserved
    /\ \A s \in Slots : current[s] \in bucket \union {None}

\* A design has at most five images unless its uploads overlapped
\* ("hasta cinco imágenes", docs/DECISIONES.md:85).
ImagesLimited ==
    \A d \in Designs \ crowded : Cardinality(ImagesOf(d)) <= ImageLimit

=============================================================================
