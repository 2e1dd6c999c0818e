--------------------------- MODULE CrdConversion ---------------------------
(***************************************************************************)
(* article-crd-conversion: the conversion webhook (webhook.py) and the     *)
(* script (run.py) that moves a Widget from version v1alpha1 to v1beta1    *)
(* while both are served.                                                  *)
(*                                                                         *)
(* The API server is external: it prunes what a schema does not declare,   *)
(* stores objects in the storage version, and asks the webhook whenever it *)
(* has to show or to decode an object in another version than it is stored *)
(* in.  Deleting a CRD deletes its objects, which have to be decoded.      *)
(***************************************************************************)
EXTENDS Script, Functions

Alpha == "v1alpha1"
Beta == "v1beta1"
Versions == {Alpha, Beta}

----------------------------------------------------------------------------
(* webhook.py.  A spec is a function from the fields it has.               *)

get(f, k, default) == IF k \in DOMAIN f THEN f[k] ELSE default

\* Mutant: the new name is looked up under the old one only.
convert_objectOneWay(obj, desired) ==
  LET spec == obj.spec  replicas == get(spec, "replicas", 1) IN
  [obj EXCEPT !.version = desired,
              !.spec = IF desired = Beta
                       THEN [displayName |-> get(spec, "label", ""), replicas |-> replicas]
                       ELSE [label |-> get(spec, "label", ""), replicas |-> replicas]]

convert_object(obj, desired) ==
  LET spec == obj.spec
      replicas == get(spec, "replicas", 1) IN
  [obj EXCEPT !.version = desired,
              !.spec = IF desired = Beta
                       THEN [displayName |-> get(spec, "displayName", get(spec, "label", "")),
                             replicas |-> replicas]
                       ELSE [label |-> get(spec, "label", get(spec, "displayName", "")),
                             replicas |-> replicas]]

\* The handler converts all objects of a review.
do_POST(objects, desired) == [i \in DOMAIN objects |-> convert_object(objects[i], desired)]

\* The schemas of the two versions: the name of the required field.
Required(v) == IF v = Alpha THEN "label" ELSE "displayName"
Declared(v) == {Required(v), "replicas"}
Prune(obj) == [obj EXCEPT !.spec = Restrict(obj.spec, DOMAIN @ \cap Declared(obj.version))]

----------------------------------------------------------------------------
(* The cluster.  Certificates are named by the run that made them.         *)

NoCrd == [exists |-> FALSE, bundle |-> 0, storage |-> Alpha, served |-> {}, stored |-> {},
          established |-> FALSE, live |-> {}]
NoWidget == [version |-> Alpha, spec |-> <<>>, status |-> 0]
Cluster == [ns |-> FALSE, files |-> 0, secret |-> 0, pod |-> 0, service |-> FALSE,
            crd |-> NoCrd, widget |-> NoWidget]

\* The API server trusts the certificate the webhook's Pod has mounted.
Reachable == w.ns /\ w.service /\ w.pod # 0 /\ w.crd.bundle = w.pod

Decodable(v) == w.widget.version = v \/ Reachable

\* What a GET in version v returns, NoWidget for an error.
Read(v) ==
  IF w.widget = NoWidget \/ v \notin w.crd.live \/ ~Decodable(v) THEN NoWidget
  ELSE IF w.widget.version = v THEN w.widget
  ELSE do_POST(<<w.widget>>, v)[1]

\* The API server gets to know a new or changed CRD.
CrdSync ==
  /\ w.crd.exists
  /\ w' = [w EXCEPT !.crd.established = TRUE, !.crd.live = w.crd.served,
                    !.crd.stored = @ \cup {w.crd.storage}]
  /\ w' # w
  /\ Aside /\ UNCHANGED blame

CrdSettled == w.crd.established /\ w.crd.live = w.crd.served /\ w.crd.storage \in w.crd.stored

----------------------------------------------------------------------------
(* run.py.                                                                 *)

Expect(v) == [op |-> "expect", esc |-> 0, part |-> "open", version |-> v]

\* Mutant: the namespace is replaced before the old CRD is deleted.
CrdProgramLabFirst ==
  Main(<<Bare("lab"), Bare("delete_crd"), Bare("make_tls"), Bare("secret"), Bare("deployment"),
         Bare("service"), Bare("apply_crd"), Bare("established"), Bare("apply_widget"),
         Expect(Alpha), Expect(Beta), Bare("check_beta"), Bare("switch_storage"),
         Bare("storage_is_beta"), Bare("write_beta"), Expect(Beta), Bare("unserve_alpha"),
         Bare("alpha_unserved"), Expect(Beta), Bare("delete_crd"), Bare("delete_ns")>>)

CrdProgram ==
  Main(<<Bare("delete_crd"), Bare("lab"), Bare("make_tls"), Bare("secret"), Bare("deployment"),
         Bare("service"), Bare("apply_crd"), Bare("established"), Bare("apply_widget"),
         Expect(Alpha), Expect(Beta), Bare("check_beta"), Bare("switch_storage"),
         Bare("storage_is_beta"), Bare("write_beta"), Expect(Beta), Bare("unserve_alpha"),
         Bare("alpha_unserved"), Expect(Beta), Bare("delete_crd"), Bare("delete_ns")>>)

\* Deleting waits until the objects are gone, which needs them decoded.
DeleteCrd(s) ==
  /\ s.op = "delete_crd"
  /\ IF w.widget # NoWidget /\ ~Decodable(w.crd.storage) THEN Fail(s)
     ELSE Call(s, [w EXCEPT !.crd = NoCrd, !.widget = NoWidget])

\* A namespace is deleted with all that is in it; a Widget that cannot be decoded
\* once the webhook is gone stays, and the delete does not return.
Stuck == w.crd.exists /\ w.widget # NoWidget /\ w.widget.version # w.crd.storage
EmptyNs(exists) ==
  [w EXCEPT !.ns = exists \/ Stuck, !.secret = 0, !.pod = 0, !.service = FALSE,
            !.widget = IF Stuck THEN @ ELSE NoWidget]
Empty(s, exists) ==
  IF Stuck THEN w' = EmptyNs(exists) /\ Raise(s) /\ UNCHANGED blame
  ELSE Call(s, EmptyNs(exists))

\* Lab(): the namespace is deleted and created.
NewLab(s) == s.op = "lab" /\ Empty(s, TRUE)
DeleteNs(s) == s.op = "delete_ns" /\ Empty(s, FALSE)

make_tls(s) == s.op = "make_tls" /\ Call(s, [w EXCEPT !.files = loc.run])
CreateSecret(s) == s.op = "secret" /\ Call(s, [w EXCEPT !.secret = w.files])
RolloutWebhook(s) == s.op = "deployment" /\ Call(s, [w EXCEPT !.pod = w.secret])
ApplyService(s) == s.op = "service" /\ Call(s, [w EXCEPT !.service = TRUE])

ApplyCrd(s) ==
  /\ s.op = "apply_crd"
  /\ Call(s, [w EXCEPT !.crd = [NoCrd EXCEPT !.exists = TRUE, !.bundle = w.files,
                                             !.served = Versions]])

established(s) == s.op = "established" /\ Await(s, w.crd.established, FALSE)

ApplyWidget(s) ==
  /\ s.op = "apply_widget"
  /\ IF Alpha \notin w.crd.live THEN Fail(s)
     ELSE Call(s, [w EXCEPT !.widget = Prune([version |-> Alpha, status |-> 0,
            spec |-> [label |-> "alpha", replicas |-> 3, unknown |-> "pruned"]])])

resource_exists(s) == s.op = "expect" /\ Await(s, Read(s.version) # NoWidget, CrdSettled)

\* The assertions of lines 332 to 335.
CheckBeta(s) ==
  /\ s.op = "check_beta"
  /\ Require(s, /\ "unknown" \notin DOMAIN Read(Alpha).spec
               /\ Read(Beta).spec = [displayName |-> "alpha", replicas |-> 3])

SwitchStorage(s) == s.op = "switch_storage" /\ Call(s, [w EXCEPT !.crd.storage = Beta])
storage_is_beta(s) == s.op = "storage_is_beta" /\ Await(s, Beta \in w.crd.stored, FALSE)

\* Writing through v1beta1 stores the object in the storage version.
WriteBeta(s) ==
  /\ s.op = "write_beta"
  /\ IF Read(Beta) = NoWidget THEN Fail(s)
     ELSE Call(s, [w EXCEPT !.widget = convert_object(Read(Beta), w.crd.storage)])

UnserveAlpha(s) == s.op = "unserve_alpha" /\ Call(s, [w EXCEPT !.crd.served = {Beta}])
alpha_unserved(s) == s.op = "alpha_unserved" /\ Await(s, Read(Alpha) = NoWidget, CrdSettled)

CrdStep ==
  /\ ~Idle
  /\ \E s \in {CrdProgram[pc]} :
       \/ /\ \/ DeleteCrd(s) \/ NewLab(s) \/ make_tls(s) \/ CreateSecret(s) \/ RolloutWebhook(s)
             \/ ApplyService(s) \/ ApplyCrd(s) \/ established(s) \/ ApplyWidget(s)
             \/ resource_exists(s) \/ CheckBeta(s) \/ SwitchStorage(s) \/ storage_is_beta(s)
             \/ WriteBeta(s) \/ UnserveAlpha(s) \/ alpha_unserved(s) \/ DeleteNs(s)
          /\ Note
       \/ EndRun(s)

CrdInit == w = Cluster /\ FirstRun({})
CrdNext == CrdStep \/ CrdSync \/ StartRun \/ KillRun

----------------------------------------------------------------------------
(* Properties.                                                             *)

\* Specs the schema of version v accepts, with and without the optional field.
Accepted(v) ==
  [{Required(v)} -> {"", "alpha"}]
  \cup UNION {{[f \in Declared(v) |-> IF f = "replicas" THEN r ELSE n] : r \in {1, 3}} : n \in {"", "alpha"}}
Widgets == UNION {[version : {v}, spec : Accepted(v), status : {0, 1}] : v \in Versions}

(* convert_object (webhook.py:10) loses nothing between the two versions:  *)
(* the converted object satisfies the other schema, and converting it back *)
(* gives the object with replicas defaulted, whatever optional fields it   *)
(* had.  With it, an object written before the storage version is switched *)
(* reads the same after it.                                                *)
ConversionRoundTrip ==
  lab = "crd" => \A o \in Widgets, v \in Versions :
    LET there == convert_object(o, v)
        back == convert_object(there, o.version) IN
    /\ DOMAIN there.spec = Declared(v)
    /\ back.spec = [f \in Declared(o.version) |-> get(o.spec, f, 1)]
    /\ back.status = o.status
    /\ w.widget # NoWidget /\ w.widget.version = Beta
       => convert_object(w.widget, Alpha).spec = [label |-> "alpha", replicas |-> 3]

(* The webhook outlives what needs it: as long as the CRD exists with an   *)
(* object stored in another version than the storage version, the webhook  *)
(* can be reached with the certificate the CRD trusts, so that a delete    *)
(* of the CRD does not hang (lines 104 and 444 come before the namespace   *)
(* is deleted), wherever a run fails or is killed.                         *)
WebhookOutlivesObjects ==
  lab = "crd" /\ Stuck => Reachable
=============================================================================
