----------------------------- MODULE MCRegistry -----------------------------
(* The elements with which TLC checks Registry: of the built-in table the two     *)
(* masters with complete child lists, a child and a global element; and a       *)
(* vendor's, under names that are its own, a standard one and an alias.         *)
EXTENDS Registry, TLC

Info(name, type) == [name |-> name, type |-> type]

MCBuiltIn ==
  "Segment" :> Info("Segment", "master") @@ "Cluster" :> Info("Cluster", "master")
    @@ "Timestamp" :> Info("Timestamp", "uint") @@ "Void" :> Info("Void", "binary")

MCLegacy == "Timecode" :> "Timestamp"

MCChildren == "Segment" :> {"Cluster"} @@ "Cluster" :> {"Timestamp"}

Registration(id, name, type) == [id |-> id, name |-> name, type |-> type]

MCRegistrations ==
     {Registration(id, name, "master") : id \in {"Cluster", "Vendor"}, name \in {"Cluster", "Vendor"}}
  \cup { Registration("Vendor", "Timecode", "master"), Registration("Vendor", "Other", "uint"),
         Registration("Cluster", "Other", "binary"),
         Registration("", "Vendor", "master"), Registration("Vendor", "", "master"),
         Registration("Vendor", "Vendor", TypeUnknown) }

=============================================================================
