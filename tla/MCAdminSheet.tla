---------------------------- MODULE MCAdminSheet ----------------------------
(* Instances of AdminSheet for TLC. *)
EXTENDS AdminSheet

Product(id, names) == [id |-> id, body |-> [val |-> 0, names |-> names]]

Small ==
    {[tab \in Tabs |->
        CASE tab = "Products"    -> <<Product(1, {"kilims"}), Product(2, {"kilims"})>>
          [] tab = "Collections" -> <<[id |-> "kilims", body |-> "kilims"]>>
          [] OTHER               -> <<[id |-> "ana", body |-> 0]>>]}
=============================================================================
