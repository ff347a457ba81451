------------------------------ MODULE MCArmor --------------------------------
(* ArmorChannel with a counter of two records, three payloads of which one *)
(* is too large to send, two static keys, two connections and one fault.   *)
EXTENDS ArmorChannel

=============================================================================
