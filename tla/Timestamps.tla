------------------------------- MODULE Timestamps -------------------------------
(* The timestamps the tables store and compare as text: isoformat of a UTC time  *)
(* with "Z" for "+00:00", to the microsecond, which leaves the fraction out when *)
(* it is zero.  Digits, lengths and separators agree up to the seconds; after    *)
(* them "." sorts before "Z".                                                    *)
EXTENDS Naturals

Second == 1000000
Timestamp == [sec : Nat, micro : 0..(Second - 1)]
Instant(t) == Second * t.sec + t.micro

\* the order of the texts
TextBefore(s, t) ==
  \/ s.sec < t.sec
  \/ /\ s.sec = t.sec
     /\ \/ s.micro # 0 /\ t.micro = 0
        \/ s.micro # 0 /\ t.micro # 0 /\ s.micro < t.micro

\* _add_seconds
AddSeconds(t, n) == [sec |-> t.sec + n, micro |-> t.micro]
================================================================================
