----------------------------- MODULE MCFuncLoad -----------------------------
(***************************************************************************)
(* FuncLoad for TLC.                                                       *)
(***************************************************************************)
EXTENDS FuncLoad

MCTargets ==
    << "amf_ngap_disp", "amf_nas_disp", "amf_sbi", "amf_sbi_body", "amf_http_hdr_get_entry",
       "amf_http_hdr_get_ret" >>

F(key, blanks, quoted, val) ==
    [key |-> key, blanks |-> blanks, quoted |-> quoted, val |-> val]

\* The window ends behind the sixth symbol: after a field of five the next key
\* is inside, after one of six outside.  Values of up to three symbols, one more
\* than an IE holds; a number; the same key twice; five blanks.
MCBodies ==
    { << >>,
      << F("cause", 0, TRUE, <<"a", "b">>), F("reason", 0, TRUE, <<"c">>) >>,
      << F("supi", 0, TRUE, <<"a">>), F("reason", 0, TRUE, <<"a", "b", "c">>) >>,
      << F("supi", 0, TRUE, <<"a", "b">>), F("reason", 0, TRUE, <<"c">>) >>,
      << F("reason", 0, FALSE, <<"1">>), F("reason", 0, TRUE, <<"c">>) >>,
      << F("nfId", 4, TRUE, <<"a">>) >>,
      << F("nfId", 5, TRUE, <<"a">>) >> }

\* After a failure a call less.
MCBound == failures = 0 \/ calls + others < MaxCalls

=============================================================================
