---------------------------- MODULE DispatchData ----------------------------
(***************************************************************************)
(* The tables of the unit tests of cpu_dispatch: operands a and b, flags f *)
(* before an instruction; value v and flags f after it.  A table that      *)
(* repeats another one refers to it.                                       *)
(***************************************************************************)
-----------------------------------------------------------------------------
(* unit-test-cpu-dispatch.h *)

BIT_IN == [a |-> <<\h00, \h01, \h02, \h04, \h08, \h10, \h20, \h40, \h80, \hFF, \h0F, \hF0, \h00, \h01, \h02, \h04, \h08, \h10, \h20, \h40, \h80, \hFF, \h0F, \hF0>>,
           f |-> <<\h00, \h00, \h00, \h00, \h00, \h00, \h00, \h00, \h00, \h00, \h00, \h00, \hF0, \hF0, \hF0, \hF0, \hF0, \hF0, \hF0, \hF0, \hF0, \hF0, \hF0, \hF0>>]
BIT_OUT_FLAG ==
    <<<<\hA0, \h20, \hA0, \hA0, \hA0, \hA0, \hA0, \hA0, \hA0, \h20, \h20, \hA0, \hB0, \h30, \hB0, \hB0, \hB0, \hB0, \hB0, \hB0, \hB0, \h30, \h30, \hB0>>,
      <<\hA0, \hA0, \h20, \hA0, \hA0, \hA0, \hA0, \hA0, \hA0, \h20, \h20, \hA0, \hB0, \hB0, \h30, \hB0, \hB0, \hB0, \hB0, \hB0, \hB0, \h30, \h30, \hB0>>,
      <<\hA0, \hA0, \hA0, \h20, \hA0, \hA0, \hA0, \hA0, \hA0, \h20, \h20, \hA0, \hB0, \hB0, \hB0, \h30, \hB0, \hB0, \hB0, \hB0, \hB0, \h30, \h30, \hB0>>,
      <<\hA0, \hA0, \hA0, \hA0, \h20, \hA0, \hA0, \hA0, \hA0, \h20, \h20, \hA0, \hB0, \hB0, \hB0, \hB0, \h30, \hB0, \hB0, \hB0, \hB0, \h30, \h30, \hB0>>,
      <<\hA0, \hA0, \hA0, \hA0, \hA0, \h20, \hA0, \hA0, \hA0, \h20, \hA0, \h20, \hB0, \hB0, \hB0, \hB0, \hB0, \h30, \hB0, \hB0, \hB0, \h30, \hB0, \h30>>,
      <<\hA0, \hA0, \hA0, \hA0, \hA0, \hA0, \h20, \hA0, \hA0, \h20, \hA0, \h20, \hB0, \hB0, \hB0, \hB0, \hB0, \hB0, \h30, \hB0, \hB0, \h30, \hB0, \h30>>,
      <<\hA0, \hA0, \hA0, \hA0, \hA0, \hA0, \hA0, \h20, \hA0, \h20, \hA0, \h20, \hB0, \hB0, \hB0, \hB0, \hB0, \hB0, \hB0, \h30, \hB0, \h30, \hB0, \h30>>,
      <<\hA0, \hA0, \hA0, \hA0, \hA0, \hA0, \hA0, \hA0, \h20, \h20, \hA0, \h20, \hB0, \hB0, \hB0, \hB0, \hB0, \hB0, \hB0, \hB0, \h30, \h30, \hB0, \h30>>>>
\* The flags of CHG_OUT_FLAG_0 to 7 are those of BIT_IN_FLAG.
CHG_OUT_DATA ==
    <<<<\h00, \h00, \h02, \h04, \h08, \h10, \h20, \h40, \h80, \hFE, \h0E, \hF0, \h00, \h00, \h02, \h04, \h08, \h10, \h20, \h40, \h80, \hFE, \h0E, \hF0>>,
      <<\h00, \h01, \h00, \h04, \h08, \h10, \h20, \h40, \h80, \hFD, \h0D, \hF0, \h00, \h01, \h00, \h04, \h08, \h10, \h20, \h40, \h80, \hFD, \h0D, \hF0>>,
      <<\h00, \h01, \h02, \h00, \h08, \h10, \h20, \h40, \h80, \hFB, \h0B, \hF0, \h00, \h01, \h02, \h00, \h08, \h10, \h20, \h40, \h80, \hFB, \h0B, \hF0>>,
      <<\h00, \h01, \h02, \h04, \h00, \h10, \h20, \h40, \h80, \hF7, \h07, \hF0, \h00, \h01, \h02, \h04, \h00, \h10, \h20, \h40, \h80, \hF7, \h07, \hF0>>,
      <<\h00, \h01, \h02, \h04, \h08, \h00, \h20, \h40, \h80, \hEF, \h0F, \hE0, \h00, \h01, \h02, \h04, \h08, \h00, \h20, \h40, \h80, \hEF, \h0F, \hE0>>,
      <<\h00, \h01, \h02, \h04, \h08, \h10, \h00, \h40, \h80, \hDF, \h0F, \hD0, \h00, \h01, \h02, \h04, \h08, \h10, \h00, \h40, \h80, \hDF, \h0F, \hD0>>,
      <<\h00, \h01, \h02, \h04, \h08, \h10, \h20, \h00, \h80, \hBF, \h0F, \hB0, \h00, \h01, \h02, \h04, \h08, \h10, \h20, \h00, \h80, \hBF, \h0F, \hB0>>,
      <<\h00, \h01, \h02, \h04, \h08, \h10, \h20, \h40, \h00, \h7F, \h0F, \h70, \h00, \h01, \h02, \h04, \h08, \h10, \h20, \h40, \h00, \h7F, \h0F, \h70>>>>
CP_IN == [a |-> <<\h00, \h00, \h01, \h01, \h02, \h02, \h04, \h08, \h08, \h00, \h00, \h01, \h01, \hEF, \h80, \hFF, \h0F, \h00, \h00, \h01, \h01, \hEF, \h80, \hFF, \h0F>>,
          b |-> <<\h00, \h00, \h01, \h01, \h02, \h02, \h04, \h08, \h08, \h00, \h01, \h00, \h0F, \h01, \h80, \hFF, \hF1, \h00, \h01, \h00, \h0F, \h01, \h80, \hFF, \hF1>>,
          f |-> <<\h00, \h10, \h00, \h10, \h00, \h10, \h00, \h00, \h10, \h00, \h00, \h00, \h00, \h00, \h00, \h00, \h00, \hF0, \hF0, \hF0, \hF0, \hF0, \hF0, \hF0, \hF0>>]
CP_OUT == [v |-> CP_IN.a,
           f |-> <<\hC0, \hC0, \hC0, \hC0, \hC0, \hC0, \hC0, \hC0, \hC0, \hC0, \h70, \h40, \h70, \h40, \hC0, \hC0, \h50, \hC0, \h70, \h40, \h70, \h40, \hC0, \hC0, \h50>>]
CP_OUT_S == [v |-> CP_IN.a, f |-> [i \in DOMAIN CP_IN.f |-> \hC0]]
ROT_IN == [a |-> <<\h00, \h00, \h0F, \hFF, \h03, \h00, \hFF, \hFE, \h01, \h80, \h00, \h01, \h10, \h80, \h08>>,
           f |-> <<\h00, \h10, \h00, \h00, \h00, \h00, \h10, \h00, \h00, \h00, \hF0, \hF0, \hF0, \hF0, \hF0>>]
ROT_OUT_L == [v |-> <<\h00, \h01, \h1E, \hFE, \h06, \h00, \hFF, \hFC, \h02, \h00, \h01, \h03, \h21, \h01, \h11>>,
              f |-> <<\h00, \h00, \h00, \h10, \h00, \h00, \h10, \h10, \h00, \h10, \h00, \h00, \h00, \h10, \h00>>]
ROT_OUT_LZ == [ROT_OUT_L EXCEPT !.f =
    <<\h80, \h00, \h00, \h10, \h00, \h80, \h10, \h10, \h00, \h90, \h00, \h00, \h00, \h10, \h00>>]
ROT_OUT_R == [v |-> <<\h00, \h80, \h07, \h7F, \h01, \h00, \hFF, \h7F, \h00, \h40, \h80, \h80, \h88, \hC0, \h84>>,
              f |-> <<\h00, \h00, \h10, \h10, \h10, \h00, \h10, \h00, \h10, \h00, \h00, \h10, \h00, \h00, \h00>>]
ROT_OUT_RZ == [ROT_OUT_R EXCEPT !.f =
    <<\h80, \h00, \h10, \h10, \h10, \h80, \h10, \h00, \h90, \h00, \h00, \h10, \h00, \h00, \h00>>]
ROT_OUT_LC == [v |-> <<\h00, \h00, \h1E, \hFF, \h06, \h00, \hFF, \hFD, \h02, \h01, \h00, \h02, \h20, \h01, \h10>>,
               f |-> <<\h00, \h00, \h00, \h10, \h00, \h00, \h10, \h10, \h00, \h10, \h00, \h00, \h00, \h10, \h00>>]
ROT_OUT_LCZ == [ROT_OUT_LC EXCEPT !.f =
    <<\h80, \h80, \h00, \h10, \h00, \h80, \h10, \h10, \h00, \h10, \h80, \h00, \h00, \h10, \h00>>]
ROT_OUT_RC == [v |-> <<\h00, \h00, \h87, \hFF, \h81, \h00, \hFF, \h7F, \h80, \h40, \h00, \h80, \h08, \h40, \h04>>,
               f |-> <<\h00, \h00, \h10, \h10, \h10, \h00, \h10, \h00, \h10, \h00, \h00, \h10, \h00, \h00, \h00>>]
ROT_OUT_RCZ == [ROT_OUT_RC EXCEPT !.f =
    <<\h80, \h80, \h10, \h10, \h10, \h80, \h10, \h00, \h10, \h00, \h80, \h10, \h00, \h00, \h00>>]
SHFT_IN == [a |-> <<\h00, \h00, \h0F, \hFF, \h03, \h00, \hFF, \hFE, \h01, \h02, \h10, \h80, \h00, \h01, \h10, \h08, \h80>>,
            f |-> <<\h00, \h10, \h00, \h00, \h00, \h00, \h10, \h00, \h00, \h00, \h00, \h00, \hF0, \hF0, \hF0, \hF0, \hF0>>]
SHFT_OUT_L == [v |-> <<\h00, \h00, \h1E, \hFE, \h06, \h00, \hFE, \hFC, \h02, \h04, \h20, \h00, \h00, \h02, \h20, \h10, \h00>>,
               f |-> <<\h80, \h80, \h00, \h10, \h00, \h80, \h10, \h10, \h00, \h00, \h00, \h90, \h80, \h00, \h00, \h00, \h90>>]
SHFT_OUT_R == [v |-> <<\h00, \h00, \h07, \hFF, \h01, \h00, \hFF, \hFF, \h00, \h01, \h08, \hC0, \h00, \h00, \h08, \h04, \hC0>>,
               f |-> <<\h80, \h80, \h10, \h10, \h10, \h80, \h10, \h00, \h90, \h00, \h00, \h00, \h80, \h90, \h00, \h00, \h00>>]
SHFT_OUT_RL == [SHFT_OUT_R EXCEPT !.v =
    <<\h00, \h00, \h07, \h7F, \h01, \h00, \h7F, \h7F, \h00, \h01, \h08, \h40, \h00, \h00, \h08, \h04, \h40>>]

-----------------------------------------------------------------------------
(* unit-test-cpu-dispatch-week08.c *)

ADD_IN == CP_IN
ADD_OUT == [v |-> <<\h00, \h00, \h02, \h02, \h04, \h04, \h08, \h10, \h10, \h00, \h01, \h01, \h10, \hF0, \h00, \hFE, \h00, \h00, \h01, \h01, \h10, \hF0, \h00, \hFE, \h00>>,
            f |-> <<\h80, \h80, \h00, \h00, \h00, \h00, \h00, \h20, \h20, \h80, \h00, \h00, \h20, \h20, \h90, \h30, \hB0, \h80, \h00, \h00, \h20, \h20, \h90, \h30, \hB0>>]
ADD_OUT_S == [v |-> <<\h00, \h00, \h02, \h02, \h04, \h04, \h08, \h10, \h10, \h00, \h00, \h02, \h02, \hDE, \h00, \hFE, \h1E, \h00, \h00, \h02, \h02, \hDE, \h00, \hFE, \h1E>>,
              f |-> <<\h80, \h80, \h00, \h00, \h00, \h00, \h00, \h20, \h20, \h80, \h80, \h00, \h00, \h30, \h90, \h30, \h20, \h80, \h80, \h00, \h00, \h30, \h90, \h30, \h20>>]
ADD_OUT_C == [v |-> <<\h00, \h01, \h02, \h03, \h04, \h05, \h08, \h10, \h11, \h00, \h01, \h01, \h10, \hF0, \h00, \hFE, \h00, \h01, \h02, \h02, \h11, \hF1, \h01, \hFF, \h01>>,
              f |-> <<\h80, \h00, \h00, \h00, \h00, \h00, \h00, \h20, \h20, \h80, \h00, \h00, \h20, \h20, \h90, \h30, \hB0, \h00, \h00, \h00, \h20, \h20, \h10, \h30, \h30>>]
ADD_OUT_SC == [v |-> <<\h00, \h01, \h02, \h03, \h04, \h05, \h08, \h10, \h11, \h00, \h00, \h02, \h02, \hDE, \h00, \hFE, \h1E, \h01, \h01, \h03, \h03, \hDF, \h01, \hFF, \h1F>>,
               f |-> <<\h80, \h00, \h00, \h00, \h00, \h00, \h00, \h20, \h20, \h80, \h80, \h00, \h00, \h30, \h90, \h30, \h20, \h00, \h00, \h00, \h00, \h30, \h10, \h30, \h20>>]
INC_IN == [a |-> <<\h00, \h01, \hFF, \hFE, \h10, \hF0, \hDD, \hBB, \h0F, \h00, \hFF>>,
           f |-> <<\h00, \h00, \h00, \h00, \h00, \h00, \h00, \h00, \h00, \hF0, \hF0>>]
INC_OUT == [v |-> <<\h01, \h02, \h00, \hFF, \h11, \hF1, \hDE, \hBC, \h10, \h01, \h00>>,
            f |-> <<\h00, \h00, \hA0, \h00, \h00, \h00, \h00, \h00, \h20, \h10, \hB0>>]
INC_IN16 == [a |-> <<\h1000, \h0000, \hFFFF, \hFFF0, \h0001, \h0FFF, \hDEAD, \hB011, \hB005, \h0000, \hFFFF>>,
             f |-> <<\h00, \h00, \h00, \h00, \h80, \h00, \h00, \h00, \h00, \hF0, \hF0>>]
INC_OUT16 == [v |-> <<\h1001, \h0001, \h0000, \hFFF1, \h0002, \h1000, \hDEAE, \hB012, \hB006, \h0001, \h0000>>,
              f |-> INC_IN16.f]
ADD_IN16 == [a |-> <<\h0000, \hFFFF, \h0001, \h000F, \h0FFF, \h0002, \h00FF, \hEEEE, \h000F, \h0000, \hFFFF>>,
             b |-> <<\h0000, \h0001, \h0001, \h0001, \h0002, \h0002, \h0001, \h2222, \h0000, \h0000, \h0001>>,
             f |-> <<\h00, \h10, \h00, \h10, \h00, \h10, \h00, \h00, \h10, \hF0, \hF0>>]
ADD_OUT16 == [v |-> <<\h0000, \h0000, \h0002, \h0010, \h1001, \h0004, \h0100, \h1110, \h000F, \h0000, \h0000>>,
              f |-> <<\h00, \h30, \h00, \h00, \h20, \h00, \h00, \h30, \h00, \h80, \hB0>>]
ADD_OUT_S16 == [v |-> <<\h0000, \hFFFE, \h0002, \h001E, \h1FFE, \h0004, \h01FE, \hDDDC, \h001E, \h0000, \hFFFE>>,
                f |-> ADD_OUT16.f]
SPPP == [n1 |-> <<\h00, \hAD, \hFF, \h01, \h01, \h00, \h00, \h00>>,
         n2 |-> <<\h00, \hDE, \h00, \h01, \h01, \h00, \h00, \h00>>,
         nn |-> <<\h0000, \hDEAD, \h00FF, \h0101, \h0101, \h0000, \h0000, \h0000>>,
         n1f |-> <<\h00, \hA0, \hF0, \h00, \h00, \h00, \h00, \h00>>,
         nnf |-> <<\h0000, \hDEA0, \h00F0, \h0100, \h0100, \h0000, \h0000, \h0000>>]

-----------------------------------------------------------------------------
(* unit-test-cpu-dispatch.c *)

SUB_IN == CP_IN
SUB_OUT == [v |-> <<\h00, \h00, \h00, \h00, \h00, \h00, \h00, \h00, \h00, \h00, \hFF, \h01, \hF2, \hEE, \h00, \h00, \h1E, \h00, \hFF, \h01, \hF2, \hEE, \h00, \h00, \h1E>>,
            f |-> CP_OUT.f]
SUB_OUT_S == [v |-> <<\h00, \h00, \h00, \h00, \h00, \h00, \h00, \h00, \h00, \h00, \h00, \h00, \h00, \h00, \h00, \h00, \h00, \h00, \h00, \h00, \h00, \h00, \h00, \h00, \h00>>,
              f |-> CP_OUT_S.f]
SUB_OUT_C == [v |-> <<\h00, \hFF, \h00, \hFF, \h00, \hFF, \h00, \h00, \hFF, \h00, \hFF, \h01, \hF2, \hEE, \h00, \h00, \h1E, \hFF, \hFE, \h00, \hF1, \hED, \hFF, \hFF, \h1D>>,
              f |-> <<\hC0, \h70, \hC0, \h70, \hC0, \h70, \hC0, \hC0, \h70, \hC0, \h70, \h40, \h70, \h40, \hC0, \hC0, \h50, \h70, \h70, \hC0, \h70, \h40, \h70, \h70, \h50>>]
SUB_OUT_SC == [v |-> <<\h00, \hFF, \h00, \hFF, \h00, \hFF, \h00, \h00, \hFF, \h00, \h00, \h00, \h00, \h00, \h00, \h00, \h00, \hFF, \hFF, \hFF, \hFF, \hFF, \hFF, \hFF, \hFF>>,
               f |-> <<\hC0, \h70, \hC0, \h70, \hC0, \h70, \hC0, \hC0, \h70, \hC0, \hC0, \hC0, \hC0, \hC0, \hC0, \hC0, \hC0, \h70, \h70, \h70, \h70, \h70, \h70, \h70, \h70>>]
DEC_IN == [a |-> <<\h00, \h01, \hFF, \hFE, \h10, \h11, \hDD, \hBB, \h0F, \h00, \hFF, \hF0>>,
           f |-> <<\h00, \h00, \h00, \h00, \h00, \h00, \h00, \h00, \h00, \hF0, \hF0, \hF0>>]
DEC_OUT == [v |-> <<\hFF, \h00, \hFE, \hFD, \h0F, \h10, \hDC, \hBA, \h0E, \hFF, \hFE, \hEF>>,
            f |-> <<\h60, \hC0, \h40, \h40, \h60, \h40, \h40, \h40, \h40, \h70, \h50, \h70>>]
DEC_IN16 == [a |-> <<\h1000, \h0000, \hFFFF, \hFFF0, \h0001, \hF000, \hDEAD, \hB011, \hB005, \h0000, \hFFFF>>,
             f |-> INC_IN16.f]
DEC_OUT16 == [v |-> <<\h0FFF, \hFFFF, \hFFFE, \hFFEF, \h0000, \hEFFF, \hDEAC, \hB010, \hB004, \hFFFF, \hFFFE>>,
              f |-> INC_IN16.f]
AND_IN == [a |-> <<\h00, \h00, \h01, \h01, \h02, \h02, \h04, \h08, \h08, \h00, \hFF>>,
           b |-> <<\h00, \h00, \h01, \h01, \h02, \h03, \h03, \h08, \h0F, \h00, \hFF>>,
           f |-> <<\h00, \h10, \h00, \h10, \h00, \h10, \h00, \h00, \h10, \hF0, \hF0>>]
AND_OUT == [v |-> <<\h00, \h00, \h01, \h01, \h02, \h02, \h00, \h08, \h08, \h00, \hFF>>,
            f |-> <<\hA0, \hA0, \h20, \h20, \h20, \h20, \hA0, \h20, \h20, \hA0, \h20>>]
AND_OUT_S == [v |-> <<\h00, \h00, \h01, \h01, \h02, \h02, \h04, \h08, \h08, \h00, \hFF>>,
              f |-> <<\hA0, \hA0, \h20, \h20, \h20, \h20, \h20, \h20, \h20, \hA0, \h20>>]
OR_IN == [a |-> <<\h00, \h0F, \h00, \h03, \h00, \hFF, \h00>>,
          b |-> <<\h00, \h00, \h0F, \h0C, \h00, \hFF, \hFF>>,
          f |-> <<\h00, \h00, \h00, \h00, \hF0, \hF0, \hF0>>]
OR_OUT == [v |-> <<\h00, \h0F, \h0F, \h0F, \h00, \hFF, \hFF>>,
           f |-> <<\h80, \h00, \h00, \h00, \h80, \h00, \h00>>]
OR_OUT_S == [v |-> <<\h00, \h0F, \h00, \h03, \h00, \hFF, \h00>>,
             f |-> <<\h80, \h00, \h80, \h00, \h80, \h00, \h80>>]
XOR_IN == [a |-> <<\h00, \h0F, \h00, \h03, \h00, \hFF, \h00, \hFF, \h00>>,
           b |-> <<\h00, \h00, \h0F, \h0C, \hFF, \hFF, \h00, \hFF, \hFF>>,
           f |-> <<\h00, \h00, \h00, \h00, \h00, \h00, \hF0, \hF0, \hF0>>]
XOR_OUT == [v |-> <<\h00, \h0F, \h0F, \h0F, \hFF, \h00, \h00, \h00, \hFF>>,
            f |-> <<\h80, \h00, \h00, \h00, \h00, \h80, \h80, \h80, \h00>>]
XOR_OUT_S == [v |-> <<\h00, \h00, \h00, \h00, \h00, \h00, \h00, \h00, \h00>>,
              f |-> <<\h80, \h80, \h80, \h80, \h80, \h80, \h80, \h80, \h80>>]
SWAP_IN == [a |-> <<\h00, \h00, \h01, \h01, \h02, \h02, \h04, \h08, \h08, \h00, \h01, \h05, \hEF, \h80, \hFF, \h0F, \h00, \h00, \h01, \h01, \hEF, \h80, \hFF, \h0F>>,
            f |-> <<\h00, \h10, \h00, \h10, \h00, \h10, \h00, \h00, \h10, \h00, \h00, \h00, \h00, \h00, \h00, \h00, \hF0, \hF0, \hF0, \hF0, \hF0, \hF0, \hF0, \hF0>>]
SWAP_OUT == [v |-> <<\h00, \h00, \h10, \h10, \h20, \h20, \h40, \h80, \h80, \h00, \h10, \h50, \hFE, \h08, \hFF, \hF0, \h00, \h00, \h10, \h10, \hFE, \h08, \hFF, \hF0>>,
             f |-> <<\h80, \h80, \h00, \h00, \h00, \h00, \h00, \h00, \h00, \h80, \h00, \h00, \h00, \h00, \h00, \h00, \h80, \h80, \h00, \h00, \h00, \h00, \h00, \h00>>]
LD_HLSP_INPUT == CP_IN
LD_HLSP_OUTPUT == [v |-> ADD_OUT.v,
                   f |-> <<\h00, \h00, \h00, \h00, \h00, \h00, \h00, \h20, \h20, \h00, \h00, \h00, \h20, \h20, \h10, \h30, \h30, \h00, \h00, \h00, \h20, \h20, \h10, \h30, \h30>>]
DAA_INPUT == [a |-> <<\h00, \h01, \h02, \h04, \h08, \h10, \h20, \h40, \h80, \hFF, \h0F, \hF0, \hDD, \h11, \h00, \h01, \h02, \h04, \h08, \h10, \h20, \h40, \h80, \hFF, \h0F, \hF0, \hDD, \h11>>,
              f |-> <<\h00, \h00, \h00, \h00, \h00, \h00, \h00, \h00, \h00, \h00, \h00, \h00, \h00, \h00, \hF0, \hF0, \hF0, \hF0, \hF0, \hF0, \hF0, \hF0, \hF0, \hF0, \hF0, \hF0, \hF0, \hF0>>]
DAA_OUTPUT == [v |-> <<\h00, \h01, \h02, \h04, \h08, \h10, \h20, \h40, \h80, \h65, \h15, \h50, \h43, \h11, \h9A, \h9B, \h9C, \h9E, \hA2, \hAA, \hBA, \hDA, \h1A, \h99, \hA9, \h8A, \h77, \hAB>>,
               f |-> <<\h80, \h00, \h00, \h00, \h00, \h00, \h00, \h00, \h00, \h10, \h00, \h10, \h10, \h00, \h50, \h50, \h50, \h50, \h50, \h50, \h50, \h50, \h50, \h50, \h50, \h50, \h50, \h50>>]
SCCF == [f |-> <<\h10, \h20, \h30, \h40, \h50, \h60, \h70, \h80, \h90, \hA0, \hB0, \hC0, \hD0, \hE0, \hF0>>,
         ccf |-> <<\h00, \h10, \h00, \h10, \h00, \h10, \h00, \h90, \h80, \h90, \h80, \h90, \h80, \h90, \h80>>,
         scf |-> <<\h10, \h10, \h10, \h10, \h10, \h10, \h10, \h90, \h90, \h90, \h90, \h90, \h90, \h90, \h90>>]
=============================================================================
