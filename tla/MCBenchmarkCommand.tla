-------------------------- MODULE MCBenchmarkCommand --------------------------
(* Two axes, jitter before bandwidth as for a zero-loss target; rows as the *)
(* registry has them (a calibrated one with two metrics, a boundary, a      *)
(* replay without bands) over a metric that every run has and one it may    *)
(* lack.  Two configurations compared, each axis with two values, and       *)
(* recordings of every short course of a warm-up.                           *)
EXTENDS BenchmarkCommand

Axes  == {"bandwidth", "jitter"}
Order == <<"jitter", "bandwidth">>
Bandwidth == {"bandwidth"}
Jitter == {"jitter"}
Offered == "bandwidth"

Metrics == {"loss_pct", "payload_bandwidth_bps"}
Loss == {"loss_pct"}
MoreIsBetter == {"payload_bandwidth_bps"}
LossFloor == [loss_pct |-> 1, payload_bandwidth_bps |-> 0]
Benched == {
    [kind |-> "performance", gates |-> <<"payload_bandwidth_bps", "loss_pct">>, floor |-> LossFloor],
    [kind |-> "boundary", gates |-> <<"loss_pct">>, floor |-> LossFloor],
    [kind |-> "replay", gates |-> <<>>, floor |-> LossFloor]}

TwoLabels == <<"baseline", "candidate">>
Package == [config |-> "package", qos |-> "default"]
Users == [config |-> "user", qos |-> "user"]
Net == [rate |-> 10, up |-> 20, down |-> 40, jitter |-> 10, loss |-> 3, corr |-> 0]
TwoValues == [loss |-> <<0, 5>>, delay |-> <<0, 60>>, jitter |-> <<0, 30>>, rate |-> <<100, 1>>,
    loss_correlation |-> <<0, 25>>, latency |-> <<30, 60>>, hz |-> <<20, 5>>,
    qos |-> <<"reliable:1", "best_effort:10">>, size |-> <<1000, 2000>>]

Times(v, n) == [i \in 1..n |-> v]
Lost == -1
Shaped(level, n, slope, gap) == [i \in 1..n |-> IF i = gap THEN Lost ELSE level + slope * (i - 1)]
Recorded == {[calm |-> calm, between |-> Len(between), low |-> net.low, high |-> net.high,
              samples |-> Times(net.low, calm) \o between \o Shaped(net.high, n, slope, gap)] :
    calm \in {0, 3, 4, 6, 7}, net \in {[low |-> 2, high |-> 20], [low |-> 5, high |-> 60], [low |-> 10, high |-> 30]},
    between \in {<<>>, <<Lost>>, <<11>>, <<11, Lost>>, <<Lost, Lost>>}, n \in {6, 7, 9, 11}, slope \in {0, 2}, gap \in {0, 1, 3}}
================================================================================
